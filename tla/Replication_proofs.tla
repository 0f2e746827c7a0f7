-------------------------- MODULE Replication_proofs --------------------------
(***************************************************************************)
(* Proofs about Replication, for any nodes, addresses, team, queues,       *)
(* messages and kinds of failure: what the master keeps, types, who waits  *)
(* for whom, and what the log of a node tells of its database.  Then, for  *)
(* a system in which some failures do not happen, each named in the        *)
(* theorem: the logs and databases of the nodes are those of the node that *)
(* serves clients.                                                         *)
(***************************************************************************)
EXTENDS Replication, Database_proofs

-----------------------------------------------------------------------------
(***************************************************************************)
(* The master's log only grows.                                            *)
(***************************************************************************)
\* File and queue of the master are sequences, of whatever.
AreSeqs == \E S : mfile \in Seq(S) /\ pQueue \in Seq(S)

\* What the history becomes in a step keeps what it has to.
Kept == IsPrefix(IF running' THEN History ELSE mfile, History')

\* A sequence is a prefix of what it is the beginning of.
LEMMA PrefixOfConcat ==
    ASSUME NEW S, NEW s \in Seq(S), NEW t \in Seq(S)
    PROVE  /\ s \o t \in Seq(S)
           /\ IsPrefix(s, s) /\ IsPrefix(s, s \o t)
<1>1. /\ s \o t \in Seq(S) /\ Len(s \o t) = Len(s) + Len(t)
      /\ \A i \in 1..Len(s) : (s \o t)[i] = s[i]
  OBVIOUS
<1>2. SubSeq(s \o t, 1, Len(s)) = SubSeq(s, 1, Len(s))
  <2>1. /\ SubSeq(s \o t, 1, Len(s)) \in Seq(S)
        /\ Len(SubSeq(s \o t, 1, Len(s))) = Len(s)
        /\ \A i \in 1..Len(s) : SubSeq(s \o t, 1, Len(s))[i] = (s \o t)[i]
    BY <1>1
  <2>2. /\ SubSeq(s, 1, Len(s)) \in Seq(S)
        /\ Len(SubSeq(s, 1, Len(s))) = Len(s)
        /\ \A i \in 1..Len(s) : SubSeq(s, 1, Len(s))[i] = s[i]
    OBVIOUS
  <2> QED
    BY <1>1, <2>1, <2>2
<1> QED
  BY <1>1, <1>2 DEF IsPrefix

\* A step that leaves file and queue alone.
LEMMA QueueUntouched ==
    ASSUME AreSeqs, UNCHANGED <<mfile, pQueue>>
    PROVE  AreSeqs' /\ Kept
<1>1. PICK S : mfile \in Seq(S) /\ pQueue \in Seq(S)
  BY DEF AreSeqs
<1>2. /\ History \in Seq(S) /\ IsPrefix(History, History)
      /\ IsPrefix(mfile, History)
  BY <1>1, PrefixOfConcat DEF History
<1>3. History' = History
  BY DEF History
<1> QED
  BY <1>1, <1>2, <1>3 DEF AreSeqs, Kept

\* An operation that is accepted goes to the end of the queue.
LEMMA Accepted ==
    ASSUME AreSeqs, NEW op, pQueue' = Append(pQueue, op), mfile' = mfile,
           running' = running
    PROVE  AreSeqs' /\ Kept
<1>1. PICK S : mfile \in Seq(S) /\ pQueue \in Seq(S)
  BY DEF AreSeqs
<1>2. PICK T : T = S \cup {op}
  OBVIOUS
<1>3. /\ mfile \in Seq(T) /\ pQueue \in Seq(T) /\ <<op>> \in Seq(T)
  <2>1. /\ \A i \in 1..Len(mfile) : mfile[i] \in S
        /\ \A i \in 1..Len(pQueue) : pQueue[i] \in S
    BY <1>1
  <2> QED
    BY <1>1, <1>2, <2>1
<1>4. pQueue' = pQueue \o <<op>> /\ pQueue' \in Seq(T)
  BY <1>3
<1>5. History' = History \o <<op>> /\ History' = mfile \o pQueue'
  BY <1>3, <1>4 DEF History
<1>6. History \in Seq(T)
  BY <1>3, PrefixOfConcat DEF History
<1>7. IsPrefix(History, History') /\ IsPrefix(mfile, History')
  <2>1. IsPrefix(History, History \o <<op>>)
    BY <1>3, <1>6, PrefixOfConcat
  <2>2. IsPrefix(mfile, mfile \o pQueue')
    BY <1>3, <1>4, PrefixOfConcat
  <2> QED
    BY <1>5, <2>1, <2>2
<1> QED
  BY <1>3, <1>4, <1>7 DEF AreSeqs, Kept

\* The whole queue goes to the file.
LEMMA Flushed ==
    ASSUME AreSeqs, Flush
    PROVE  AreSeqs' /\ Kept
<1>1. PICK S : mfile \in Seq(S) /\ pQueue \in Seq(S)
  BY DEF AreSeqs
<1>2. mfile' = mfile \o pQueue /\ pQueue' = << >>
  BY DEF Flush
<1>3. mfile' \in Seq(S) /\ pQueue' \in Seq(S) /\ IsPrefix(mfile', mfile')
  <2>1. mfile \o pQueue \in Seq(S) /\ IsPrefix(mfile \o pQueue, mfile \o pQueue)
    BY <1>1, PrefixOfConcat
  <2>2. << >> \in Seq(S)
    OBVIOUS
  <2> QED
    BY <1>2, <2>1, <2>2
<1>4. History' = mfile' /\ History = mfile' /\ running' = running
  BY <1>2, <1>3 DEF History, Flush, bounds
<1>5. CASE running'
  BY <1>3, <1>4, <1>5 DEF AreSeqs, Kept
<1>6. CASE ~running'
  <2>1. IsPrefix(mfile, mfile \o pQueue)
    BY <1>1, PrefixOfConcat
  <2> QED
    BY <1>2, <1>3, <1>4, <1>6, <2>1 DEF AreSeqs, Kept
<1> QED
  BY <1>5, <1>6

\* The queue is lost but for what is written before; the file is not.
LEMMA Crashed ==
    ASSUME AreSeqs, MasterCrash
    PROVE  AreSeqs' /\ Kept
<1>1. PICK S : mfile \in Seq(S) /\ pQueue \in Seq(S)
  BY DEF AreSeqs
<1>2. PICK k \in 0..Len(pQueue) : mfile' = mfile \o SubSeq(pQueue, 1, k)
  BY DEF MasterCrash
<1>3. pQueue' = << >> /\ running' = FALSE
  BY DEF MasterCrash
<1>4. SubSeq(pQueue, 1, k) \in Seq(S)
  BY <1>1
<1>5. mfile' \in Seq(S) /\ pQueue' \in Seq(S) /\ IsPrefix(mfile, mfile')
  <2>1. PICK t \in Seq(S) : mfile' = mfile \o t
    BY <1>2, <1>4
  <2>2. mfile \o t \in Seq(S) /\ IsPrefix(mfile, mfile \o t)
    BY <1>1, PrefixOfConcat
  <2>3. << >> \in Seq(S)
    OBVIOUS
  <2> QED
    BY <1>3, <2>1, <2>2, <2>3
<1>6. History' = mfile'
  BY <1>3, <1>5 DEF History
<1> QED
  BY <1>3, <1>5, <1>6 DEF AreSeqs, Kept

\* File and queue, step by step.
LEMMA Steps ==
    ASSUME AreSeqs, [Next]_vars
    PROVE  AreSeqs' /\ Kept
<1>1. ASSUME NEW i \in DOMAIN calls, AcceptOp(i) PROVE AreSeqs' /\ Kept
  <2>1. PICK op : pQueue' = Append(pQueue, op)
    BY <1>1 DEF AcceptOp
  <2>2. mfile' = mfile /\ running' = running
    BY <1>1 DEF AcceptOp, bounds
  <2> QED
    BY <2>1, <2>2, Accepted
<1>2. ASSUME NEW n \in Writers, Client(n) PROVE UNCHANGED <<mfile, pQueue>>
  BY <1>2 DEF Client, ClientRequest, ClientLog, ClientForward, ClientAlone,
     ClientTimeout, masterVars
<1>3. ASSUME NEW n \in Nodes,
             Redo(n) \/ Start(n) \/ Boot(n) \/ Crash(n) \/ Expire(n)
      PROVE  UNCHANGED <<mfile, pQueue>>
  BY <1>3 DEF Redo, RedoLog, RedoStore, Start, Boot, SendRecovery, SendJoin,
     BootAlone, BootTimeout, Crash, Expire, masterVars
<1>4. ASSUME NEW i \in DOMAIN calls, AcceptRecovery(i) \/ AcceptJoin(i)
      PROVE  UNCHANGED <<mfile, pQueue>>
  BY <1>4 DEF AcceptRecovery, AcceptJoin
<1>5. CASE Backup \/ ReplayNext \/ Finish \/ MasterTimeout
  <2>1. UNCHANGED <<mfile, pQueue>>
    BY <1>5 DEF Backup, ReplayNext, Finish, MasterTimeout
  <2> QED
    BY <2>1, QueueUntouched
<1>6. CASE MasterStart \/ UNCHANGED vars
  <2>1. UNCHANGED <<mfile, pQueue>>
    BY <1>6 DEF MasterStart, vars, masterVars
  <2> QED
    BY <2>1, QueueUntouched
<1> QED
  BY <1>1, <1>2, <1>3, <1>4, <1>5, <1>6, QueueUntouched, Flushed, Crashed
     DEF Next, Master

\* What the master has accepted it keeps, in the order of acceptance, but for
\* the queue when it crashes.
THEOREM HistoryGrowsAlways == Spec => HistoryGrows
<1>1. Init => AreSeqs
  <2>1. Init => mfile \in Seq(Op) /\ pQueue \in Seq(Op)
    BY PreludeAssumption DEF Init
  <2> QED
    BY <2>1 DEF AreSeqs
<1>2. AreSeqs /\ [Next]_vars => AreSeqs'
  BY Steps
<1>3. AreSeqs /\ [Next]_vars =>
        [IsPrefix(IF running' THEN History ELSE mfile, History')]_vars
  BY Steps DEF Kept
<1> QED
  BY <1>1, <1>2, <1>3, PTL DEF Spec, HistoryGrows

-----------------------------------------------------------------------------
(***************************************************************************)
(* Requests that are given up, read or lost.                               *)
(***************************************************************************)
LEMMA RequestFacts ==
    ASSUME NEW r \in Request
    PROVE  /\ r.from \in Nodes /\ r.live \in BOOLEAN /\ r.size \in Nat
           /\ r.kind \in {"op"} \cup BootKind
           /\ r.kind = "op" => r.op \in Op
           /\ LET d == [r EXCEPT !.live = FALSE]
              IN d \in Request /\ d.from = r.from /\ d.kind = r.kind /\ d.live = FALSE
<1>1. CASE r \in [from : Nodes, kind : {"op"}, op : Op, size : {0}, live : BOOLEAN]
  <2>1. /\ r.from \in Nodes /\ r.live \in BOOLEAN /\ r.size = 0
        /\ r.kind = "op" /\ r.op \in Op
    BY <1>1
  <2>2. PICK d : d = [r EXCEPT !.live = FALSE]
    OBVIOUS
  <2>3. /\ d \in [from : Nodes, kind : {"op"}, op : Op, size : {0}, live : BOOLEAN]
        /\ d.from = r.from /\ d.kind = r.kind /\ d.live = FALSE
    BY <1>1, <2>2
  <2> QED
    BY <2>1, <2>2, <2>3 DEF Request
<1>2. CASE r \in [from : Nodes, kind : BootKind, op : {NoOp}, size : Nat, live : BOOLEAN]
  BY <1>2 DEF Request, BootKind
<1> QED
  BY <1>1, <1>2 DEF Request

\* A sequence whose elements are mapped one by one is a sequence again.
LEMMA MappedIsSeq ==
    ASSUME NEW S, NEW s \in Seq(S), NEW t, DOMAIN t = DOMAIN s,
           t = [i \in DOMAIN s |-> t[i]], \A i \in DOMAIN s : t[i] \in S
    PROVE  t \in Seq(S) /\ Len(t) = Len(s) /\ DOMAIN t = 1..Len(s)
<1>1. DOMAIN s = 1..Len(s) /\ Len(s) \in Nat
  OBVIOUS
<1>2. t \in [1..Len(s) -> S]
  BY <1>1
<1>3. t \in Seq(S)
  BY <1>1, <1>2, SeqDef
<1> QED
  BY <1>1, <1>3

\* Who gives up marks its requests and leaves the others.
LEMMA GiveUpFacts ==
    ASSUME NEW s \in Seq(Request), NEW n, NEW kinds
    PROVE  LET t == GiveUp(s, n, kinds)
           IN /\ t \in Seq(Request) /\ Len(t) = Len(s) /\ DOMAIN t = DOMAIN s
              /\ \A i \in DOMAIN s : t[i] = IF s[i].from = n /\ s[i].kind \in kinds
                                          THEN [s[i] EXCEPT !.live = FALSE] ELSE s[i]
<1>1. PICK t : t = GiveUp(s, n, kinds)
  OBVIOUS
<1>2. \A i \in DOMAIN s : s[i] \in Request
  OBVIOUS
<1>3. /\ t = [i \in DOMAIN s |-> t[i]] /\ DOMAIN t = DOMAIN s
      /\ \A i \in DOMAIN s : t[i] = IF s[i].from = n /\ s[i].kind \in kinds
                                  THEN [s[i] EXCEPT !.live = FALSE] ELSE s[i]
  BY <1>1 DEF GiveUp
<1>4. \A i \in DOMAIN s : t[i] \in Request
  BY <1>2, <1>3, RequestFacts
<1> QED
  BY <1>1, <1>3, <1>4, MappedIsSeq

\* Messages nobody waits for are messages, none of them live.
LEMMA DeadFacts ==
    ASSUME NEW s \in Seq(Message)
    PROVE  /\ Dead(s) \in Seq(Message) /\ Len(Dead(s)) = Len(s) /\ DOMAIN Dead(s) = DOMAIN s
           /\ \A i \in DOMAIN s : Dead(s)[i] = [s[i] EXCEPT !.live = FALSE]
           /\ LiveMessages(Dead(s)) = {}
<1>1. PICK t : t = Dead(s)
  OBVIOUS
<1>2. \A i \in DOMAIN s : s[i] \in Message
  OBVIOUS
<1>3. /\ t = [i \in DOMAIN s |-> t[i]] /\ DOMAIN t = DOMAIN s
      /\ \A i \in DOMAIN s : t[i] = [s[i] EXCEPT !.live = FALSE]
  BY <1>1 DEF Dead
<1>4. ASSUME NEW m \in Message
      PROVE  [m EXCEPT !.live = FALSE] \in Message /\ ~[m EXCEPT !.live = FALSE].live
  BY DEF Message
<1>5. ASSUME NEW i \in DOMAIN s PROVE t[i] \in Message /\ ~t[i].live
  <2>1. s[i] \in Message /\ t[i] = [s[i] EXCEPT !.live = FALSE]
    BY <1>2, <1>3
  <2> QED
    BY <1>4, <2>1
<1>6. t \in Seq(Message) /\ Len(t) = Len(s)
  BY <1>3, <1>5, MappedIsSeq
<1> QED
  BY <1>1, <1>3, <1>5, <1>6 DEF LiveMessages

\* What is left when one element is taken out.
LEMMA RemovedFacts ==
    ASSUME NEW S, NEW s \in Seq(S), NEW i \in DOMAIN s
    PROVE  /\ s[i] \in S /\ RemoveAt(s, i) \in Seq(S)
           /\ Len(RemoveAt(s, i)) = Len(s) - 1
           /\ \A j \in 1..(Len(s) - 1) : RemoveAt(s, i)[j] = s[IF j < i THEN j ELSE j + 1]
<1>1. i \in 1..Len(s)
  OBVIOUS
<1>2. PICK a : a = SubSeq(s, 1, i - 1)
  OBVIOUS
<1>3. PICK b : b = SubSeq(s, i + 1, Len(s))
  OBVIOUS
<1>4. a \in Seq(S) /\ Len(a) = i - 1 /\ \A j \in 1..(i - 1) : a[j] = s[j]
  BY <1>1, <1>2
<1>5. b \in Seq(S) /\ Len(b) = Len(s) - i /\ \A j \in 1..(Len(s) - i) : b[j] = s[i + j]
  BY <1>1, <1>3
<1>6. RemoveAt(s, i) = a \o b
  BY <1>2, <1>3 DEF RemoveAt
<1>7. /\ a \o b \in Seq(S) /\ Len(a \o b) = Len(s) - 1
      /\ \A j \in 1..(Len(s) - 1) :
           (a \o b)[j] = IF j <= i - 1 THEN a[j] ELSE b[j - (i - 1)]
  <2>1. ASSUME NEW x \in Seq(S), NEW y \in Seq(S)
        PROVE  /\ x \o y \in Seq(S) /\ Len(x \o y) = Len(x) + Len(y)
               /\ \A j \in 1..Len(x) : (x \o y)[j] = x[j]
               /\ \A j \in 1..Len(y) : (x \o y)[Len(x) + j] = y[j]
    OBVIOUS
  <2>2. Len(a) + Len(b) = Len(s) - 1 /\ Len(a) = i - 1 /\ Len(b) = Len(s) - i /\ Len(s) \in Nat
    BY <1>1, <1>4, <1>5
  <2>3. ASSUME NEW j \in 1..(Len(s) - 1)
        PROVE  (a \o b)[j] = IF j <= i - 1 THEN a[j] ELSE b[j - (i - 1)]
    <3>1. CASE j <= i - 1
      <4>1. j \in 1..Len(a)
        BY <2>2, <3>1
      <4> QED
        BY <1>4, <1>5, <2>1, <3>1, <4>1
    <3>2. CASE ~(j <= i - 1)
      <4>3. PICK n \in Nat : n = Len(s)
        BY <2>2
      <4>4. i \in Int /\ j \in 1..(n - 1) /\ Len(b) = n - i /\ Len(a) = i - 1
        BY <1>1, <2>2, <4>3
      <4>5. j - (i - 1) \in 1..(n - i) /\ (i - 1) + (j - (i - 1)) = j
        BY <3>2, <4>3, <4>4
      <4>1. j - (i - 1) \in 1..Len(b) /\ Len(a) + (j - (i - 1)) = j
        BY <4>4, <4>5
      <4>2. (a \o b)[Len(a) + (j - (i - 1))] = b[j - (i - 1)]
        BY <1>4, <1>5, <2>1, <4>1
      <4> QED
        BY <3>2, <4>1, <4>2
    <3> QED
      BY <3>1, <3>2
  <2> QED
    BY <1>4, <1>5, <2>1, <2>2, <2>3
<1>8. ASSUME NEW j \in 1..(Len(s) - 1)
      PROVE  (a \o b)[j] = s[IF j < i THEN j ELSE j + 1]
  <2>1. CASE j < i
    BY <1>1, <1>4, <1>7, <2>1
  <2>2. CASE ~(j < i)
    <3>1. j - (i - 1) \in 1..(Len(s) - i) /\ i + (j - (i - 1)) = j + 1
      BY <1>1, <2>2
    <3> QED
      BY <1>1, <1>5, <1>7, <2>2, <3>1
  <2> QED
    BY <2>1, <2>2
<1> QED
  BY <1>1, <1>6, <1>7, <1>8

\* How OfOthers goes through the requests.
OthersRun(f, s, n, k) ==
    f = [i \in 0..k |->
            IF i = 0 THEN << >>
            ELSE IF s[i].from = n THEN f[i - 1] ELSE Append(f[i - 1], s[i])]

\* OfOthers is the last value of a run over the requests, and there is one.
LEMMA OthersRunExists ==
    ASSUME NEW s, NEW n, NEW k \in Nat
    PROVE  \E f : OthersRun(f, s, n, k)
<1> DEFINE P(i) == \E f : OthersRun(f, s, n, i)
<1> DEFINE S == {i \in Nat : P(i)}
<1>1. P(0)
  <2>1. PICK f : f = [i \in 0..0 |-> << >>]
    OBVIOUS
  <2>2. OthersRun(f, s, n, 0)
    BY <2>1 DEF OthersRun
  <2> QED
    BY <2>2
<1>2. ASSUME NEW i \in Nat, P(i) PROVE P(i + 1)
  <2>1. PICK f : OthersRun(f, s, n, i)
    BY <1>2
  <2>2. PICK e : e = IF s[i + 1].from = n THEN f[i] ELSE Append(f[i], s[i + 1])
    OBVIOUS
  <2>3. PICK g : g = [j \in 0..(i + 1) |-> IF j = i + 1 THEN e ELSE f[j]]
    OBVIOUS
  <2>4. ASSUME NEW j \in 0..(i + 1)
        PROVE  g[j] = IF j = 0 THEN << >>
                      ELSE IF s[j].from = n THEN g[j - 1] ELSE Append(g[j - 1], s[j])
    <3>1. CASE j = i + 1
      <4>1. g[j] = e /\ g[j - 1] = f[i] /\ j # 0
        BY <2>3, <3>1
      <4> QED
        BY <2>2, <3>1, <4>1
    <3>2. CASE j = 0
      BY <2>1, <2>3, <3>2 DEF OthersRun
    <3>3. CASE j # i + 1 /\ j # 0
      <4>1. j \in 0..i /\ j - 1 \in 0..(i + 1) /\ j - 1 # i + 1
        BY <3>3
      <4>2. g[j] = f[j] /\ g[j - 1] = f[j - 1]
        BY <2>3, <3>3, <4>1
      <4>3. f[j] = IF s[j].from = n THEN f[j - 1] ELSE Append(f[j - 1], s[j])
        BY <2>1, <3>3, <4>1 DEF OthersRun
      <4> QED
        BY <3>3, <4>2, <4>3
    <3> QED
      BY <3>1, <3>2, <3>3
  <2>5. OthersRun(g, s, n, i + 1)
    BY <2>3, <2>4 DEF OthersRun
  <2> QED
    BY <2>5
<1> HIDE DEF P
<1>3. Nat \subseteq S
  <2>1. 0 \in S /\ \A i \in Nat : i \in S => i + 1 \in S
    BY <1>1, <1>2
  <2> HIDE DEF S
  <2> QED
    BY <2>1, Induction
<1>4. P(k)
  BY <1>3
<1> QED
  BY <1>4 DEF P

\* Two sets that are both empty, both singletons or both neither.
AlikeSets(A, B) ==
    /\ A = {} <=> B = {}
    /\ (\E x \in A : A = {x}) <=> (\E x \in B : B = {x})

\* The elements of a sequence that are live requests of m, up to the k-th.
LiveUpTo(s, k, m, kinds) == {i \in Live(s, m, kinds) : i <= k}

\* The requests of one node vanish, those of others stay, as many as they are.
LEMMA OthersFacts ==
    ASSUME NEW s \in Seq(Request), NEW n
    PROVE  LET t == OfOthers(s, n)
           IN /\ t \in Seq(Request)
              /\ \A i \in DOMAIN t : t[i].from # n /\ \E j \in DOMAIN s : t[i] = s[j]
              /\ \A m, kinds : m # n => AlikeSets(Live(t, m, kinds), Live(s, m, kinds))
<1>1. PICK k \in Nat : k = Len(s) /\ DOMAIN s = 1..k
  OBVIOUS
<1>2. PICK f : OthersRun(f, s, n, k) /\ OfOthers(s, n) = f[k]
  <2> DEFINE f == CHOOSE f : OthersRun(f, s, n, k)
  <2>1. OthersRun(f, s, n, k)
    BY OthersRunExists
  <2>2. OfOthers(s, n) = f[k]
    BY <1>1 DEF OfOthers, OthersRun
  <2> QED
    BY <2>1, <2>2
<1> DEFINE Good(i) ==
       /\ f[i] \in Seq(Request)
       /\ \A j \in DOMAIN f[i] : f[i][j].from # n /\ \E h \in DOMAIN s : f[i][j] = s[h]
       /\ \A m, kinds : m # n =>
             AlikeSets(Live(f[i], m, kinds), LiveUpTo(s, i, m, kinds))
<1> DEFINE S == {i \in 0..k : Good(i)}
<1>3. Good(0)
  <2>1. f[0] = << >>
    BY <1>2 DEF OthersRun
  <2>2. \A m, kinds : Live(f[0], m, kinds) = {} /\ LiveUpTo(s, 0, m, kinds) = {}
    BY <1>1, <2>1 DEF Live, LiveUpTo
  <2> QED
    BY <2>1, <2>2 DEF AlikeSets
<1>4. ASSUME NEW i \in 1..k, Good(i - 1) PROVE Good(i)
  <2>1. PICK a \in Seq(Request) : a = f[i - 1]
    BY <1>4
  <2>2. PICK e \in Request : e = s[i] /\ i \in DOMAIN s
    BY <1>1
  <2>3. f[i] = IF e.from = n THEN a ELSE Append(a, e)
    <3>1. i \in 0..k /\ i # 0
      OBVIOUS
    <3>2. f[i] = IF s[i].from = n THEN f[i - 1] ELSE Append(f[i - 1], s[i])
      BY <1>2, <3>1 DEF OthersRun
    <3> QED
      BY <2>1, <2>2, <3>2
  <2>4. ASSUME NEW m, NEW kinds
        PROVE  LiveUpTo(s, i, m, kinds) =
                 LiveUpTo(s, i - 1, m, kinds)
                   \cup (IF e.from = m /\ e.kind \in kinds /\ e.live THEN {i} ELSE {})
    BY <1>1, <2>2 DEF LiveUpTo, Live
  <2>5. CASE e.from = n
    <3>1. \A m, kinds : m # n => LiveUpTo(s, i, m, kinds) = LiveUpTo(s, i - 1, m, kinds)
      BY <2>4, <2>5
    <3> QED
      BY <1>4, <2>1, <2>3, <2>5, <3>1
  <2>6. CASE e.from # n
    <3>1. PICK t : t = Append(a, e)
      OBVIOUS
    <3>2. /\ t \in Seq(Request) /\ DOMAIN t = 1..(Len(a) + 1) /\ DOMAIN a = 1..Len(a)
          /\ t[Len(a) + 1] = e /\ \A j \in 1..Len(a) : t[j] = a[j]
      BY <3>1
    <3>3. \A j \in DOMAIN t : t[j].from # n /\ \E h \in DOMAIN s : t[j] = s[h]
      <4>1. \A j \in DOMAIN t : j \in DOMAIN a \/ j = Len(a) + 1
        BY <3>2
      <4> QED
        BY <1>4, <2>1, <2>2, <2>6, <3>2, <4>1
    <3>4. ASSUME NEW m, NEW kinds, m # n
          PROVE  AlikeSets(Live(t, m, kinds), LiveUpTo(s, i, m, kinds))
      <4>1. Live(t, m, kinds) =
              Live(a, m, kinds)
                \cup (IF e.from = m /\ e.kind \in kinds /\ e.live THEN {Len(a) + 1} ELSE {})
        BY <3>2 DEF Live
      <4>2. Len(a) + 1 \notin Live(a, m, kinds) /\ i \notin LiveUpTo(s, i - 1, m, kinds)
        BY <3>2 DEF Live, LiveUpTo
      <4>3. AlikeSets(Live(a, m, kinds), LiveUpTo(s, i - 1, m, kinds))
        BY <1>4, <2>1, <3>4
      <4> QED
        BY <2>4, <4>1, <4>2, <4>3 DEF AlikeSets
    <3> QED
      BY <2>3, <2>6, <3>1, <3>2, <3>3, <3>4
  <2> QED
    BY <2>5, <2>6
<1> HIDE DEF Good
<1>5. 0..k \subseteq S
  <2>1. 0 \in S /\ \A i \in 1..k : i - 1 \in S => i \in S
    BY <1>3, <1>4
  <2> HIDE DEF S
  <2> QED
    BY <2>1, InductionTo
<1>6. Good(k)
  <2>1. k \in 0..k
    OBVIOUS
  <2> QED
    BY <1>5, <2>1
<1>7. \A m, kinds : LiveUpTo(s, k, m, kinds) = Live(s, m, kinds)
  BY <1>1 DEF LiveUpTo, Live
<1> QED
  BY <1>2, <1>6, <1>7 DEF Good
-----------------------------------------------------------------------------
(***************************************************************************)
(* Types.                                                                  *)
(***************************************************************************)

\* A node that is busy works on one message.
WorksOnOne ==
    \A n \in Nodes :
        st[n] \in {"stored", "logged", "wait", "redo"} => Len(work[n]) = 1

Typed == TypeOK /\ WorksOnOne

\* The message on which a busy node works.
LEMMA WorkFacts ==
    ASSUME Typed, NEW n \in Nodes, st[n] \in {"stored", "logged", "wait", "redo"}
    PROVE  work[n][1] \in Message /\ work[n][1].op \in Op /\ work[n][1].live \in BOOLEAN
<1>1. work[n] \in Seq(Message) /\ Len(work[n]) = 1
  BY DEF Typed, TypeOK, WorksOnOne
<1>2. work[n][1] \in Message
  BY <1>1
<1> QED
  BY <1>2 DEF Message

\* What clients ask are operations.
LEMMA ClientOpTyped ==
    ASSUME TypeOK, NEW n \in Nodes, NEW op \in ClientOps(n)
    PROVE  op \in Op
<1>1. PICK q \in Queues :
        \/ op = CreateOp(q)
        \/ op = DropOp(q)
        \/ \E m \in Msgs : op = PutOp(q, NextId(db[n], q), m)
        \/ \E id \in 1..db[n][q].seq : op = RemoveOp(q, id)
  BY DEF ClientOps
<1>2. NextId(db[n], q) \in Nat /\ \A id \in 1..db[n][q].seq : id \in Nat
  BY NextIdTyped DEF TypeOK
<1> QED
  BY <1>1, <1>2, OpsAreOps DEF Op

\* The steps of a node that serves a client keep the types.
LEMMA ClientRequestTyped ==
    ASSUME Typed, NEW n \in Nodes, NEW op \in ClientOps(n), ClientRequest(n, op)
    PROVE  Typed'
<1>1. op \in Op
  BY ClientOpTyped DEF Typed
<1>2. db' \in [Nodes -> DbSet(Queues, Msgs)]
  <2>1. Apply(db[n], op) \in DbSet(Queues, Msgs)
    BY <1>1, ApplyTables DEF Typed, TypeOK, Op
  <2> QED
    BY <2>1 DEF Typed, TypeOK, ClientRequest
<1>3. PICK w : w = <<[op |-> op, live |-> TRUE]>>
  OBVIOUS
<1>4. w \in Seq(Message) /\ Len(w) = 1
  <2>1. [op |-> op, live |-> TRUE] \in Message
    BY <1>1 DEF Message
  <2> QED
    BY <1>3, <2>1
<1>5. /\ work' = [work EXCEPT ![n] = w] /\ st' = [st EXCEPT ![n] = "stored"]
      /\ ops' = ops + 1
      /\ UNCHANGED <<log, boot, inbox, masterVars, running, torn, crashes, expired>>
  BY <1>3 DEF ClientRequest
<1> QED
  BY <1>2, <1>4, <1>5 DEF Typed, TypeOK, WorksOnOne, NodeState, masterVars

LEMMA ClientLogTyped ==
    ASSUME Typed, NEW n \in Nodes, ClientLog(n)
    PROVE  Typed'
<1>1. work[n][1].op \in Op
  BY WorkFacts DEF ClientLog
<1>2. log' \in [Nodes -> Seq(Op)]
  <2>1. Append(log[n], work[n][1].op) \in Seq(Op)
    BY <1>1 DEF Typed, TypeOK
  <2> QED
    BY <2>1 DEF Typed, TypeOK, ClientLog
<1> QED
  BY <1>2 DEF ClientLog, Typed, TypeOK, WorksOnOne, NodeState, masterVars, bounds

LEMMA ClientForwardTyped ==
    ASSUME Typed, NEW n \in Nodes, ClientForward(n)
    PROVE  Typed'
<1>1. work[n][1].op \in Op
  BY WorkFacts DEF ClientForward
<1>2. PICK r : r = [from |-> n, kind |-> "op", op |-> work[n][1].op, size |-> 0, live |-> TRUE]
  OBVIOUS
<1>3. r \in Request
  BY <1>1, <1>2 DEF Request
<1>4. calls' \in Seq(Request)
  BY <1>2, <1>3 DEF Typed, TypeOK, ClientForward
<1> QED
  BY <1>4 DEF ClientForward, Typed, TypeOK, WorksOnOne, NodeState, bounds

LEMMA ClientEndTyped ==
    ASSUME Typed, NEW n \in Nodes, ClientAlone(n) \/ ClientTimeout(n)
    PROVE  Typed'
<1>1. calls' \in Seq(Request) /\ job' \in Seq(Request)
  BY GiveUpFacts DEF Typed, TypeOK, ClientAlone, ClientTimeout, masterVars
<1>2. << >> \in Seq(Message)
  OBVIOUS
<1>3. /\ st' = [st EXCEPT ![n] = "idle"] /\ work' = [work EXCEPT ![n] = << >>]
      /\ UNCHANGED <<db, log, boot, inbox, mi, mlist, mwait, mDataNodes, watched, pQueue,
                     mfile, paused, bounds>>
  BY DEF ClientAlone, ClientTimeout, masterVars
<1>4. st' \in [Nodes -> NodeState] /\ work' \in [Nodes -> Seq(Message)] /\ WorksOnOne'
  BY <1>2, <1>3 DEF Typed, TypeOK, WorksOnOne, NodeState
<1> QED
  BY <1>1, <1>3, <1>4 DEF Typed, TypeOK, bounds

\* The steps of a node that redoes an operation.
LEMMA RedoLogTyped ==
    ASSUME Typed, NEW n \in Nodes, NEW i \in DOMAIN inbox[n], RedoLog(n, i)
    PROVE  Typed'
<1>1. inbox[n] \in Seq(Message)
  BY DEF Typed, TypeOK
<1>2. inbox[n][i] \in Message /\ RemoveAt(inbox[n], i) \in Seq(Message)
  BY <1>1, RemovedFacts
<1>3. inbox[n][i].op \in Op
  BY <1>2 DEF Message
<1>4. Append(log[n], inbox[n][i].op) \in Seq(Op)
  BY <1>3 DEF Typed, TypeOK
<1>5. PICK w : w = <<inbox[n][i]>>
  OBVIOUS
<1>6. w \in Seq(Message) /\ Len(w) = 1
  BY <1>2, <1>5
<1>7. /\ log' = [log EXCEPT ![n] = Append(log[n], inbox[n][i].op)]
      /\ st' = [st EXCEPT ![n] = "redo"] /\ work' = [work EXCEPT ![n] = w]
      /\ inbox' = [inbox EXCEPT ![n] = RemoveAt(inbox[n], i)]
      /\ UNCHANGED <<db, boot, masterVars, bounds>>
  BY <1>5 DEF RedoLog, Typed, TypeOK
<1> QED
  BY <1>2, <1>4, <1>6, <1>7 DEF Typed, TypeOK, WorksOnOne, NodeState, masterVars, bounds

LEMMA RedoStoreTyped ==
    ASSUME Typed, NEW n \in Nodes, RedoStore(n)
    PROVE  Typed'
<1>1. work[n][1].op \in Op
  BY WorkFacts DEF RedoStore
<1>2. db' \in [Nodes -> DbSet(Queues, Msgs)]
  <2>1. Apply(db[n], work[n][1].op) \in DbSet(Queues, Msgs)
    BY <1>1, ApplyTables DEF Typed, TypeOK, Op
  <2> QED
    BY <2>1 DEF Typed, TypeOK, RedoStore
<1>3. << >> \in Seq(Message)
  OBVIOUS
<1> QED
  BY <1>2, <1>3 DEF RedoStore, Typed, TypeOK, WorksOnOne, NodeState, bounds

\* The steps of the boot thread.
LEMMA BootTyped ==
    ASSUME Typed, NEW n \in Nodes, Start(n) \/ Boot(n)
    PROVE  Typed'
<1>1. CASE Start(n)
  BY <1>1 DEF Start, Typed, TypeOK, WorksOnOne, NodeState, BootState, masterVars, bounds
<1>2. CASE SendRecovery(n)
  <2>1. PICK r : r = [from |-> n, kind |-> "recovery", op |-> NoOp, size |-> Len(log[n]),
                      live |-> TRUE]
    OBVIOUS
  <2>2. r \in Request
    BY <2>1 DEF Request, BootKind, Typed, TypeOK
  <2>3. calls' \in Seq(Request)
    BY <1>2, <2>1, <2>2 DEF SendRecovery, Typed, TypeOK
  <2> QED
    BY <1>2, <2>3 DEF SendRecovery, Typed, TypeOK, WorksOnOne, BootState, bounds
<1>3. CASE SendJoin(n)
  <2>1. PICK r : r = [from |-> n, kind |-> "join", op |-> NoOp, size |-> 0, live |-> TRUE]
    OBVIOUS
  <2>2. r \in Request
    BY <2>1 DEF Request, BootKind
  <2>3. calls' \in Seq(Request)
    BY <1>3, <2>1, <2>2 DEF SendJoin, Typed, TypeOK
  <2> QED
    BY <1>3, <2>3 DEF SendJoin, Typed, TypeOK, WorksOnOne, BootState, bounds
<1>4. CASE BootAlone(n)
  BY <1>4 DEF BootAlone, Typed, TypeOK, WorksOnOne, BootState, masterVars, bounds
<1>5. CASE BootTimeout(n)
  <2>1. calls' \in Seq(Request) /\ job' \in Seq(Request)
    BY <1>5, GiveUpFacts DEF BootTimeout, Typed, TypeOK
  <2>2. boot' \in [Nodes -> BootState]
    BY <1>5 DEF BootTimeout, BootDone, Typed, TypeOK, BootState
  <2> QED
    BY <1>5, <2>1, <2>2 DEF BootTimeout, Typed, TypeOK, WorksOnOne, bounds
<1> QED
  BY <1>1, <1>2, <1>3, <1>4, <1>5 DEF Boot

\* A node goes down, or its lock expires.
LEMMA CrashTyped ==
    ASSUME Typed, NEW n \in Nodes, Crash(n) \/ Expire(n)
    PROVE  Typed'
<1>1. CASE Crash(n)
  <2>1. calls' \in Seq(Request) /\ job' \in Seq(Request)
    BY <1>1, GiveUpFacts, OthersFacts DEF Crash, Typed, TypeOK
  <2>2. << >> \in Seq(Message)
    OBVIOUS
  <2>3. mwait' \in Nodes \cup {"none"} /\ torn' \subseteq Nodes /\ crashes' \in Nat
    BY <1>1 DEF Crash, Typed, TypeOK
  <2> QED
    BY <1>1, <2>1, <2>2, <2>3 DEF Crash, Typed, TypeOK, WorksOnOne, NodeState, BootState
<1>2. CASE Expire(n)
  BY <1>2 DEF Expire, Typed, TypeOK, WorksOnOne, nodeVars
<1> QED
  BY <1>1, <1>2

\* The master goes down.
LEMMA MasterCrashTyped ==
    ASSUME Typed, MasterCrash
    PROVE  Typed'
<1>1. \A n \in Nodes : /\ st[n] \in NodeState /\ work[n] \in Seq(Message)
                       /\ inbox[n] \in Seq(Message) /\ boot[n] \in BootState
  BY DEF Typed, TypeOK
<1>2. st' \in [Nodes -> NodeState] /\ boot' \in [Nodes -> BootState]
  BY <1>1 DEF MasterCrash, NodeState, BootState, BootDone
<1>3. << >> \in Seq(Message) /\ << >> \in Seq(Request) /\ << >> \in Seq(Op) /\ << >> \in Seq(Nodes)
  OBVIOUS
<1>4. inbox' \in [Nodes -> Seq(Message)]
  BY <1>1, DeadFacts DEF MasterCrash
<1>5. work' \in [Nodes -> Seq(Message)]
  BY <1>1, <1>3, DeadFacts DEF MasterCrash
<1>6. WorksOnOne'
  <2> SUFFICES ASSUME NEW n \in Nodes, st'[n] \in {"stored", "logged", "wait", "redo"}
               PROVE  Len(work'[n]) = 1
    BY DEF WorksOnOne
  <2>1. st[n] # "wait" /\ st'[n] = st[n] /\ Len(work[n]) = 1
    BY DEF MasterCrash, Typed, WorksOnOne
  <2>2. work'[n] = IF st[n] = "redo" THEN Dead(work[n]) ELSE work[n]
    BY <2>1 DEF MasterCrash
  <2> QED
    BY <1>1, <2>1, <2>2, DeadFacts
<1>7. /\ calls' = << >> /\ job' = << >> /\ mlist' = << >> /\ mDataNodes' = << >>
      /\ pQueue' = << >> /\ mi' = 1 /\ mwait' = "none" /\ watched' = {} /\ paused' = {}
      /\ crashes' = crashes + 1 /\ UNCHANGED <<db, log, torn, ops, expired>>
  BY DEF MasterCrash
<1>8. running' \in BOOLEAN
  BY DEF MasterCrash
<1>9. mfile' \in Seq(Op)
  <2>1. PICK k \in 0..Len(pQueue) : mfile' = mfile \o SubSeq(pQueue, 1, k)
    BY DEF MasterCrash
  <2>2. SubSeq(pQueue, 1, k) \in Seq(Op) /\ mfile \in Seq(Op)
    BY DEF Typed, TypeOK
  <2> QED
    BY <2>1, <2>2
<1> QED
  BY <1>2, <1>3, <1>4, <1>5, <1>6, <1>7, <1>8, <1>9 DEF Typed, TypeOK

\* The steps of the master.
LEMMA AcceptTyped ==
    ASSUME Typed, NEW i \in DOMAIN calls, AcceptOp(i) \/ AcceptRecovery(i) \/ AcceptJoin(i)
    PROVE  Typed'
<1>1. calls[i] \in Request /\ RemoveAt(calls, i) \in Seq(Request)
  BY RemovedFacts DEF Typed, TypeOK
<1>2. calls' \in Seq(Request) /\ job' \in Seq(Request)
  <2>1. Read(i)
    BY DEF AcceptOp, AcceptRecovery, AcceptJoin
  <2>2. PICK j : j = <<calls[i]>>
    OBVIOUS
  <2>3. j \in Seq(Request)
    BY <1>1, <2>2
  <2> QED
    BY <1>1, <2>1, <2>2, <2>3 DEF Read
<1>3. calls[i].from \in Nodes /\ (calls[i].kind = "op" => calls[i].op \in Op)
      /\ calls[i].size \in Nat
  BY <1>1, RequestFacts
<1>4. CASE AcceptOp(i)
  <2>1. pQueue' \in Seq(Op)
    BY <1>3, <1>4 DEF AcceptOp, Typed, TypeOK
  <2> QED
    BY <1>2, <1>4, <2>1 DEF AcceptOp, Typed, TypeOK, WorksOnOne, nodeVars, bounds
<1>5. CASE AcceptRecovery(i)
  <2>1. Missing(calls[i].size) \in Seq(Op)
    <3>1. mfile \in Seq(Op) /\ Len(mfile) \in Nat
      BY DEF Typed, TypeOK
    <3>2. PICK sz \in Int : sz = Len(mfile) - calls[i].size
      BY <1>3, <3>1
    <3>3. sz >= 0 => SubSeq(mfile, Len(mfile) - sz + 1, Len(mfile)) \in Seq(Op)
      BY <1>3, <3>1, <3>2
    <3>4. << >> \in Seq(Op)
      OBVIOUS
    <3> QED
      BY <3>2, <3>3, <3>4 DEF Missing, TailList
  <2>2. mlist' \in Seq(Op) /\ paused' \subseteq Nodes
    BY <1>3, <1>5, <2>1 DEF AcceptRecovery, Typed, TypeOK
  <2> QED
    BY <1>2, <1>5, <2>2 DEF AcceptRecovery, Typed, TypeOK, WorksOnOne, nodeVars, bounds
<1>6. CASE AcceptJoin(i)
  <2>1. mDataNodes' \in Seq(Nodes) /\ watched' \subseteq Nodes
    BY <1>3, <1>6 DEF AcceptJoin, Typed, TypeOK
  <2> QED
    BY <1>2, <1>6, <2>1 DEF AcceptJoin, Typed, TypeOK, WorksOnOne, nodeVars, bounds
<1> QED
  BY <1>4, <1>5, <1>6

LEMMA SendTyped ==
    ASSUME Typed, NEW n \in Nodes, NEW op \in Op, Send(n, op)
    PROVE  inbox' \in [Nodes -> Seq(Message)] /\ mwait' \in Nodes \cup {"none"}
<1>1. [op |-> op, live |-> TRUE] \in Message
  BY DEF Message
<1>2. Append(inbox[n], [op |-> op, live |-> TRUE]) \in Seq(Message)
  BY <1>1 DEF Typed, TypeOK
<1> QED
  BY <1>2 DEF Send, Typed, TypeOK

LEMMA BackupTyped ==
    ASSUME Typed, Backup
    PROVE  Typed'
<1>1. job[1].op \in Op
  <2>1. job \in Seq(Request) /\ job # << >>
    BY DEF Backup, AtBackup, Typed, TypeOK
  <2>2. job[1] \in Request
    BY <2>1
  <2> QED
    BY <2>2, RequestFacts DEF Backup, AtBackup
<1>2. PICK alive \in SeenAlive(mDataNodes[mi]) :
        LET n == mDataNodes[mi]
            left == IF alive THEN mDataNodes ELSE RemoveAt(mDataNodes, mi)
            hangs == ~alive /\ st[n] # "down" /\ n \in watched
        IN /\ mDataNodes' = left
           /\ watched' = IF alive THEN watched ELSE watched \ {n}
           /\ crashes' = IF hangs THEN crashes + 1 ELSE crashes
           /\ mi' = IF mi <= Len(left) THEN mi + 1 ELSE mi
           /\ IF mi <= Len(left) /\ NotTheSender(left[mi])
              THEN Send(left[mi], job[1].op)
              ELSE UNCHANGED <<inbox, mwait>>
  BY DEF Backup
<1>3. mi \in DOMAIN mDataNodes /\ mDataNodes \in Seq(Nodes)
  BY DEF Backup, Typed, TypeOK
<1>4. mDataNodes' \in Seq(Nodes)
  BY <1>2, <1>3, RemovedFacts
<1>5. inbox' \in [Nodes -> Seq(Message)] /\ mwait' \in Nodes \cup {"none"}
  <2>1. CASE UNCHANGED <<inbox, mwait>>
    BY <2>1 DEF Typed, TypeOK
  <2>2. CASE mi <= Len(mDataNodes') /\ Send(mDataNodes'[mi], job[1].op)
    <3>1. mDataNodes'[mi] \in Nodes
      BY <1>4, <2>2 DEF Typed, TypeOK
    <3> QED
      BY <1>1, <2>2, <3>1, SendTyped
  <2> QED
    BY <1>2, <2>1, <2>2
<1>6. watched' \subseteq Nodes /\ crashes' \in Nat /\ mi' \in Nat \ {0}
  BY <1>2 DEF Typed, TypeOK
<1> QED
  BY <1>4, <1>5, <1>6 DEF Backup, Typed, TypeOK, WorksOnOne

LEMMA ReplayNextTyped ==
    ASSUME Typed, ReplayNext
    PROVE  Typed'
<1>1. job[1].from \in Nodes
  <2>1. job \in Seq(Request) /\ job # << >>
    BY DEF ReplayNext, AtReplay, Typed, TypeOK
  <2>2. job[1] \in Request
    BY <2>1
  <2> QED
    BY <2>2, RequestFacts
<1>2. Head(mlist) \in Op /\ Tail(mlist) \in Seq(Op)
  BY DEF ReplayNext, Typed, TypeOK
<1>3. inbox' \in [Nodes -> Seq(Message)] /\ mwait' \in Nodes \cup {"none"}
  BY <1>1, <1>2, SendTyped DEF ReplayNext
<1> QED
  BY <1>2, <1>3 DEF ReplayNext, Typed, TypeOK, WorksOnOne, bounds

LEMMA FinishTyped ==
    ASSUME Typed, Finish
    PROVE  Typed'
<1>1. Answer(job[1]) /\ job' = << >>
  BY DEF Finish
<1>2. st' \in [Nodes -> NodeState] /\ work' \in [Nodes -> Seq(Message)]
  <2>1. << >> \in Seq(Message)
    OBVIOUS
  <2>2. /\ st' = st \/ st' = [st EXCEPT ![job[1].from] = "idle"]
        /\ work' = work \/ work' = [work EXCEPT ![job[1].from] = << >>]
    BY <1>1 DEF Answer
  <2> QED
    BY <2>1, <2>2 DEF Typed, TypeOK, NodeState
<1>3. boot' \in [Nodes -> BootState]
  BY <1>1 DEF Answer, BootDone, Typed, TypeOK, BootState
<1>4. WorksOnOne'
  BY <1>1 DEF Answer, Typed, TypeOK, WorksOnOne
<1>5. << >> \in Seq(Request)
  OBVIOUS
<1> QED
  BY <1>1, <1>2, <1>3, <1>4, <1>5 DEF Finish, Typed, TypeOK, bounds

LEMMA MasterTimeoutTyped ==
    ASSUME Typed, MasterTimeout
    PROVE  Typed'
<1>1. PICK n \in Nodes : n = mwait
  BY DEF MasterTimeout, Typed, TypeOK
<1>2. inbox[n] \in Seq(Message) /\ work[n] \in Seq(Message)
  BY DEF Typed, TypeOK
<1>3. PICK d : d = Dead(inbox[n]) /\ d \in Seq(Message)
  BY <1>2, DeadFacts
<1>4. PICK w : w = Dead(work[n]) /\ w \in Seq(Message) /\ Len(w) = Len(work[n])
  BY <1>2, DeadFacts
<1>5. /\ inbox' = [inbox EXCEPT ![n] = d]
      /\ work' = IF st[n] = "redo" THEN [work EXCEPT ![n] = w] ELSE work
      /\ mwait' = "none"
  BY <1>1, <1>3, <1>4 DEF MasterTimeout
<1>6. UNCHANGED <<db, log, st, boot, calls, job, mi, mlist, mDataNodes, watched, pQueue,
                  mfile, paused, bounds>>
  BY DEF MasterTimeout
<1>7. work' \in [Nodes -> Seq(Message)] /\ WorksOnOne'
  BY <1>4, <1>5, <1>6 DEF Typed, TypeOK, WorksOnOne
<1>8. inbox' \in [Nodes -> Seq(Message)]
  BY <1>3, <1>5 DEF Typed, TypeOK
<1> QED
  BY <1>5, <1>6, <1>7, <1>8 DEF Typed, TypeOK, bounds

LEMMA FlushTyped ==
    ASSUME Typed, Flush
    PROVE  Typed'
<1>1. mfile' \in Seq(Op) /\ pQueue' \in Seq(Op)
  BY DEF Flush, Typed, TypeOK
<1>2. mlist' \in Seq(Op)
  <2>1. \A k \in 0..Len(mlist) : SubSeq(mlist, 1, k) \in Seq(Op)
    BY DEF Typed, TypeOK
  <2> QED
    BY <2>1 DEF Flush, Typed, TypeOK
<1> QED
  BY <1>1, <1>2 DEF Flush, Typed, TypeOK, WorksOnOne, nodeVars, bounds

\* Every step.
LEMMA TypedStep ==
    ASSUME Typed, [Next]_vars
    PROVE  Typed'
<1>1. ASSUME NEW n \in Nodes, Client(n) PROVE Typed'
  BY <1>1, ClientRequestTyped, ClientLogTyped, ClientForwardTyped, ClientEndTyped DEF Client
<1>2. ASSUME NEW n \in Nodes, Redo(n) PROVE Typed'
  BY <1>2, RedoLogTyped, RedoStoreTyped DEF Redo
<1>3. CASE MasterStart
  BY <1>3 DEF MasterStart, Typed, TypeOK, WorksOnOne, nodeVars, masterVars
<1>4. CASE UNCHANGED vars
  BY <1>4 DEF vars, Typed, TypeOK, WorksOnOne, nodeVars, masterVars, bounds
<1>5. CASE Master
  BY <1>5, AcceptTyped, BackupTyped, ReplayNextTyped, FinishTyped, MasterTimeoutTyped DEF Master
<1>6. Writers \subseteq Nodes
  BY ReplicationAssumption
<1> QED
  BY <1>1, <1>2, <1>3, <1>4, <1>5, <1>6, BootTyped, CrashTyped, MasterCrashTyped, FlushTyped
     DEF Next

\* The start.
LEMMA InitTyped ==
    ASSUME Init
    PROVE  Typed
<1>1. Replay(EmptyDb(Queues), Prelude) \in DbSet(Queues, Msgs)
  <2>1. EmptyDb(Queues) \in DbSet(Queues, Msgs)
    BY EmptySound DEF Sound
  <2> QED
    BY <2>1, PreludeAssumption, ReplayTyped DEF Op
<1>2. << >> \in Seq(Message) /\ << >> \in Seq(Request) /\ << >> \in Seq(Op)
  OBVIOUS
<1>3. Team \in Seq(Nodes) /\ ToSet(Team) \subseteq Nodes
  <2>1. Team \in Seq(Nodes)
    BY ReplicationAssumption
  <2>2. \A i \in DOMAIN Team : Team[i] \in Nodes
    BY <2>1
  <2> QED
    BY <2>1, <2>2 DEF ToSet
<1> QED
  BY <1>1, <1>2, <1>3, PreludeAssumption
     DEF Init, Typed, TypeOK, WorksOnOne, NodeState, BootState

\* Types, and the one message a busy node works on.
LEMMA TypedAlways == Spec => []Typed
BY InitTyped, TypedStep, PTL DEF Spec

\* Every variable has a value of its type: what travels are operations and
\* requests, whoever crashed or gave up on the way.
THEOREM TypeCorrect == Spec => []TypeOK
<1>1. Typed => TypeOK
  BY DEF Typed
<1> QED
  BY <1>1, TypedAlways, PTL
-----------------------------------------------------------------------------
(***************************************************************************)
(* Who waits is served.                                                    *)
(***************************************************************************)

\* The positions of a sequence where there is an element of P.
Where(s, P) == {i \in DOMAIN s : s[i] \in P}

\* A new element is where it was put, and the others stay.
LEMMA WhereAppended ==
    ASSUME NEW S, NEW s \in Seq(S), NEW e \in S, NEW P
    PROVE  /\ Where(Append(s, e), P) = Where(s, P) \cup (IF e \in P THEN {Len(s) + 1} ELSE {})
           /\ Len(s) + 1 \notin Where(s, P)
           /\ Where(<<e>>, P) = IF e \in P THEN {1} ELSE {}
<1>1. PICK t : t = Append(s, e)
  OBVIOUS
<1>2. /\ DOMAIN t = 1..(Len(s) + 1) /\ DOMAIN s = 1..Len(s)
      /\ t[Len(s) + 1] = e /\ \A j \in 1..Len(s) : t[j] = s[j]
  BY <1>1
<1>3. PICK u : u = <<e>>
  OBVIOUS
<1>4. DOMAIN u = {1} /\ u[1] = e
  BY <1>3
<1>5. Where(u, P) = IF e \in P THEN {1} ELSE {}
  BY <1>4 DEF Where
<1> QED
  BY <1>1, <1>2, <1>3, <1>5 DEF Where

\* One element is taken from one place to the other.
LEMMA WhereTaken ==
    ASSUME NEW S, NEW s \in Seq(S), NEW i \in DOMAIN s, NEW P, NEW some,
           OneOf(some, Where(s, P), {})
    PROVE  OneOf(some, Where(RemoveAt(s, i), P), Where(<<s[i]>>, P))
<1>1. PICK t : t = RemoveAt(s, i)
  OBVIOUS
<1>2. /\ DOMAIN s = 1..Len(s) /\ DOMAIN t = 1..(Len(s) - 1) /\ Len(s) \in Nat
      /\ \A j \in 1..(Len(s) - 1) : t[j] = s[IF j < i THEN j ELSE j + 1]
  BY <1>1, RemovedFacts
<1>3. Where(<<s[i]>>, P) = IF s[i] \in P THEN {1} ELSE {}
  BY WhereAppended
<1>4. ASSUME NEW j \in Where(t, P)
      PROVE  /\ (IF j < i THEN j ELSE j + 1) \in Where(s, P)
             /\ (IF j < i THEN j ELSE j + 1) # i
  BY <1>2, <1>4 DEF Where
<1>5. CASE ~some
  BY <1>1, <1>3, <1>4, <1>5 DEF OneOf, Where
<1>6. CASE some
  <2>1. PICK h \in Where(s, P) : Where(s, P) = {h}
    BY <1>6 DEF OneOf
  <2>2. h \in 1..Len(s)
    BY <1>2, <2>1 DEF Where
  <2>3. CASE h = i
    BY <1>1, <1>3, <1>4, <1>6, <2>1, <2>3 DEF OneOf, Where
  <2>4. CASE h # i
    <3>1. s[i] \notin P
      BY <2>1, <2>4 DEF Where
    <3>2. PICK g : g = IF h < i THEN h ELSE h - 1
      OBVIOUS
    <3>3. g \in 1..(Len(s) - 1) /\ (IF g < i THEN g ELSE g + 1) = h
      BY <1>2, <2>2, <2>4, <3>2
    <3>4. g \in Where(t, P)
      BY <1>2, <2>1, <3>3 DEF Where
    <3>5. ASSUME NEW j \in Where(t, P) PROVE j = g
      <4>1. (IF j < i THEN j ELSE j + 1) = h
        BY <1>4, <2>1
      <4>2. j \in 1..(Len(s) - 1)
        BY <1>2 DEF Where
      <4> QED
        BY <1>2, <2>2, <2>4, <3>2, <4>1, <4>2
    <3> QED
      BY <1>1, <1>3, <1>6, <3>1, <3>4, <3>5 DEF OneOf
  <2> QED
    BY <2>3, <2>4
<1> QED
  BY <1>5, <1>6

LiveOf(n, kinds) == {r \in Request : r.from = n /\ r.kind \in kinds /\ r.live}
LiveOnes == {m \in Message : m.live}

\* The live requests are those that have some property.
LEMMA LiveIsWhere ==
    /\ \A s \in Seq(Request) : \A n, kinds : Live(s, n, kinds) = Where(s, LiveOf(n, kinds))
    /\ \A s \in Seq(Message) : LiveMessages(s) = Where(s, LiveOnes)
<1>1. ASSUME NEW s \in Seq(Request), NEW n, NEW kinds
      PROVE  Live(s, n, kinds) = Where(s, LiveOf(n, kinds))
  <2>1. \A i \in DOMAIN s : s[i] \in Request
    OBVIOUS
  <2> QED
    BY <2>1 DEF Live, Where, LiveOf
<1>2. ASSUME NEW s \in Seq(Message) PROVE LiveMessages(s) = Where(s, LiveOnes)
  <2>1. \A i \in DOMAIN s : s[i] \in Message
    OBVIOUS
  <2> QED
    BY <2>1 DEF LiveMessages, Where, LiveOnes
<1> QED
  BY <1>1, <1>2

\* Requests of a node that are given up, and those that are not.
LEMMA LiveGivenUp ==
    ASSUME NEW s \in Seq(Request), NEW m, NEW given, NEW n, NEW kinds
    PROVE  /\ m = n /\ kinds \subseteq given => Live(GiveUp(s, m, given), n, kinds) = {}
           /\ m # n \/ kinds \cap given = {} =>
                Live(GiveUp(s, m, given), n, kinds) = Live(s, n, kinds)
<1>1. PICK t : t = GiveUp(s, m, given)
  OBVIOUS
<1>2. /\ DOMAIN t = DOMAIN s
      /\ \A i \in DOMAIN s : t[i] = IF s[i].from = m /\ s[i].kind \in given
                                  THEN [s[i] EXCEPT !.live = FALSE] ELSE s[i]
  BY <1>1, GiveUpFacts
<1>3. ASSUME NEW i \in DOMAIN s
      PROVE  LET d == [s[i] EXCEPT !.live = FALSE]
             IN d.from = s[i].from /\ d.kind = s[i].kind /\ d.live = FALSE
  <2>1. s[i] \in Request
    OBVIOUS
  <2> QED
    BY <2>1, RequestFacts
<1>4. ASSUME NEW i \in DOMAIN s
      PROVE  /\ t[i].from = s[i].from /\ t[i].kind = s[i].kind
             /\ s[i].from = m /\ s[i].kind \in given => t[i].live = FALSE
             /\ ~(s[i].from = m /\ s[i].kind \in given) => t[i] = s[i]
  BY <1>2, <1>3
<1> QED
  BY <1>1, <1>2, <1>4 DEF Live

OpServed(n) == OneOf(st[n] = "wait", Live(calls, n, {"op"}), Live(job, n, {"op"}))
BootServed(n) ==
    OneOf(boot[n] \in {"recovering", "joining"}, Live(calls, n, BootKind), Live(job, n, BootKind))
MasterServed(n) == OneOf(mwait = n, LiveMessages(inbox[n]), LiveMessages(Redoing(n)))
MasterBusy == mwait # "none" => job # << >> /\ st[mwait] # "down"

\* The master works on one request, and a node that is down does not start.
OneJob == Len(job) <= 1 /\ \A n \in Nodes : st[n] = "down" => boot[n] = "off"

Serving ==
    /\ \A n \in Nodes : OpServed(n) /\ BootServed(n) /\ MasterServed(n)
    /\ MasterBusy /\ OneJob

\* Where nothing is, nothing is live.
LEMMA EmptyLive ==
    /\ \A n, kinds : Live(<< >>, n, kinds) = {}
    /\ LiveMessages(<< >>) = {}
<1>1. PICK s : s = << >>
  OBVIOUS
<1>2. DOMAIN s = {}
  BY <1>1
<1> QED
  BY <1>1, <1>2 DEF Live, LiveMessages

\* Steps of the event loop that send and answer nothing.
LEMMA ClientServing ==
    ASSUME Typed, Serving, NEW n \in Nodes,
           (\E op \in ClientOps(n) : ClientRequest(n, op)) \/ ClientLog(n) \/ ClientAlone(n)
    PROVE  Serving'
<1>1. /\ UNCHANGED <<boot, inbox, calls, job, mwait>>
      /\ st[n] \in {"idle", "stored", "logged"} /\ st'[n] \in {"idle", "stored", "logged"}
      /\ \A m \in Nodes : m # n => st'[m] = st[m] /\ work'[m] = work[m]
  BY DEF ClientRequest, ClientLog, ClientAlone, masterVars, Typed, TypeOK
<1>2. ASSUME NEW m \in Nodes PROVE Redoing(m)' = Redoing(m)
  BY <1>1 DEF Redoing
<1>3. mwait # "none" => job # << >> /\ st'[mwait] # "down"
  BY <1>1 DEF Serving, MasterBusy, Typed, TypeOK
<1>4. \A m \in Nodes : (st'[m] = "wait" <=> st[m] = "wait") /\ (st'[m] = "down" => st[m] = "down")
  BY <1>1
<1> QED
  BY <1>1, <1>2, <1>3, <1>4 DEF Serving, OpServed, BootServed, MasterServed, MasterBusy, OneJob

\* A new request is live.
LEMMA LiveAppended ==
    ASSUME NEW s \in Seq(Request), NEW r \in Request, r.live, NEW m, NEW kinds
    PROVE  /\ Live(Append(s, r), m, kinds) =
                Live(s, m, kinds)
                  \cup (IF r.from = m /\ r.kind \in kinds THEN {Len(s) + 1} ELSE {})
           /\ Len(s) + 1 \notin Live(s, m, kinds)
<1>1. PICK t : t = Append(s, r)
  OBVIOUS
<1>2. /\ DOMAIN t = 1..(Len(s) + 1) /\ DOMAIN s = 1..Len(s)
      /\ t[Len(s) + 1] = r /\ \A j \in 1..Len(s) : t[j] = s[j]
  BY <1>1
<1> QED
  BY <1>1, <1>2 DEF Live

\* A node sends a request to the master.
LEMMA SentServing ==
    ASSUME Typed, NEW r \in Request, r.live, calls' = Append(calls, r), job' = job,
           NEW m \in Nodes, NEW kinds, NEW some, NEW then,
           OneOf(some, Live(calls, m, kinds), Live(job, m, kinds)),
           IF r.from = m /\ r.kind \in kinds THEN ~some /\ then ELSE then = some
    PROVE  OneOf(then, Live(calls', m, kinds), Live(job', m, kinds))
<1>1. /\ Live(calls', m, kinds) = Live(calls, m, kinds)
              \cup (IF r.from = m /\ r.kind \in kinds THEN {Len(calls) + 1} ELSE {})
      /\ Len(calls) + 1 \notin Live(calls, m, kinds)
  <2>1. PICK s \in Seq(Request) : s = calls
    BY DEF Typed, TypeOK
  <2> QED
    BY <2>1, LiveAppended
<1> QED
  BY <1>1 DEF OneOf

\* A node asks, and waits from then on.
LEMMA ForwardServing ==
    ASSUME Typed, Serving, NEW n \in Nodes, ClientForward(n)
    PROVE  Serving'
<1>1. PICK r : r = [from |-> n, kind |-> "op", op |-> work[n][1].op, size |-> 0, live |-> TRUE]
  OBVIOUS
<1>2. /\ r \in Request /\ r.live /\ r.from = n /\ r.kind = "op"
      /\ calls' = Append(calls, r) /\ job' = job
      /\ st[n] = "logged" /\ st' = [st EXCEPT ![n] = "wait"]
      /\ UNCHANGED <<work, boot, inbox, mwait>>
  BY <1>1, WorkFacts DEF Request, ClientForward
<1>3. ASSUME NEW m \in Nodes PROVE OpServed(m)'
  <2>1. OneOf(st[m] = "wait", Live(calls, m, {"op"}), Live(job, m, {"op"}))
    BY DEF Serving, OpServed
  <2>2. IF r.from = m /\ r.kind \in {"op"} THEN st[m] # "wait" /\ st'[m] = "wait"
        ELSE (st'[m] = "wait") = (st[m] = "wait")
    BY <1>2 DEF Typed, TypeOK
  <2> QED
    BY <1>2, <2>1, <2>2, SentServing DEF OpServed
<1>4. ASSUME NEW m \in Nodes PROVE BootServed(m)'
  <2>1. OneOf(boot[m] \in {"recovering", "joining"}, Live(calls, m, BootKind), Live(job, m, BootKind))
    BY DEF Serving, BootServed
  <2>2. r.kind \notin BootKind
    BY <1>2 DEF BootKind
  <2> QED
    BY <1>2, <2>1, <2>2, SentServing DEF BootServed
<1>5. ASSUME NEW m \in Nodes PROVE Redoing(m)' = Redoing(m)
  BY <1>2 DEF Redoing, Typed, TypeOK
<1> QED
  BY <1>2, <1>3, <1>4, <1>5 DEF Serving, MasterServed, MasterBusy, OneJob, Typed, TypeOK

LEMMA BootSendServing ==
    ASSUME Typed, Serving, NEW n \in Nodes, SendRecovery(n) \/ SendJoin(n)
    PROVE  Serving'
<1>1. PICK r : /\ calls' = Append(calls, r)
               /\ \/ r = [from |-> n, kind |-> "recovery", op |-> NoOp, size |-> Len(log[n]),
                          live |-> TRUE]
                  \/ r = [from |-> n, kind |-> "join", op |-> NoOp, size |-> 0, live |-> TRUE]
  BY DEF SendRecovery, SendJoin
<1>2. /\ r \in Request /\ r.live /\ r.from = n /\ r.kind \in BootKind /\ r.kind # "op"
  <2>1. Len(log[n]) \in Nat
    BY DEF Typed, TypeOK
  <2>2. CASE r = [from |-> n, kind |-> "recovery", op |-> NoOp, size |-> Len(log[n]), live |-> TRUE]
    BY <2>1, <2>2 DEF Request, BootKind
  <2>3. CASE r = [from |-> n, kind |-> "join", op |-> NoOp, size |-> 0, live |-> TRUE]
    BY <2>3 DEF Request, BootKind
  <2> QED
    BY <1>1, <2>2, <2>3
<1>3. /\ boot[n] \in {"start", "recovered"} /\ boot'[n] \in {"recovering", "joining"}
      /\ \A m \in Nodes : m # n => boot'[m] = boot[m]
      /\ UNCHANGED <<st, work, inbox, job, mwait>>
  BY DEF SendRecovery, SendJoin, Typed, TypeOK
<1>4. ASSUME NEW m \in Nodes PROVE BootServed(m)'
  <2>1. OneOf(boot[m] \in {"recovering", "joining"}, Live(calls, m, BootKind), Live(job, m, BootKind))
    BY DEF Serving, BootServed
  <2>2. IF r.from = m /\ r.kind \in BootKind
        THEN ~(boot[m] \in {"recovering", "joining"}) /\ boot'[m] \in {"recovering", "joining"}
        ELSE (boot'[m] \in {"recovering", "joining"}) = (boot[m] \in {"recovering", "joining"})
    BY <1>2, <1>3
  <2> QED
    BY <1>1, <1>2, <1>3, <2>1, <2>2, SentServing DEF BootServed
<1>5. ASSUME NEW m \in Nodes PROVE OpServed(m)'
  <2>1. OneOf(st[m] = "wait", Live(calls, m, {"op"}), Live(job, m, {"op"}))
    BY DEF Serving, OpServed
  <2> QED
    BY <1>1, <1>2, <1>3, <2>1, SentServing DEF OpServed
<1>6. ASSUME NEW m \in Nodes PROVE Redoing(m)' = Redoing(m)
  BY <1>3 DEF Redoing
<1> QED
  BY <1>3, <1>4, <1>5, <1>6 DEF Serving, MasterServed, MasterBusy, OneJob

\* A node gives up the requests of some kinds, and waits for them no more.
LEMMA GivenUpServing ==
    ASSUME Typed, NEW n \in Nodes, NEW given,
           calls' = GiveUp(calls, n, given), job' = GiveUp(job, n, given),
           NEW m \in Nodes, NEW kinds, NEW some, NEW then,
           OneOf(some, Live(calls, m, kinds), Live(job, m, kinds)),
           \/ m = n /\ kinds \subseteq given /\ ~then
           \/ (m # n \/ kinds \cap given = {}) /\ then = some
    PROVE  OneOf(then, Live(calls', m, kinds), Live(job', m, kinds))
<1>1. calls \in Seq(Request) /\ job \in Seq(Request)
  BY DEF Typed, TypeOK
<1>2. CASE m = n /\ kinds \subseteq given /\ ~then
  BY <1>1, <1>2, LiveGivenUp DEF OneOf
<1>3. CASE (m # n \/ kinds \cap given = {}) /\ then = some
  <2>1. /\ Live(calls', m, kinds) = Live(calls, m, kinds)
        /\ Live(job', m, kinds) = Live(job, m, kinds)
    BY <1>1, <1>3, LiveGivenUp
  <2> QED
    BY <1>3, <2>1
<1> QED
  BY <1>2, <1>3

\* A node no longer waits: its request is given up.
LEMMA TimeoutServing ==
    ASSUME Typed, Serving, NEW n \in Nodes, ClientTimeout(n) \/ BootTimeout(n)
    PROVE  Serving'
<1>1. \A m \in Nodes :
        /\ OneOf(st[m] = "wait", Live(calls, m, {"op"}), Live(job, m, {"op"}))
        /\ OneOf(boot[m] \in {"recovering", "joining"}, Live(calls, m, BootKind),
                 Live(job, m, BootKind))
  BY DEF Serving, OpServed, BootServed
<1>2. "op" \notin BootKind
  BY DEF BootKind
<1>3. \A given : Len(GiveUp(job, n, given)) = Len(job)
  BY GiveUpFacts DEF Typed, TypeOK
<1>4. CASE ClientTimeout(n)
  <2>1. /\ calls' = GiveUp(calls, n, {"op"}) /\ job' = GiveUp(job, n, {"op"})
        /\ st[n] = "wait" /\ st' = [st EXCEPT ![n] = "idle"]
        /\ work' = [work EXCEPT ![n] = << >>] /\ UNCHANGED <<boot, inbox, mwait>>
    BY <1>4 DEF ClientTimeout
  <2>2. ASSUME NEW m \in Nodes PROVE OpServed(m)'
    <3>1. \/ m = n /\ {"op"} \subseteq {"op"} /\ ~(st'[m] = "wait")
          \/ (m # n \/ {"op"} \cap {"op"} = {}) /\ (st'[m] = "wait") = (st[m] = "wait")
      BY <2>1 DEF Typed, TypeOK
    <3> QED
      BY <1>1, <2>1, <3>1, GivenUpServing DEF OpServed
  <2>3. ASSUME NEW m \in Nodes PROVE BootServed(m)'
    <3>1. BootKind \cap {"op"} = {}
      BY <1>2
    <3> QED
      BY <1>1, <2>1, <3>1, GivenUpServing DEF BootServed
  <2>4. ASSUME NEW m \in Nodes PROVE Redoing(m)' = Redoing(m)
    BY <2>1 DEF Redoing, Typed, TypeOK
  <2>5. mwait # "none" => job' # << >> /\ st'[mwait] # "down"
    BY <1>3, <2>1 DEF Serving, MasterBusy, Typed, TypeOK
  <2> QED
    BY <1>3, <2>1, <2>2, <2>3, <2>4, <2>5
       DEF Serving, MasterServed, MasterBusy, OneJob, Typed, TypeOK
<1>5. CASE BootTimeout(n)
  <2>1. /\ calls' = GiveUp(calls, n, BootKind) /\ job' = GiveUp(job, n, BootKind)
        /\ boot[n] \in {"recovering", "joining"}
        /\ boot' = [boot EXCEPT ![n] = BootDone(boot[n])]
        /\ UNCHANGED <<st, work, inbox, mwait>>
    BY <1>5 DEF BootTimeout
  <2>2. /\ boot'[n] \in {"recovered", "up"}
        /\ \A m \in Nodes : m # n => boot'[m] = boot[m]
    BY <2>1 DEF BootDone, Typed, TypeOK
  <2>3. ASSUME NEW m \in Nodes PROVE OpServed(m)'
    <3>1. {"op"} \cap BootKind = {}
      BY <1>2
    <3> QED
      BY <1>1, <2>1, <3>1, GivenUpServing DEF OpServed
  <2>4. ASSUME NEW m \in Nodes PROVE BootServed(m)'
    <3>1. \/ m = n /\ BootKind \subseteq BootKind /\ ~(boot'[m] \in {"recovering", "joining"})
          \/ /\ m # n \/ BootKind \cap BootKind = {}
             /\ (boot'[m] \in {"recovering", "joining"}) = (boot[m] \in {"recovering", "joining"})
      BY <2>2
    <3> QED
      BY <1>1, <2>1, <3>1, GivenUpServing DEF BootServed
  <2>5. ASSUME NEW m \in Nodes PROVE Redoing(m)' = Redoing(m)
    BY <2>1 DEF Redoing
  <2>6. mwait # "none" => job' # << >> /\ st'[mwait] # "down"
    BY <1>3, <2>1 DEF Serving, MasterBusy, Typed, TypeOK
  <2> QED
    BY <1>3, <2>1, <2>2, <2>3, <2>4, <2>5, <2>6
       DEF Serving, MasterServed, MasterBusy, OneJob
<1> QED
  BY <1>4, <1>5

\* A node that starts, or that finds no master, waits for nothing.
LEMMA StartServing ==
    ASSUME Typed, Serving, NEW n \in Nodes, Start(n) \/ BootAlone(n)
    PROVE  Serving'
<1>1. /\ UNCHANGED <<work, inbox, calls, job, mwait>>
      /\ boot[n] \notin {"recovering", "joining"} /\ boot'[n] \notin {"recovering", "joining"}
      /\ \A m \in Nodes : m # n => boot'[m] = boot[m] /\ st'[m] = st[m]
      /\ \/ st[n] # "down" /\ st'[n] = st[n]
         \/ st[n] = "down" /\ st'[n] = "idle"
  BY DEF Start, BootAlone, masterVars, Typed, TypeOK, Serving, OneJob
<1>2. ASSUME NEW m \in Nodes PROVE Redoing(m)' = Redoing(m)
  BY <1>1 DEF Redoing
<1>3. mwait # "none" => job # << >> /\ st'[mwait] # "down"
  BY <1>1 DEF Serving, MasterBusy, Typed, TypeOK
<1>4. ASSUME NEW m \in Nodes
      PROVE  /\ st'[m] = "wait" <=> st[m] = "wait"
             /\ boot'[m] \in {"recovering", "joining"} <=> boot[m] \in {"recovering", "joining"}
             /\ st'[m] = "down" => st[m] = "down" /\ boot'[m] = boot[m]
  BY <1>1
<1> QED
  BY <1>1, <1>2, <1>3, <1>4 DEF Serving, OpServed, BootServed, MasterServed, MasterBusy, OneJob

\* A message for which the master waits is read ...
LEMMA RedoLogServing ==
    ASSUME Typed, Serving, NEW n \in Nodes, NEW i \in DOMAIN inbox[n], RedoLog(n, i)
    PROVE  Serving'
<1>1. inbox[n] \in Seq(Message) /\ RemoveAt(inbox[n], i) \in Seq(Message) /\ inbox[n][i] \in Message
  BY RemovedFacts DEF Typed, TypeOK
<1>2. PICK w : w = <<inbox[n][i]>> /\ w \in Seq(Message)
  <2>1. PICK e \in Message : e = inbox[n][i]
    BY <1>1
  <2>2. <<e>> \in Seq(Message)
    OBVIOUS
  <2> QED
    BY <2>1, <2>2
<1>3. /\ st[n] = "idle" /\ st' = [st EXCEPT ![n] = "redo"] /\ work' = [work EXCEPT ![n] = w]
      /\ inbox' = [inbox EXCEPT ![n] = RemoveAt(inbox[n], i)]
      /\ UNCHANGED <<boot, calls, job, mwait>>
  BY <1>2 DEF RedoLog, masterVars, Typed, TypeOK
<1>4. MasterServed(n)'
  <2>1. OneOf(mwait = n, LiveMessages(inbox[n]), {})
    BY <1>3, EmptyLive DEF Serving, MasterServed, Redoing
  <2>2. OneOf(mwait = n, Where(RemoveAt(inbox[n], i), LiveOnes), Where(<<inbox[n][i]>>, LiveOnes))
    BY <1>1, <2>1, LiveIsWhere, WhereTaken
  <2>3. OneOf(mwait = n, LiveMessages(RemoveAt(inbox[n], i)), LiveMessages(w))
    BY <1>1, <1>2, <2>2, LiveIsWhere
  <2>4. inbox'[n] = RemoveAt(inbox[n], i) /\ Redoing(n)' = w
    BY <1>3 DEF Redoing, Typed, TypeOK
  <2> QED
    BY <1>3, <2>3, <2>4 DEF MasterServed
<1>5. ASSUME NEW m \in Nodes, m # n PROVE MasterServed(m)'
  BY <1>3, <1>5 DEF Serving, MasterServed, Redoing, Typed, TypeOK
<1>6. ASSUME NEW m \in Nodes
      PROVE  (st'[m] = "wait" <=> st[m] = "wait") /\ (st'[m] = "down" <=> st[m] = "down")
  BY <1>3 DEF Typed, TypeOK
<1>7. mwait # "none" => job # << >> /\ st'[mwait] # "down"
  BY <1>3 DEF Serving, MasterBusy, Typed, TypeOK
<1> QED
  BY <1>3, <1>4, <1>5, <1>6, <1>7 DEF Serving, OpServed, BootServed, MasterBusy, OneJob

\* One message, live or not.
LEMMA LiveInOne ==
    ASSUME NEW w \in Seq(Message), Len(w) = 1
    PROVE  LiveMessages(w) = IF w[1].live THEN {1} ELSE {}
BY DEF LiveMessages

\* ... and answered.
LEMMA RedoStoreServing ==
    ASSUME Typed, Serving, NEW n \in Nodes, RedoStore(n)
    PROVE  Serving'
<1>1. work[n] \in Seq(Message) /\ Len(work[n]) = 1
  BY DEF RedoStore, Typed, TypeOK, WorksOnOne
<1>2. /\ st[n] = "redo" /\ st' = [st EXCEPT ![n] = "idle"]
      /\ work' = [work EXCEPT ![n] = << >>]
      /\ mwait' = IF work[n][1].live THEN "none" ELSE mwait
      /\ UNCHANGED <<boot, inbox, calls, job>>
  BY DEF RedoStore
<1>3. "none" \notin Nodes
  BY ReplicationAssumption
<1>4. OneOf(mwait = n, LiveMessages(inbox[n]), LiveMessages(work[n]))
  BY <1>2 DEF Serving, MasterServed, Redoing
<1>5. /\ LiveMessages(work[n]) = IF work[n][1].live THEN {1} ELSE {}
      /\ work[n][1].live => mwait = n
  BY <1>1, <1>4, LiveInOne DEF OneOf
<1>6. MasterServed(n)'
  <2>1. Redoing(n)' = << >> /\ inbox' = inbox
    BY <1>2 DEF Redoing, Typed, TypeOK
  <2>2. OneOf(mwait' = n, LiveMessages(inbox[n]), {})
    BY <1>2, <1>3, <1>4, <1>5 DEF OneOf
  <2> QED
    BY <2>1, <2>2, EmptyLive DEF MasterServed
<1>7. ASSUME NEW m \in Nodes, m # n PROVE MasterServed(m)'
  <2>1. mwait' = m <=> mwait = m
    BY <1>2, <1>3, <1>5, <1>7
  <2>2. Redoing(m)' = Redoing(m) /\ inbox' = inbox
    BY <1>2, <1>7 DEF Redoing, Typed, TypeOK
  <2> QED
    BY <2>1, <2>2 DEF Serving, MasterServed
<1>8. ASSUME NEW m \in Nodes
      PROVE  (st'[m] = "wait" <=> st[m] = "wait") /\ (st'[m] = "down" <=> st[m] = "down")
  BY <1>2 DEF Typed, TypeOK
<1>9. mwait' # "none" => job # << >> /\ st'[mwait'] # "down"
  BY <1>2, <1>8 DEF Serving, MasterBusy, Typed, TypeOK
<1> QED
  BY <1>2, <1>6, <1>7, <1>8, <1>9 DEF Serving, OpServed, BootServed, MasterBusy, OneJob

\* A node goes down: its requests are given up or lost, and nobody waits for it.
LEMMA CrashServing ==
    ASSUME Typed, Serving, NEW n \in Nodes, Crash(n)
    PROVE  Serving'
<1> DEFINE all == {"op"} \cup BootKind
<1>1. /\ calls' \in {GiveUp(calls, n, all), OfOthers(calls, n)}
      /\ job' = GiveUp(job, n, all)
      /\ st' = [st EXCEPT ![n] = "down"] /\ boot' = [boot EXCEPT ![n] = "off"]
      /\ work' = [work EXCEPT ![n] = << >>] /\ inbox' = [inbox EXCEPT ![n] = << >>]
      /\ mwait' = IF mwait = n THEN "none" ELSE mwait
  BY DEF Crash
<1>2. calls \in Seq(Request) /\ job \in Seq(Request)
  BY DEF Typed, TypeOK
<1>3. "none" \notin Nodes
  BY ReplicationAssumption
<1>4. ASSUME NEW m \in Nodes, NEW kinds, kinds \subseteq all, NEW some, NEW then,
             OneOf(some, Live(calls, m, kinds), Live(job, m, kinds)),
             IF m = n THEN ~then ELSE then = some
      PROVE  OneOf(then, Live(calls', m, kinds), Live(job', m, kinds))
  <2>1. CASE calls' = GiveUp(calls, n, all)
    BY <1>1, <1>4, <2>1, GivenUpServing
  <2>2. CASE calls' = OfOthers(calls, n)
    <3>1. CASE m = n
      <4>1. Live(job', m, kinds) = {}
        BY <1>1, <1>2, <1>4, <3>1, LiveGivenUp
      <4>2. Live(calls', m, kinds) = {}
        BY <1>2, <2>2, <3>1, OthersFacts DEF Live
      <4> QED
        BY <1>4, <3>1, <4>1, <4>2 DEF OneOf
    <3>2. CASE m # n
      <4>1. Live(job', m, kinds) = Live(job, m, kinds)
        BY <1>1, <1>2, <3>2, LiveGivenUp
      <4>2. AlikeSets(Live(calls', m, kinds), Live(calls, m, kinds))
        BY <1>2, <2>2, <3>2, OthersFacts
      <4> QED
        BY <1>4, <3>2, <4>1, <4>2 DEF OneOf, AlikeSets
    <3> QED
      BY <3>1, <3>2
  <2> QED
    BY <1>1, <2>1, <2>2
<1>5. ASSUME NEW m \in Nodes PROVE OpServed(m)'
  <2>1. IF m = n THEN ~(st'[m] = "wait") ELSE (st'[m] = "wait") = (st[m] = "wait")
    BY <1>1 DEF Typed, TypeOK
  <2>2. OneOf(st[m] = "wait", Live(calls, m, {"op"}), Live(job, m, {"op"}))
    BY DEF Serving, OpServed
  <2>3. {"op"} \subseteq all
    OBVIOUS
  <2> HIDE DEF all
  <2> QED
    BY <1>4, <2>1, <2>2, <2>3 DEF OpServed
<1>6. ASSUME NEW m \in Nodes PROVE BootServed(m)'
  <2>1. IF m = n THEN ~(boot'[m] \in {"recovering", "joining"})
        ELSE (boot'[m] \in {"recovering", "joining"}) = (boot[m] \in {"recovering", "joining"})
    BY <1>1 DEF Typed, TypeOK
  <2>2. OneOf(boot[m] \in {"recovering", "joining"}, Live(calls, m, BootKind), Live(job, m, BootKind))
    BY DEF Serving, BootServed
  <2>3. BootKind \subseteq all
    OBVIOUS
  <2> HIDE DEF all
  <2> QED
    BY <1>4, <2>1, <2>2, <2>3 DEF BootServed
<1> HIDE DEF all
<1>7. MasterServed(n)'
  <2>1. inbox'[n] = << >> /\ Redoing(n)' = << >> /\ mwait' # n
    BY <1>1, <1>3 DEF Redoing, Typed, TypeOK
  <2> QED
    BY <2>1, EmptyLive DEF MasterServed, OneOf
<1>8. ASSUME NEW m \in Nodes, m # n PROVE MasterServed(m)'
  <2>1. /\ inbox'[m] = inbox[m] /\ Redoing(m)' = Redoing(m)
        /\ mwait' = m <=> mwait = m
    BY <1>1, <1>3, <1>8 DEF Redoing, Typed, TypeOK
  <2> QED
    BY <2>1 DEF Serving, MasterServed
<1>9. Len(job') = Len(job) /\ (job' = << >> <=> job = << >>)
  BY <1>1, <1>2, GiveUpFacts
<1>10. mwait' # "none" => job' # << >> /\ st'[mwait'] # "down"
  BY <1>1, <1>3, <1>9 DEF Serving, MasterBusy, Typed, TypeOK
<1>11. \A m \in Nodes : st'[m] = "down" => boot'[m] = "off"
  BY <1>1 DEF Serving, OneJob, Typed, TypeOK
<1> QED
  BY <1>5, <1>6, <1>7, <1>8, <1>9, <1>10, <1>11 DEF Serving, MasterBusy, OneJob

\* The master goes down: nobody waits for it.
LEMMA MasterCrashServing ==
    ASSUME Typed, Serving, MasterCrash
    PROVE  Serving'
<1>1. /\ calls' = << >> /\ job' = << >> /\ mwait' = "none"
      /\ st' = [n \in Nodes |-> IF st[n] = "wait" THEN "idle" ELSE st[n]]
      /\ work' = [n \in Nodes |-> IF st[n] = "wait" THEN << >> ELSE
                                  IF st[n] = "redo" THEN Dead(work[n]) ELSE work[n]]
      /\ boot' = [n \in Nodes |-> BootDone(boot[n])]
      /\ inbox' = [n \in Nodes |-> Dead(inbox[n])]
  BY DEF MasterCrash
<1>2. "none" \notin Nodes
  BY ReplicationAssumption
<1>3. ASSUME NEW n \in Nodes PROVE OpServed(n)' /\ BootServed(n)'
  <2>1. st'[n] # "wait" /\ boot'[n] \notin {"recovering", "joining"}
    BY <1>1 DEF BootDone
  <2> QED
    BY <1>1, <2>1, EmptyLive DEF OpServed, BootServed, OneOf
<1>4. ASSUME NEW n \in Nodes PROVE MasterServed(n)'
  <2>1. inbox[n] \in Seq(Message) /\ work[n] \in Seq(Message)
    BY DEF Typed, TypeOK
  <2>2. LiveMessages(inbox'[n]) = {}
    BY <1>1, <2>1, DeadFacts
  <2>3. LiveMessages(Redoing(n)') = {}
    <3>1. CASE st[n] = "redo"
      <4>1. Redoing(n)' = Dead(work[n])
        BY <1>1, <3>1 DEF Redoing
      <4> QED
        BY <2>1, <4>1, DeadFacts
    <3>2. CASE st[n] # "redo"
      <4>1. Redoing(n)' = << >>
        BY <1>1, <3>2 DEF Redoing
      <4> QED
        BY <4>1, EmptyLive
    <3> QED
      BY <3>1, <3>2
  <2>4. LiveMessages(Redoing(n))' = {}
    BY <2>3
  <2> QED
    BY <1>1, <1>2, <2>2, <2>4 DEF MasterServed, OneOf
<1>5. \A n \in Nodes : st'[n] = "down" => boot'[n] = "off"
  BY <1>1 DEF Serving, OneJob, BootDone
<1> QED
  BY <1>1, <1>3, <1>4, <1>5 DEF Serving, MasterBusy, OneJob

\* The master reads a request.
LEMMA ReadServing ==
    ASSUME Typed, Serving, NEW i \in DOMAIN calls, Read(i),
           UNCHANGED <<nodeVars, mwait>>
    PROVE  Serving'
<1>1. /\ job = << >> /\ calls \in Seq(Request) /\ calls' = RemoveAt(calls, i)
      /\ calls' \in Seq(Request) /\ calls[i] \in Request
  BY RemovedFacts DEF Read, Typed, TypeOK
<1>2. PICK j : j = <<calls[i]>>
  OBVIOUS
<1>3. j \in Seq(Request) /\ Len(j) = 1 /\ job' = j
  BY <1>1, <1>2 DEF Read
<1>4. ASSUME NEW m, NEW kinds, NEW some,
             OneOf(some, Live(calls, m, kinds), Live(job, m, kinds))
      PROVE  OneOf(some, Live(calls', m, kinds), Live(job', m, kinds))
  <2>1. PICK P : P = LiveOf(m, kinds)
    OBVIOUS
  <2>2. OneOf(some, Where(calls, P), {})
    BY <1>1, <1>4, <2>1, EmptyLive, LiveIsWhere
  <2>3. OneOf(some, Where(RemoveAt(calls, i), P), Where(<<calls[i]>>, P))
    BY <1>1, <2>2, WhereTaken
  <2>4. OneOf(some, Where(calls', P), Where(job', P))
    BY <1>1, <1>2, <1>3, <2>3
  <2>5. Live(calls', m, kinds) = Where(calls', P) /\ Live(job', m, kinds) = Where(job', P)
    BY <1>1, <1>3, <2>1, LiveIsWhere
  <2> QED
    BY <2>4, <2>5
<1>5. UNCHANGED <<st, boot, inbox, work, mwait>>
  BY DEF nodeVars
<1>6. ASSUME NEW m \in Nodes PROVE OpServed(m)' /\ BootServed(m)'
  BY <1>4, <1>5 DEF Serving, OpServed, BootServed
<1>7. ASSUME NEW m \in Nodes PROVE MasterServed(m)'
  BY <1>5 DEF Serving, MasterServed, Redoing
<1>8. mwait' = "none"
  BY <1>1, <1>5 DEF Serving, MasterBusy
<1>9. MasterBusy'
  BY <1>8 DEF MasterBusy
<1>10. OneJob'
  <2>1. Len(job') <= 1
    <3>1. Len(job') = 1 /\ 1 \in Nat
      BY <1>3
    <3> QED
      BY <3>1
  <2>2. \A m \in Nodes : st[m] = "down" => boot[m] = "off"
    BY DEF Serving, OneJob
  <2> QED
    BY <1>5, <2>1, <2>2 DEF OneJob
<1> QED
  BY <1>6, <1>7, <1>9, <1>10 DEF Serving

\* A new message is live.
LEMMA MessageAppended ==
    ASSUME NEW s \in Seq(Message), NEW e \in Message, e.live
    PROVE  LiveMessages(Append(s, e)) = LiveMessages(s) \cup {Len(s) + 1}
<1>1. PICK t : t = Append(s, e)
  OBVIOUS
<1>2. /\ DOMAIN t = 1..(Len(s) + 1) /\ DOMAIN s = 1..Len(s)
      /\ t[Len(s) + 1] = e /\ \A j \in 1..Len(s) : t[j] = s[j]
  BY <1>1
<1> QED
  BY <1>1, <1>2 DEF LiveMessages

\* A message is sent to a node that is not down.
LEMMA SendServing ==
    ASSUME Typed, Serving, mwait = "none", job # << >>, NEW n \in Nodes, NEW op \in Op,
           Send(n, op), UNCHANGED <<st, work, boot, calls, job>>
    PROVE  Serving'
<1>1. CASE UNCHANGED <<inbox, mwait>>
  BY <1>1 DEF Serving, OpServed, BootServed, MasterServed, MasterBusy, OneJob, Redoing
<1>2. CASE ~UNCHANGED <<inbox, mwait>>
  <2>1. PICK e \in Message : e = [op |-> op, live |-> TRUE]
    BY DEF Message
  <2>2. /\ st[n] # "down" /\ mwait' = n
        /\ inbox' = [inbox EXCEPT ![n] = Append(inbox[n], e)]
    BY <1>2, <2>1 DEF Send, Typed, TypeOK
  <2>3. "none" \notin Nodes
    BY ReplicationAssumption
  <2>4. \A m \in Nodes : LiveMessages(inbox[m]) = {} /\ LiveMessages(Redoing(m)) = {}
    BY <2>3 DEF Serving, MasterServed, OneOf
  <2>5. LiveMessages(inbox'[n]) = {Len(inbox[n]) + 1}
    <3>1. inbox[n] \in Seq(Message) /\ inbox'[n] = Append(inbox[n], e)
      BY <2>2 DEF Typed, TypeOK
    <3>2. LiveMessages(Append(inbox[n], e)) = LiveMessages(inbox[n]) \cup {Len(inbox[n]) + 1}
      BY <2>1, <3>1, MessageAppended
    <3> QED
      BY <2>4, <3>1, <3>2
  <2>6. ASSUME NEW m \in Nodes PROVE MasterServed(m)'
    <3>1. Redoing(m)' = Redoing(m) /\ (m # n => inbox'[m] = inbox[m])
      BY <2>2 DEF Redoing, Typed, TypeOK
    <3>2. OneOf(mwait' = m, LiveMessages(inbox'[m]), LiveMessages(Redoing(m)))
      BY <2>2, <2>4, <2>5, <3>1 DEF OneOf
    <3> QED
      BY <3>1, <3>2 DEF MasterServed
  <2>7. \A m \in Nodes : OpServed(m)' /\ BootServed(m)'
    BY DEF Serving, OpServed, BootServed
  <2> QED
    BY <2>2, <2>6, <2>7 DEF Serving, MasterBusy, OneJob
<1> QED
  BY <1>1, <1>2

\* A step that asks, answers and ends nothing.
LEMMA IdleServing ==
    ASSUME Typed, Serving, UNCHANGED <<st, work, boot, inbox, calls, job, mwait>>
    PROVE  Serving'
BY DEF Serving, OpServed, BootServed, MasterServed, MasterBusy, OneJob, Redoing

\* The master sends, and waits from then on.
LEMMA BackupServing ==
    ASSUME Typed, Serving, Backup
    PROVE  Serving'
<1>1. /\ mwait = "none" /\ job # << >> /\ job[1] \in Request /\ job[1].kind = "op"
      /\ UNCHANGED <<st, work, boot, calls, job>>
  <2>1. job \in Seq(Request) /\ job # << >>
    BY DEF Backup, AtBackup, Typed, TypeOK
  <2>2. job[1] \in Request
    BY <2>1
  <2> QED
    BY <2>1, <2>2 DEF Backup, AtBackup
<1>2. job[1].op \in Op
  BY <1>1, RequestFacts
<1>3. Typed'
  BY BackupTyped
<1>4. \/ UNCHANGED <<inbox, mwait>>
      \/ mi <= Len(mDataNodes') /\ Send(mDataNodes'[mi], job[1].op)
  BY DEF Backup
<1>5. CASE mi <= Len(mDataNodes') /\ Send(mDataNodes'[mi], job[1].op)
  <2>1. mDataNodes'[mi] \in Nodes
    BY <1>3, <1>5 DEF Typed, TypeOK
  <2> QED
    BY <1>1, <1>2, <1>5, <2>1, SendServing
<1> QED
  BY <1>1, <1>4, <1>5, IdleServing

LEMMA ReplayNextServing ==
    ASSUME Typed, Serving, ReplayNext
    PROVE  Serving'
<1>1. /\ mwait = "none" /\ job # << >> /\ job[1] \in Request
      /\ UNCHANGED <<st, work, boot, calls, job>>
      /\ Send(job[1].from, Head(mlist)) /\ Head(mlist) \in Op
  <2>1. job \in Seq(Request) /\ job # << >> /\ mlist \in Seq(Op) /\ mlist # << >>
    BY DEF ReplayNext, AtReplay, Typed, TypeOK
  <2>2. job[1] \in Request /\ Head(mlist) \in Op
    BY <2>1
  <2> QED
    BY <2>1, <2>2 DEF ReplayNext, AtReplay
<1> QED
  BY <1>1, RequestFacts, SendServing

\* Whoever is answered waits for the answer.
LEMMA AnsweredWaits ==
    ASSUME Typed, Serving, NEW c \in Request, job # << >>, c = job[1], c.live
    PROVE  /\ c.kind = "op" => st[c.from] = "wait"
           /\ c.kind # "op" => boot[c.from] \in {"recovering", "joining"}
<1>1. 1 \in DOMAIN job
  <2>1. PICK s \in Seq(Request) : s = job
    BY DEF Typed, TypeOK
  <2> QED
    BY <2>1
<1>2. c.from \in Nodes /\ c.kind \in {"op"} \cup BootKind
  BY RequestFacts
<1>4. CASE c.kind = "op"
  <2>1. OneOf(st[c.from] = "wait", Live(calls, c.from, {"op"}), Live(job, c.from, {"op"}))
    BY <1>2 DEF Serving, OpServed
  <2>2. 1 \in Live(job, c.from, {"op"})
    BY <1>1, <1>4 DEF Live
  <2> QED
    BY <1>4, <2>1, <2>2 DEF OneOf
<1>5. CASE c.kind # "op"
  <2>1. OneOf(boot[c.from] \in {"recovering", "joining"}, Live(calls, c.from, BootKind),
              Live(job, c.from, BootKind))
    BY <1>2 DEF Serving, BootServed
  <2>2. 1 \in Live(job, c.from, BootKind)
    BY <1>1, <1>2, <1>5 DEF Live
  <2> QED
    BY <1>5, <2>1, <2>2 DEF OneOf
<1> QED
  BY <1>4, <1>5

\* The answer ends the wait.
LEMMA FinishServing ==
    ASSUME Typed, Serving, Finish
    PROVE  Serving'
<1>1. /\ Answer(job[1]) /\ job' = << >> /\ mwait = "none"
      /\ UNCHANGED <<inbox, calls, mwait>> /\ job # << >>
  BY DEF Finish, AtBackup, AtReplay
<1>2. PICK c \in Request : c = job[1]
  <2>1. job \in Seq(Request) /\ job # << >>
    BY <1>1 DEF Typed, TypeOK
  <2> QED
    BY <2>1
<1>3. /\ c.from \in Nodes /\ c.live \in BOOLEAN /\ c.kind \in {"op"} \cup BootKind
  BY RequestFacts
<1>4. DOMAIN job = {1}
  <2>1. job \in Seq(Request) /\ job # << >> /\ Len(job) <= 1
    BY <1>1 DEF Serving, OneJob, Typed, TypeOK
  <2>2. Len(job) = 1
    <3>1. PICK s \in Seq(Request) : s = job
      BY <2>1
    <3>2. Len(s) # 0 /\ Len(s) \in Nat
      BY <2>1, <3>1
    <3>3. Len(s) <= 1
      BY <2>1, <3>1
    <3>4. Len(s) = 1
      BY <3>2, <3>3
    <3> QED
      BY <3>1, <3>4
  <2> QED
    BY <2>1, <2>2
<1>5. ASSUME NEW m, NEW kinds
      PROVE  Live(job, m, kinds) = IF c.from = m /\ c.kind \in kinds /\ c.live THEN {1} ELSE {}
  BY <1>2, <1>4 DEF Live
<1>6. ASSUME NEW m, NEW kinds, NEW some, NEW then,
             OneOf(some, Live(calls, m, kinds), Live(job, m, kinds)),
             then = (some /\ ~(c.from = m /\ c.kind \in kinds /\ c.live))
      PROVE  OneOf(then, Live(calls', m, kinds), Live(job', m, kinds))
  BY <1>1, <1>5, <1>6, EmptyLive DEF OneOf
<1>7. "op" \notin BootKind
  BY DEF BootKind
<1>8. ASSUME NEW m \in Nodes PROVE OpServed(m)'
  <2>1. OneOf(st[m] = "wait", Live(calls, m, {"op"}), Live(job, m, {"op"}))
    BY DEF Serving, OpServed
  <2>2. (st'[m] = "wait") = (st[m] = "wait" /\ ~(c.from = m /\ c.kind \in {"op"} /\ c.live))
    BY <1>1, <1>2, <1>3 DEF Answer, Typed, TypeOK
  <2> QED
    BY <1>6, <2>1, <2>2 DEF OpServed
<1>11. c.live /\ c.kind # "op" => boot[c.from] \in {"recovering", "joining"}
  BY <1>1, <1>2, AnsweredWaits
<1>9. ASSUME NEW m \in Nodes PROVE BootServed(m)'
  <2>1. OneOf(boot[m] \in {"recovering", "joining"}, Live(calls, m, BootKind), Live(job, m, BootKind))
    BY DEF Serving, BootServed
  <2>2. (boot'[m] \in {"recovering", "joining"}) =
          (boot[m] \in {"recovering", "joining"} /\ ~(c.from = m /\ c.kind \in BootKind /\ c.live))
    <3>1. CASE c.live /\ c.kind # "op"
      <4>1. boot' = [boot EXCEPT ![c.from] = BootDone(boot[c.from])]
        BY <1>1, <1>2, <3>1 DEF Answer
      <4>2. BootDone(boot[c.from]) \notin {"recovering", "joining"}
        BY <1>11, <3>1 DEF BootDone
      <4>3. c.kind \in BootKind
        BY <1>3, <3>1
      <4> QED
        BY <3>1, <4>1, <4>2, <4>3 DEF Typed, TypeOK
    <3>2. CASE ~(c.live /\ c.kind # "op")
      <4>1. boot' = boot
        BY <1>1, <1>2, <3>2 DEF Answer
      <4>2. ~(c.kind \in BootKind /\ c.live)
        BY <1>7, <3>2
      <4> QED
        BY <4>1, <4>2
    <3> QED
      BY <3>1, <3>2
  <2> QED
    BY <1>6, <2>1, <2>2 DEF BootServed
<1>10. c.live /\ c.kind = "op" => st[c.from] = "wait"
  BY <1>1, <1>2, AnsweredWaits
<1>12. ASSUME NEW m \in Nodes
       PROVE  /\ Redoing(m)' = Redoing(m)
              /\ st'[m] = "down" => st[m] = "down" /\ boot'[m] = boot[m]
  <2>1. CASE c.live /\ c.kind = "op"
    BY <1>1, <1>2, <1>10, <2>1 DEF Answer, Redoing, Typed, TypeOK
  <2>2. CASE c.live /\ c.kind # "op"
    BY <1>1, <1>2, <1>11, <2>2 DEF Answer, Redoing, Typed, TypeOK, Serving, OneJob
  <2>3. CASE ~c.live
    BY <1>1, <1>2, <2>3 DEF Answer, Redoing
  <2> QED
    BY <2>1, <2>2, <2>3
<1> QED
  BY <1>1, <1>8, <1>9, <1>12 DEF Serving, MasterServed, MasterBusy, OneJob, Typed, TypeOK

\* The master no longer waits: its message is given up.
LEMMA MasterTimeoutServing ==
    ASSUME Typed, Serving, MasterTimeout
    PROVE  Serving'
<1>1. PICK n \in Nodes : n = mwait
  BY DEF MasterTimeout, Typed, TypeOK
<1>2. inbox[n] \in Seq(Message) /\ work[n] \in Seq(Message)
  BY DEF Typed, TypeOK
<1>3. /\ inbox' = [inbox EXCEPT ![n] = Dead(inbox[n])]
      /\ work' = IF st[n] = "redo" THEN [work EXCEPT ![n] = Dead(work[n])] ELSE work
      /\ mwait' = "none" /\ UNCHANGED <<st, boot, calls, job>>
  BY <1>1 DEF MasterTimeout, Typed, TypeOK
<1>4. "none" \notin Nodes
  BY ReplicationAssumption
<1>5. MasterServed(n)'
  <2>1. LiveMessages(inbox'[n]) = {}
    BY <1>2, <1>3, DeadFacts DEF Typed, TypeOK
  <2>2. LiveMessages(Redoing(n)') = {}
    <3>1. CASE st[n] = "redo"
      <4>1. Redoing(n)' = Dead(work[n])
        BY <1>3, <3>1 DEF Redoing, Typed, TypeOK
      <4> QED
        BY <1>2, <4>1, DeadFacts
    <3>2. CASE st[n] # "redo"
      <4>1. Redoing(n)' = << >>
        BY <1>3, <3>2 DEF Redoing
      <4> QED
        BY <4>1, EmptyLive
    <3> QED
      BY <3>1, <3>2
  <2>3. LiveMessages(Redoing(n))' = {}
    BY <2>2
  <2> QED
    BY <1>3, <1>4, <2>1, <2>3 DEF MasterServed, OneOf
<1>6. ASSUME NEW m \in Nodes, m # n PROVE MasterServed(m)'
  <2>1. /\ inbox'[m] = inbox[m] /\ Redoing(m)' = Redoing(m)
        /\ mwait' # m /\ mwait # m
    BY <1>1, <1>3, <1>4, <1>6 DEF Redoing, Typed, TypeOK
  <2> QED
    BY <2>1 DEF Serving, MasterServed
<1> QED
  BY <1>3, <1>5, <1>6 DEF Serving, OpServed, BootServed, MasterBusy, OneJob

\* Every step.
LEMMA ServingStep ==
    ASSUME Typed, Serving, [Next]_vars
    PROVE  Serving'
<1>1. ASSUME NEW n \in Nodes, Client(n) PROVE Serving'
  BY <1>1, ClientServing, ForwardServing, TimeoutServing DEF Client
<1>2. ASSUME NEW n \in Nodes, Redo(n) PROVE Serving'
  BY <1>2, RedoLogServing, RedoStoreServing DEF Redo
<1>3. ASSUME NEW n \in Nodes, Start(n) \/ Boot(n) PROVE Serving'
  BY <1>3, StartServing, BootSendServing, TimeoutServing DEF Boot
<1>4. ASSUME NEW i \in DOMAIN calls, AcceptOp(i) \/ AcceptRecovery(i) \/ AcceptJoin(i)
      PROVE  Serving'
  BY <1>4, ReadServing DEF AcceptOp, AcceptRecovery, AcceptJoin
<1>5. CASE Master
  BY <1>4, <1>5, BackupServing, ReplayNextServing, FinishServing, MasterTimeoutServing DEF Master
<1>6. ASSUME NEW n \in Nodes, Expire(n) PROVE Serving'
  BY <1>6, IdleServing DEF Expire, nodeVars
<1>7. CASE Flush \/ MasterStart \/ UNCHANGED vars
  BY <1>7, IdleServing DEF Flush, MasterStart, vars, nodeVars, masterVars
<1>8. Writers \subseteq Nodes
  BY ReplicationAssumption
<1> QED
  BY <1>1, <1>2, <1>3, <1>5, <1>6, <1>7, <1>8, CrashServing, MasterCrashServing DEF Next

\* The start: nobody waits.
LEMMA InitServing ==
    ASSUME Init
    PROVE  Serving
<1>1. /\ \A n \in Nodes : /\ st[n] = IF InTeam(n) THEN "idle" ELSE "down"
                          /\ boot[n] = IF InTeam(n) THEN "up" ELSE "off"
                          /\ inbox[n] = << >> /\ work[n] = << >>
      /\ calls = << >> /\ job = << >> /\ mwait = "none"
  BY DEF Init
<1>2. "none" \notin Nodes
  BY ReplicationAssumption
<1>3. ASSUME NEW n \in Nodes PROVE OpServed(n) /\ BootServed(n) /\ MasterServed(n)
  BY <1>1, <1>2, EmptyLive DEF OpServed, BootServed, MasterServed, OneOf, Redoing
<1> QED
  BY <1>1, <1>3 DEF Serving, MasterBusy, OneJob

\* Waiting and serving belong together in every state.
LEMMA ServingAlways == Spec => [](Typed /\ Serving)
BY InitTyped, InitServing, TypedStep, ServingStep, PTL DEF Spec

\* Who waits for an answer waits for one that is under way, and nobody else
\* gets it, whatever crashed, restarted or timed out in between.
THEOREM WaitersServedAlways == Spec => []WaitersServed
<1>1. Serving => WaitersServed
  BY DEF Serving, OpServed, BootServed, MasterServed, MasterBusy, WaitersServed
<1> QED
  BY <1>1, ServingAlways, PTL

-----------------------------------------------------------------------------
(***************************************************************************)
(* The log of a node tells its database.                                   *)
(***************************************************************************)

\* What the log says, and what it says of a node that has stored but not
\* logged, or logged but not stored.
Said(n) == Replay(EmptyDb(Queues), log[n])
Told(n) ==
    /\ st[n] = "stored" => db[n] = Apply(Said(n), work[n][1].op)
    /\ st[n] = "redo" => Said(n) = Apply(db[n], work[n][1].op)
    /\ st[n] \notin {"stored", "redo"} => Said(n) = db[n]

Telling == \A n \in Nodes \ torn : Told(n)

\* A step that leaves log and database alone.
LEMMA ToldStill ==
    ASSUME NEW n, Told(n), log'[n] = log[n], db'[n] = db[n],
           \/ {st[n], st'[n]} \cap {"stored", "redo"} = {}
           \/ st'[n] = st[n] /\ work'[n][1].op = work[n][1].op
    PROVE  Told(n)'
<1>1. Said(n)' = Said(n)
  BY DEF Said
<1>2. CASE {st[n], st'[n]} \cap {"stored", "redo"} = {}
  BY <1>1, <1>2 DEF Told
<1>3. CASE st'[n] = st[n] /\ work'[n][1].op = work[n][1].op
  BY <1>1, <1>3 DEF Told
<1> QED
  BY <1>2, <1>3

\* A node logs an operation.
LEMMA SaidMore ==
    ASSUME Typed, NEW n \in Nodes, NEW op \in Op,
           log' = [log EXCEPT ![n] = Append(@, op)]
    PROVE  Said(n)' = Apply(Said(n), op)
<1>1. log[n] \in Seq(Op) /\ log'[n] = Append(log[n], op)
  BY DEF Typed, TypeOK
<1>2. Replay(EmptyDb(Queues), Append(log[n], op)) = Apply(Replay(EmptyDb(Queues), log[n]), op)
  BY <1>1, ReplayAppend
<1> QED
  BY <1>1, <1>2 DEF Said

\* A node serves a client: stored first, then logged.
LEMMA ClientTelling ==
    ASSUME Typed, Telling, NEW n \in Nodes, Client(n)
    PROVE  Telling'
<1>1. ASSUME NEW op \in ClientOps(n), ClientRequest(n, op) PROVE Telling'
  <2>1. /\ st[n] = "idle" /\ st' = [st EXCEPT ![n] = "stored"]
        /\ db' = [db EXCEPT ![n] = Apply(db[n], op)]
        /\ work' = [work EXCEPT ![n] = <<[op |-> op, live |-> TRUE]>>]
        /\ log' = log /\ torn' = torn
    BY <1>1 DEF ClientRequest
  <2>2. PICK w : w = <<[op |-> op, live |-> TRUE]>>
    OBVIOUS
  <2>3. w[1].op = op
    BY <2>2
  <2>4. n \notin torn => Told(n)'
    <3>1. work'[n] = w /\ st'[n] = "stored" /\ db'[n] = Apply(db[n], op)
      BY <2>1, <2>2 DEF Typed, TypeOK
    <3>2. n \notin torn => Said(n)' = db[n]
      BY <2>1 DEF Telling, Told, Said
    <3> QED
      BY <2>3, <3>1, <3>2 DEF Told
  <2>5. ASSUME NEW m \in Nodes, m # n, m \notin torn PROVE Told(m)'
    BY <2>1, <2>5, ToldStill DEF Telling, Typed, TypeOK
  <2> QED
    BY <2>1, <2>4, <2>5 DEF Telling
<1>2. CASE ClientLog(n)
  <2>1. /\ st[n] = "stored" /\ st' = [st EXCEPT ![n] = "logged"]
        /\ log' = [log EXCEPT ![n] = Append(@, work[n][1].op)]
        /\ db' = db /\ work' = work /\ torn' = torn
    BY <1>2 DEF ClientLog, bounds
  <2>2. n \notin torn => Told(n)'
    <3>1. st'[n] = "logged" /\ Said(n)' = Apply(Said(n), work[n][1].op)
      BY <2>1, WorkFacts, SaidMore DEF Typed, TypeOK
    <3> QED
      BY <2>1, <3>1 DEF Telling, Told
  <2>3. ASSUME NEW m \in Nodes, m # n, m \notin torn PROVE Told(m)'
    BY <2>1, <2>3, ToldStill DEF Telling, Typed, TypeOK
  <2> QED
    BY <2>1, <2>2, <2>3 DEF Telling
<1>3. CASE ClientAlone(n) \/ ClientForward(n) \/ ClientTimeout(n)
  <2>1. /\ UNCHANGED <<db, log, torn>>
        /\ st[n] \in {"logged", "wait"} /\ st'[n] \in {"idle", "wait"}
        /\ \A m \in Nodes : m # n => st'[m] = st[m] /\ work'[m] = work[m]
    BY <1>3 DEF ClientAlone, ClientForward, ClientTimeout, bounds, Typed, TypeOK
  <2>2. ASSUME NEW m \in Nodes, m \notin torn PROVE Told(m)'
    <3>1. Told(m)
      BY <2>2 DEF Telling
    <3> QED
      BY <2>1, <3>1, ToldStill
  <2> QED
    BY <2>1, <2>2 DEF Telling
<1> QED
  BY <1>1, <1>2, <1>3 DEF Client

\* A node redoes an operation: logged first, then stored.
LEMMA RedoTelling ==
    ASSUME Typed, Telling, NEW n \in Nodes, Redo(n)
    PROVE  Telling'
<1>1. ASSUME NEW i \in DOMAIN inbox[n], RedoLog(n, i) PROVE Telling'
  <2>1. PICK e \in Message : e = inbox[n][i]
    <3>1. inbox[n] \in Seq(Message)
      BY DEF Typed, TypeOK
    <3> QED
      BY <3>1
  <2>2. /\ st[n] = "idle" /\ st' = [st EXCEPT ![n] = "redo"]
        /\ log' = [log EXCEPT ![n] = Append(@, e.op)]
        /\ work' = [work EXCEPT ![n] = <<e>>]
        /\ db' = db /\ torn' = torn
    BY <1>1, <2>1 DEF RedoLog, bounds
  <2>3. n \notin torn => Told(n)'
    <3>1. e.op \in Op
      BY DEF Message
    <3>2. Said(n)' = Apply(Said(n), e.op)
      BY <2>2, <3>1, SaidMore
    <3>3. st'[n] = "redo" /\ work'[n][1] = e
      BY <2>2 DEF Typed, TypeOK
    <3> QED
      BY <2>2, <3>2, <3>3 DEF Telling, Told
  <2>4. ASSUME NEW m \in Nodes, m # n, m \notin torn PROVE Told(m)'
    BY <2>2, <2>4, ToldStill DEF Telling, Typed, TypeOK
  <2> QED
    BY <2>2, <2>3, <2>4 DEF Telling
<1>2. CASE RedoStore(n)
  <2>1. /\ st[n] = "redo" /\ st' = [st EXCEPT ![n] = "idle"]
        /\ db' = [db EXCEPT ![n] = Apply(@, work[n][1].op)]
        /\ work' = [work EXCEPT ![n] = << >>]
        /\ log' = log /\ torn' = torn
    BY <1>2 DEF RedoStore, bounds
  <2>2. n \notin torn => Told(n)'
    <3>1. st'[n] = "idle" /\ db'[n] = Apply(db[n], work[n][1].op) /\ Said(n)' = Said(n)
      BY <2>1 DEF Typed, TypeOK, Said
    <3> QED
      BY <2>1, <3>1 DEF Telling, Told
  <2>3. ASSUME NEW m \in Nodes, m # n, m \notin torn PROVE Told(m)'
    BY <2>1, <2>3, ToldStill DEF Telling, Typed, TypeOK
  <2> QED
    BY <2>1, <2>2, <2>3 DEF Telling
<1> QED
  BY <1>1, <1>2 DEF Redo

\* A node starts or goes down.  One that goes down between storing and logging
\* is torn.
LEMMA StartTelling ==
    ASSUME Typed, Telling, NEW n \in Nodes, Start(n) \/ Crash(n)
    PROVE  Telling'
<1>1. /\ UNCHANGED <<db, log>> /\ torn \subseteq torn'
      /\ \A m \in Nodes : m # n => st'[m] = st[m] /\ work'[m] = work[m]
      /\ st'[n] \in {"idle", "down"}
      /\ n \notin torn' => st[n] \notin {"stored", "redo"}
  BY DEF Start, Crash, bounds, Typed, TypeOK
<1>2. ASSUME NEW m \in Nodes, m \notin torn' PROVE Told(m)'
  <2>1. Told(m)
    BY <1>1, <1>2 DEF Telling
  <2> QED
    BY <1>1, <1>2, <2>1, ToldStill
<1> QED
  BY <1>2 DEF Telling

\* The master goes down or gives up, and the nodes it waits for do not notice.
LEMMA GiveUpTelling ==
    ASSUME Typed, Telling, MasterCrash \/ MasterTimeout
    PROVE  Telling'
<1>1. /\ UNCHANGED <<db, log, torn>>
      /\ \A m \in Nodes :
           /\ st'[m] = IF st[m] = "wait" THEN st'[m] ELSE st[m]
           /\ st[m] = "wait" => st'[m] \in {"wait", "idle"}
           /\ work'[m] \in {work[m], Dead(work[m]), << >>}
           /\ st[m] # "wait" => work'[m] \in {work[m], Dead(work[m])}
  <2>1. CASE MasterCrash
    BY <2>1 DEF MasterCrash
  <2>2. CASE MasterTimeout
    <3>1. /\ UNCHANGED <<db, log, torn, st>>
          /\ work' = IF st[mwait] = "redo" THEN [work EXCEPT ![mwait] = Dead(work[mwait])] ELSE work
      BY <2>2 DEF MasterTimeout, bounds
    <3>2. \A m \in Nodes : work'[m] \in {work[m], Dead(work[m])}
      BY <3>1 DEF Typed, TypeOK
    <3> QED
      BY <3>1, <3>2
  <2> QED
    BY <2>1, <2>2
<1>2. ASSUME NEW m \in Nodes, m \notin torn' PROVE Told(m)'
  <2>1. Told(m)
    BY <1>1, <1>2 DEF Telling
  <2>2. CASE st[m] \in {"stored", "redo"}
    <3>1. work[m] \in Seq(Message) /\ Len(work[m]) = 1
      BY <2>2 DEF Typed, TypeOK, WorksOnOne
    <3>2. work[m][1] \in Message /\ Dead(work[m])[1] = [work[m][1] EXCEPT !.live = FALSE]
      BY <3>1, DeadFacts
    <3>3. Dead(work[m])[1].op = work[m][1].op
      BY <3>2 DEF Message
    <3>4. work'[m][1].op = work[m][1].op /\ st'[m] = st[m]
      BY <1>1, <2>2, <3>3
    <3> QED
      BY <1>1, <2>1, <3>4, ToldStill
  <2>3. CASE st[m] \notin {"stored", "redo"}
    <3>1. {st[m], st'[m]} \cap {"stored", "redo"} = {}
      BY <1>1, <2>3
    <3> QED
      BY <1>1, <2>1, <3>1, ToldStill
  <2> QED
    BY <2>2, <2>3
<1> QED
  BY <1>2 DEF Telling

\* The master answers the client's node; it gets only what it waits for.
LEMMA FinishTelling ==
    ASSUME Typed, Serving, Telling, Finish
    PROVE  Telling'
<1>1. PICK c \in Request : c = job[1] /\ Answer(c) /\ job # << >>
  <2>1. job \in Seq(Request) /\ job # << >> /\ Answer(job[1])
    BY DEF Finish, AtBackup, AtReplay, Typed, TypeOK
  <2> QED
    BY <2>1
<1>2. c.from \in Nodes /\ UNCHANGED <<db, log, torn>>
  BY RequestFacts DEF Finish, bounds
<1>3. c.live /\ c.kind = "op" => st[c.from] = "wait"
  BY <1>1, AnsweredWaits
<1>4. \A m \in Nodes : \/ st'[m] = st[m] /\ work'[m] = work[m]
                       \/ st[m] = "wait" /\ st'[m] = "idle"
  BY <1>1, <1>2, <1>3 DEF Answer, Typed, TypeOK
<1>5. ASSUME NEW m \in Nodes, m \notin torn' PROVE Told(m)'
  <2>1. Told(m)
    BY <1>2, <1>5 DEF Telling
  <2> QED
    BY <1>2, <1>4, <2>1, ToldStill
<1> QED
  BY <1>5 DEF Telling

\* A step that leaves logs, databases and states alone.
LEMMA StillTelling ==
    ASSUME Telling, UNCHANGED <<db, log, st, work, torn>>
    PROVE  Telling'
BY DEF Telling, Told, Said

\* Every step.
LEMMA TellingStep ==
    ASSUME Typed, Serving, Telling, [Next]_vars
    PROVE  Telling'
<1>1. Writers \subseteq Nodes
  BY ReplicationAssumption
<1>2. ASSUME NEW n \in Nodes, Boot(n) \/ Expire(n) PROVE Telling'
  BY <1>2, StillTelling DEF Boot, SendRecovery, SendJoin, BootAlone, BootTimeout, Expire,
                            nodeVars, bounds
<1>3. CASE Master
  <2>1. ASSUME NEW i \in DOMAIN calls, AcceptOp(i) \/ AcceptRecovery(i) \/ AcceptJoin(i)
        PROVE  Telling'
    BY <2>1, StillTelling DEF AcceptOp, AcceptRecovery, AcceptJoin, nodeVars, bounds
  <2>2. CASE Backup \/ ReplayNext
    BY <2>2, StillTelling DEF Backup, ReplayNext, bounds
  <2> QED
    BY <1>3, <2>1, <2>2, FinishTelling, GiveUpTelling DEF Master
<1>4. CASE Flush \/ MasterStart \/ UNCHANGED vars
  BY <1>4, StillTelling DEF Flush, MasterStart, nodeVars, bounds, vars
<1> QED
  BY <1>1, <1>2, <1>3, <1>4, ClientTelling, RedoTelling, StartTelling, GiveUpTelling DEF Next

\* The start: the prelude is in every log and in every database.
LEMMA InitTelling ==
    ASSUME Init
    PROVE  Telling
<1>1. ASSUME NEW n \in Nodes PROVE Told(n)
  <2>1. db[n] = Said(n) /\ st[n] \in {"idle", "down"}
    BY DEF Init, Said
  <2> QED
    BY <2>1 DEF Told
<1> QED
  BY <1>1 DEF Telling

\* The database of a node between two requests is what its log says, however
\* the operations of its own clients and of other nodes alternate, repeat and
\* fail, and across crashes.
THEOREM LogTellsDbAlways == Spec => []LogTellsDb
<1>1. Telling => LogTellsDb
  BY DEF Telling, Told, Said, LogTellsDb
<1>2. Init => Typed /\ Serving /\ Telling
  BY InitTyped, InitServing, InitTelling
<1>3. Typed /\ Serving /\ Telling /\ [Next]_vars => (Typed /\ Serving /\ Telling)'
  BY TypedStep, ServingStep, TellingStep
<1> QED
  BY <1>1, <1>2, <1>3, PTL DEF Spec

-----------------------------------------------------------------------------
(***************************************************************************)
(* A step without timeouts and without the end of the master takes nobody  *)
(* from the team that runs and has joined.                                 *)
(***************************************************************************)
\* A step in which nobody gives up, and nobody that runs is taken for dead.
Smooth == ~Timeouts /\ ~MasterCrash /\ (Hangs => crashes' = crashes)

\* The master has n in its team and will not take it for dead.
Joined(n) == st[n] # "down" /\ n \in watched /\ n \in ToSet(mDataNodes)

\* The boot thread of n waits for what it has asked last.
Awaited(n) == IF boot[n] = "joining" THEN "join" ELSE "recovery"
Asked(s, n) == \A i \in Live(s, n, BootKind) : s[i].kind = Awaited(n)

JoinRead(n) == Live(job, n, {"join"}) # {}

Teamed ==
    /\ running
    /\ \A n \in Nodes : /\ boot[n] = "up" \/ JoinRead(n) => Joined(n)
                        /\ Asked(calls, n) /\ Asked(job, n)

\* The elements of a sequence, when one comes and when one goes.
LEMMA ToSetFacts ==
    ASSUME NEW S, NEW s \in Seq(S)
    PROVE  /\ \A e \in S : ToSet(Append(s, e)) = ToSet(s) \cup {e}
           /\ \A i \in DOMAIN s : \A e \in ToSet(s) : e # s[i] => e \in ToSet(RemoveAt(s, i))
<1>1. ASSUME NEW e \in S PROVE ToSet(Append(s, e)) = ToSet(s) \cup {e}
  <2>1. PICK t : t = Append(s, e)
    OBVIOUS
  <2>2. /\ DOMAIN t = 1..(Len(s) + 1) /\ DOMAIN s = 1..Len(s)
        /\ t[Len(s) + 1] = e /\ \A j \in 1..Len(s) : t[j] = s[j]
    BY <2>1
  <2> QED
    BY <2>1, <2>2 DEF ToSet
<1>2. ASSUME NEW i \in DOMAIN s, NEW e \in ToSet(s), e # s[i]
      PROVE  e \in ToSet(RemoveAt(s, i))
  <2>1. PICK h \in DOMAIN s : s[h] = e
    BY <1>2 DEF ToSet
  <2>2. PICK t : t = RemoveAt(s, i)
    OBVIOUS
  <2>3. /\ t \in Seq(S) /\ Len(t) = Len(s) - 1 /\ Len(s) \in Nat
        /\ \A j \in 1..(Len(s) - 1) : t[j] = s[IF j < i THEN j ELSE j + 1]
    BY <2>2, RemovedFacts
  <2>4. h \in 1..Len(s) /\ i \in 1..Len(s) /\ h # i
    BY <1>2, <2>1
  <2>5. PICK g : g = IF h < i THEN h ELSE h - 1
    OBVIOUS
  <2>6. g \in 1..(Len(s) - 1) /\ (IF g < i THEN g ELSE g + 1) = h
    BY <2>3, <2>4, <2>5
  <2>7. t[g] = e /\ g \in DOMAIN t
    BY <2>1, <2>3, <2>6
  <2> QED
    BY <2>2, <2>7 DEF ToSet
<1> QED
  BY <1>1, <1>2

\* A step that takes nobody from the team and asks and answers nothing.
LEMMA TeamStill ==
    ASSUME Teamed, UNCHANGED <<running, boot, calls, job>>, watched \subseteq watched',
           \A n \in Nodes : /\ st'[n] = "down" => st[n] = "down"
                            /\ n \in ToSet(mDataNodes) => n \in ToSet(mDataNodes')
    PROVE  Teamed'
BY DEF Teamed, Joined, Asked, Awaited, JoinRead

\* The event loop asks nothing of the master but one thing ...
LEMMA LoopTeamed ==
    ASSUME Typed, Teamed, NEW n \in Nodes,
           \/ \E op \in ClientOps(n) : ClientRequest(n, op)
           \/ ClientLog(n) \/ ClientAlone(n) \/ Redo(n)
    PROVE  Teamed'
<1>1. /\ UNCHANGED <<running, boot, calls, job, watched, mDataNodes>>
      /\ \E v \in NodeState \ {"down"} : st' = [st EXCEPT ![n] = v]
  BY DEF ClientRequest, ClientLog, ClientAlone, Redo, RedoLog, RedoStore, masterVars, bounds,
         NodeState
<1>2. \A m \in Nodes : st'[m] = "down" => st[m] = "down"
  BY <1>1 DEF Typed, TypeOK
<1> QED
  BY <1>1, <1>2, TeamStill

\* ... which is not about the team.
LEMMA ForwardTeamed ==
    ASSUME Typed, Teamed, NEW n \in Nodes, ClientForward(n)
    PROVE  Teamed'
<1>1. PICK r : r = [from |-> n, kind |-> "op", op |-> work[n][1].op, size |-> 0, live |-> TRUE]
  OBVIOUS
<1>2. /\ r \in Request /\ r.live /\ r.from = n /\ r.kind = "op"
      /\ calls' = Append(calls, r) /\ calls \in Seq(Request)
      /\ st[n] = "logged" /\ st' = [st EXCEPT ![n] = "wait"]
      /\ UNCHANGED <<running, boot, job, watched, mDataNodes>>
  BY <1>1, WorkFacts DEF Request, ClientForward, bounds, Typed, TypeOK
<1>3. \A m \in Nodes : st'[m] = "down" => st[m] = "down"
  BY <1>2 DEF Typed, TypeOK
<1>4. ASSUME NEW m \in Nodes PROVE Asked(calls, m)'
  <2>1. Live(calls', m, BootKind) = Live(calls, m, BootKind)
    <3>1. r.kind \notin BootKind
      BY <1>2 DEF BootKind
    <3>2. Live(Append(calls, r), m, BootKind) = Live(calls, m, BootKind) \cup {}
      <4>1. r \in Request /\ r.live /\ calls \in Seq(Request)
        BY <1>2
      <4>2. Live(Append(calls, r), m, BootKind) =
              Live(calls, m, BootKind)
                \cup (IF r.from = m /\ r.kind \in BootKind THEN {Len(calls) + 1} ELSE {})
        BY <4>1, LiveAppended
      <4> QED
        BY <3>1, <4>2
    <3> QED
      BY <1>2, <3>2
  <2>2. \A i \in DOMAIN calls : calls'[i] = calls[i]
    BY <1>2
  <2>3. Awaited(m)' = Awaited(m) /\ Asked(calls, m)
    BY <1>2 DEF Awaited, Teamed
  <2> QED
    BY <2>1, <2>2, <2>3 DEF Asked, Live
<1>5. \A m \in Nodes : Asked(job, m)' /\ (JoinRead(m)' <=> JoinRead(m))
  BY <1>2 DEF Asked, Awaited, Teamed, JoinRead
<1> QED
  BY <1>2, <1>3, <1>4, <1>5 DEF Teamed, Joined

\* The boot thread asks for something: it is all that it waits for.
LEMMA AskTeamed ==
    ASSUME Typed, Serving, Teamed, NEW n \in Nodes, SendRecovery(n) \/ SendJoin(n)
    PROVE  Teamed'
<1>1. PICK r : /\ calls' = Append(calls, r)
               /\ \/ /\ r = [from |-> n, kind |-> "recovery", op |-> NoOp, size |-> Len(log[n]),
                             live |-> TRUE]
                     /\ boot' = [boot EXCEPT ![n] = "recovering"]
                  \/ /\ r = [from |-> n, kind |-> "join", op |-> NoOp, size |-> 0, live |-> TRUE]
                     /\ boot' = [boot EXCEPT ![n] = "joining"]
  BY DEF SendRecovery, SendJoin
<1>2. /\ r \in Request /\ r.live /\ r.from = n /\ r.kind \in BootKind
      /\ boot'[n] = (IF r.kind = "join" THEN "joining" ELSE "recovering")
      /\ r.kind \in {"join", "recovery"}
      /\ \A m \in Nodes : m # n => boot'[m] = boot[m]
  <2>1. Len(log[n]) \in Nat
    BY DEF Typed, TypeOK
  <2>2. r \in [from : Nodes, kind : BootKind, op : {NoOp}, size : Nat, live : BOOLEAN]
    <3>1. CASE r = [from |-> n, kind |-> "recovery", op |-> NoOp, size |-> Len(log[n]), live |-> TRUE]
      BY <2>1, <3>1 DEF BootKind
    <3>2. CASE r = [from |-> n, kind |-> "join", op |-> NoOp, size |-> 0, live |-> TRUE]
      BY <3>2 DEF BootKind
    <3> QED
      BY <1>1, <3>1, <3>2
  <2>3. r.live /\ r.from = n /\ r.kind \in {"join", "recovery"}
    BY <1>1
  <2>4. /\ boot'[n] = (IF r.kind = "join" THEN "joining" ELSE "recovering")
        /\ \A m \in Nodes : m # n => boot'[m] = boot[m]
    BY <1>1 DEF Typed, TypeOK
  <2> QED
    BY <2>2, <2>3, <2>4 DEF Request, BootKind
<1>3. /\ boot[n] \notin {"recovering", "joining"} /\ calls \in Seq(Request)
      /\ UNCHANGED <<running, st, job, watched, mDataNodes>>
  BY DEF SendRecovery, SendJoin, bounds, Typed, TypeOK
<1>4. Live(calls, n, BootKind) = {} /\ Live(job, n, BootKind) = {}
  BY <1>3 DEF Serving, BootServed, OneOf
<1>5. ASSUME NEW m \in Nodes PROVE Asked(calls, m)' /\ Asked(job, m)'
  <2>1. Live(calls', m, BootKind) =
          Live(calls, m, BootKind) \cup (IF m = n THEN {Len(calls) + 1} ELSE {})
    BY <1>1, <1>2, <1>3, LiveAppended
  <2>2. /\ \A i \in DOMAIN calls : calls'[i] = calls[i]
        /\ calls'[Len(calls) + 1] = r
    BY <1>1, <1>2, <1>3
  <2>3. CASE m = n
    <3>1. Awaited(n)' = r.kind
      BY <1>2 DEF Awaited
    <3> QED
      BY <1>3, <1>4, <2>1, <2>2, <2>3, <3>1 DEF Asked
  <2>4. CASE m # n
    <3>1. Awaited(m)' = Awaited(m) /\ Asked(calls, m) /\ Asked(job, m)
      BY <1>2, <2>4 DEF Awaited, Teamed
    <3> QED
      BY <1>3, <2>1, <2>2, <2>4, <3>1 DEF Asked, Live
  <2> QED
    BY <2>3, <2>4
<1>6. ASSUME NEW m \in Nodes, boot'[m] = "up" \/ JoinRead(m)' PROVE Joined(m)'
  <2>1. boot[m] = "up" \/ JoinRead(m)
    BY <1>2, <1>3, <1>6 DEF JoinRead
  <2> QED
    BY <1>3, <2>1 DEF Teamed, Joined
<1> QED
  BY <1>3, <1>5, <1>6 DEF Teamed

\* A node starts or goes down: nobody serves its boot thread.
LEMMA OffTeamed ==
    ASSUME Typed, Serving, Teamed, NEW n \in Nodes, Start(n) \/ Crash(n)
    PROVE  Teamed'
<1>1. /\ UNCHANGED <<running, mDataNodes>>
      /\ boot'[n] \in {"start", "off"}
      /\ \A m \in Nodes : m # n /\ m \in watched => m \in watched'
      /\ \A m \in Nodes : m # n => st'[m] = st[m] /\ boot'[m] = boot[m]
  BY DEF Start, Crash, bounds, masterVars, Typed, TypeOK
<1>2. Serving'
  BY StartServing, CrashServing
<1>3. Live(calls', n, BootKind) = {} /\ Live(job', n, BootKind) = {}
  BY <1>1, <1>2 DEF Serving, BootServed, OneOf
<1>4. Asked(calls, n)' /\ Asked(job, n)' /\ ~JoinRead(n)'
  BY <1>3 DEF Asked, JoinRead, Live, BootKind
<1>5. ASSUME NEW m \in Nodes, m # n, NEW kinds
      PROVE  /\ \A i \in Live(job', m, kinds) : i \in Live(job, m, kinds) /\ job'[i] = job[i]
             /\ \A i \in Live(calls', m, kinds) :
                  \E j \in Live(calls, m, kinds) : calls'[i] = calls[j]
  <2>1. CASE Start(n)
    BY <2>1 DEF Start, masterVars
  <2>2. ASSUME NEW given, NEW s \in Seq(Request)
        PROVE  \A i \in Live(GiveUp(s, n, given), m, kinds) :
                 i \in Live(s, m, kinds) /\ GiveUp(s, n, given)[i] = s[i]
    <3>1. PICK t : t = GiveUp(s, n, given)
      OBVIOUS
    <3>2. /\ DOMAIN t = DOMAIN s
          /\ \A i \in DOMAIN s : t[i] = IF s[i].from = n /\ s[i].kind \in given
                                      THEN [s[i] EXCEPT !.live = FALSE] ELSE s[i]
      BY <3>1, GiveUpFacts
    <3>3. \A i \in DOMAIN s : [s[i] EXCEPT !.live = FALSE].live = FALSE
      <4>1. \A i \in DOMAIN s : s[i] \in Request
        OBVIOUS
      <4> QED
        BY <4>1, RequestFacts
    <3>4. \A i \in Live(t, m, kinds) : i \in Live(s, m, kinds) /\ t[i] = s[i]
      BY <3>2, <3>3 DEF Live
    <3> QED
      BY <3>1, <3>4
  <2>3. CASE Crash(n)
    <3>1. PICK all : /\ job' = GiveUp(job, n, all)
                     /\ calls' \in {GiveUp(calls, n, all), OfOthers(calls, n)}
      BY <2>3 DEF Crash
    <3>2. calls \in Seq(Request) /\ job \in Seq(Request)
      BY DEF Typed, TypeOK
    <3>3. CASE calls' = GiveUp(calls, n, all)
      BY <2>2, <3>1, <3>2, <3>3
    <3>4. CASE calls' = OfOthers(calls, n)
      <4>1. \A i \in DOMAIN calls' : \E j \in DOMAIN calls : calls'[i] = calls[j]
        BY <3>2, <3>4, OthersFacts
      <4>2. \A i \in Live(calls', m, kinds) :
              \E j \in Live(calls, m, kinds) : calls'[i] = calls[j]
        BY <4>1 DEF Live
      <4> QED
        BY <2>2, <3>1, <3>2, <4>2
    <3> QED
      BY <3>1, <3>3, <3>4
  <2> QED
    BY <2>1, <2>3
<1>6. ASSUME NEW m \in Nodes, m # n
      PROVE  Asked(calls, m)' /\ Asked(job, m)' /\ (JoinRead(m)' => JoinRead(m))
  <2>1. Awaited(m)' = Awaited(m) /\ Asked(calls, m) /\ Asked(job, m)
    BY <1>1, <1>6 DEF Awaited, Teamed
  <2> QED
    BY <1>5, <1>6, <2>1 DEF Asked, JoinRead
<1> QED
  BY <1>1, <1>4, <1>6 DEF Teamed, Joined

\* The master reads a request.
LEMMA ReadTeamed ==
    ASSUME Typed, Serving, Teamed, NEW i \in DOMAIN calls,
           AcceptOp(i) \/ AcceptRecovery(i) \/ AcceptJoin(i)
    PROVE  Teamed'
<1>1. PICK c \in Request : c = calls[i]
  <2>1. calls \in Seq(Request)
    BY DEF Typed, TypeOK
  <2> QED
    BY <2>1
<1>2. c.from \in Nodes
  BY RequestFacts
<1>3. /\ job' = <<c>> /\ calls' = RemoveAt(calls, i) /\ calls \in Seq(Request)
      /\ UNCHANGED <<running, st, boot>>
      /\ \/ c.kind # "join" /\ UNCHANGED <<watched, mDataNodes>>
         \/ /\ watched' = watched \cup {c.from}
            /\ mDataNodes' = Append(mDataNodes, c.from)
  BY <1>1 DEF AcceptOp, AcceptRecovery, AcceptJoin, Read, nodeVars, bounds, Typed, TypeOK
<1>4. /\ watched \subseteq watched'
      /\ \A n \in Nodes : n \in ToSet(mDataNodes) => n \in ToSet(mDataNodes')
      /\ c.kind = "join" => c.from \in watched' /\ c.from \in ToSet(mDataNodes')
  <2>1. mDataNodes \in Seq(Nodes)
    BY DEF Typed, TypeOK
  <2>2. ToSet(Append(mDataNodes, c.from)) = ToSet(mDataNodes) \cup {c.from}
    BY <1>2, <2>1, ToSetFacts
  <2> QED
    BY <1>3, <2>2
<1>5. ASSUME NEW m \in Nodes, NEW kinds
      PROVE  /\ \A h \in Live(job', m, kinds) : i \in Live(calls, m, kinds) /\ job'[h] = calls[i]
             /\ \A h \in Live(calls', m, kinds) :
                  \E j \in Live(calls, m, kinds) : calls'[h] = calls[j]
  <2>1. /\ \A h \in 1..(Len(calls) - 1) : calls'[h] = calls[IF h < i THEN h ELSE h + 1]
        /\ DOMAIN calls' = 1..(Len(calls) - 1) /\ Len(calls) \in Nat
        /\ DOMAIN calls = 1..Len(calls)
    <3>1. PICK t : t = RemoveAt(calls, i)
      OBVIOUS
    <3>2. calls \in Seq(Request)
      BY <1>3
    <3>3. /\ t \in Seq(Request) /\ Len(t) = Len(calls) - 1
          /\ \A h \in 1..(Len(calls) - 1) : t[h] = calls[IF h < i THEN h ELSE h + 1]
      BY <3>1, <3>2, RemovedFacts
    <3>4. DOMAIN t = 1..(Len(calls) - 1) /\ Len(calls) \in Nat /\ DOMAIN calls = 1..Len(calls)
      BY <3>2, <3>3
    <3> QED
      BY <1>3, <3>1, <3>3, <3>4
  <2>2. \A h \in DOMAIN calls' : \E j \in DOMAIN calls : calls'[h] = calls[j]
    BY <2>1
  <2>3. DOMAIN job' = {1} /\ job'[1] = calls[i]
    BY <1>1, <1>3
  <2> QED
    BY <2>2, <2>3 DEF Live
<1>6. ASSUME NEW m \in Nodes PROVE Asked(calls, m)' /\ Asked(job, m)'
  <2>1. Awaited(m)' = Awaited(m) /\ Asked(calls, m)
    BY <1>3 DEF Awaited, Teamed
  <2> QED
    BY <1>5, <2>1 DEF Asked
<1>7. ASSUME NEW m \in Nodes, JoinRead(m)' PROVE c.from = m /\ c.kind = "join" /\ c.live
  <2>1. PICK h : h \in Live(job', m, {"join"})
    BY <1>7 DEF JoinRead
  <2>2. i \in Live(calls, m, {"join"})
    BY <1>5, <2>1
  <2> QED
    BY <1>1, <2>2 DEF Live
<1>8. ASSUME NEW m \in Nodes, JoinRead(m)' PROVE st[m] # "down"
  <2>1. c.from = m /\ c.kind \in BootKind /\ c.live
    BY <1>7, <1>8 DEF BootKind
  <2>2. i \in Live(calls, m, BootKind)
    BY <1>1, <2>1 DEF Live
  <2>3. boot[m] \in {"recovering", "joining"}
    BY <2>2 DEF Serving, BootServed, OneOf
  <2> QED
    BY <2>3 DEF Serving, OneJob
<1>9. ASSUME NEW m \in Nodes, boot'[m] = "up" \/ JoinRead(m)' PROVE Joined(m)'
  <2>1. CASE boot'[m] = "up"
    BY <1>3, <1>4, <2>1 DEF Teamed, Joined
  <2>2. CASE JoinRead(m)'
    BY <1>3, <1>4, <1>7, <1>8, <2>2 DEF Joined
  <2> QED
    BY <1>9, <2>1, <2>2
<1> QED
  BY <1>3, <1>6, <1>9 DEF Teamed

\* The master takes for dead only nodes that are down.
LEMMA BackupTeamed ==
    ASSUME Smooth, Typed, Teamed, Backup
    PROVE  Teamed'
<1>1. PICK alive \in SeenAlive(mDataNodes[mi]) :
        /\ mDataNodes' = IF alive THEN mDataNodes ELSE RemoveAt(mDataNodes, mi)
        /\ watched' = IF alive THEN watched ELSE watched \ {mDataNodes[mi]}
        /\ crashes' = IF ~alive /\ st[mDataNodes[mi]] # "down" /\ mDataNodes[mi] \in watched
                      THEN crashes + 1 ELSE crashes
  BY DEF Backup
<1>2. /\ UNCHANGED <<running, st, boot, calls, job>>
      /\ mDataNodes \in Seq(Nodes) /\ mi \in DOMAIN mDataNodes
  <2>1. /\ UNCHANGED <<running, st, boot, calls, job>> /\ mi <= Len(mDataNodes)
        /\ mDataNodes \in Seq(Nodes) /\ mi \in Nat \ {0}
    BY DEF Backup, Typed, TypeOK
  <2> QED
    BY <2>1
<1>3. crashes + 1 # crashes
  BY DEF Typed, TypeOK
<1>4. ASSUME NEW m \in Nodes, Joined(m) PROVE Joined(m)'
  <2>1. CASE alive
    BY <1>1, <1>2, <1>4, <2>1 DEF Joined
  <2>2. CASE ~alive
    <3>1. mDataNodes[mi] # m
      <4>1. CASE Hangs
        BY <1>1, <1>3, <1>4, <2>2, <4>1 DEF Joined, Smooth
      <4>2. CASE ~Hangs
        BY <1>4, <2>2, <4>2 DEF SeenAlive, Joined
      <4> QED
        BY <4>1, <4>2
    <3>2. m \in ToSet(RemoveAt(mDataNodes, mi))
      BY <1>2, <1>4, <3>1, ToSetFacts DEF Joined
    <3> QED
      BY <1>1, <1>2, <1>4, <2>2, <3>1, <3>2 DEF Joined
  <2> QED
    BY <2>1, <2>2
<1> QED
  BY <1>2, <1>4 DEF Teamed, JoinRead, Asked, Awaited

\* The master answers a join that it has read.
LEMMA FinishTeamed ==
    ASSUME Typed, Serving, Teamed, Finish
    PROVE  Teamed'
<1>1. PICK c \in Request : c = job[1] /\ Answer(c) /\ job # << >> /\ job' = << >>
  <2>1. job \in Seq(Request) /\ job # << >> /\ Answer(job[1]) /\ job' = << >>
    BY DEF Finish, AtBackup, AtReplay, Typed, TypeOK
  <2> QED
    BY <2>1
<1>2. c.from \in Nodes /\ c.kind \in {"op"} \cup BootKind
  BY RequestFacts
<1>3. UNCHANGED <<running, calls, watched, mDataNodes>>
  BY DEF Finish, bounds
<1>4. c.live /\ c.kind = "op" => st[c.from] = "wait"
  BY <1>1, AnsweredWaits
<1>5. \A m \in Nodes : st'[m] = "down" => st[m] = "down"
  BY <1>1, <1>2, <1>4 DEF Answer, Typed, TypeOK
<1>6. \A m \in Nodes : ~JoinRead(m)' /\ Asked(job, m)'
  BY <1>1, EmptyLive DEF JoinRead, Asked
<1>7. CASE c.live /\ c.kind # "op"
  <2>1. /\ boot' = [boot EXCEPT ![c.from] = BootDone(boot[c.from])]
        /\ boot[c.from] \in {"recovering", "joining"}
    BY <1>1, <1>7, AnsweredWaits DEF Answer
  <2>2. Live(calls', c.from, BootKind) = {}
    <3>1. Serving'
      BY FinishServing
    <3>2. boot'[c.from] \notin {"recovering", "joining"}
      BY <1>2, <2>1 DEF BootDone, Typed, TypeOK
    <3> QED
      BY <1>2, <3>1, <3>2 DEF Serving, BootServed, OneOf
  <2>3. ASSUME NEW m \in Nodes PROVE Asked(calls, m)'
    <3>1. CASE m = c.from
      BY <2>2, <3>1 DEF Asked
    <3>2. CASE m # c.from
      BY <1>3, <2>1, <3>2 DEF Asked, Awaited, Teamed, Typed, TypeOK
    <3> QED
      BY <3>1, <3>2
  <2>4. ASSUME NEW m \in Nodes, boot'[m] = "up" PROVE Joined(m)'
    <3>1. CASE m = c.from
      <4>1. boot[m] = "joining"
        BY <1>2, <2>1, <2>4, <3>1 DEF BootDone, Typed, TypeOK
      <4>2. 1 \in Live(job, m, BootKind)
        <5>1. 1 \in DOMAIN job
          <6>1. PICK s \in Seq(Request) : s = job
            BY DEF Typed, TypeOK
          <6> QED
            BY <1>1, <6>1
        <5> QED
          BY <1>1, <1>2, <1>7, <3>1, <5>1 DEF Live
      <4>3. c.kind = "join"
        BY <1>1, <4>1, <4>2 DEF Teamed, Asked, Awaited
      <4>4. JoinRead(m)
        BY <1>1, <4>2, <4>3 DEF JoinRead, Live
      <4> QED
        BY <1>3, <1>5, <4>4 DEF Teamed, Joined
    <3>2. CASE m # c.from
      BY <1>3, <1>5, <2>1, <2>4, <3>2 DEF Teamed, Joined, Typed, TypeOK
    <3> QED
      BY <3>1, <3>2
  <2> QED
    BY <1>3, <1>6, <2>3, <2>4 DEF Teamed
<1>8. CASE ~(c.live /\ c.kind # "op")
  <2>1. boot' = boot
    BY <1>1, <1>8 DEF Answer
  <2>2. \A m \in Nodes : Asked(calls, m)'
    BY <1>3, <2>1 DEF Asked, Awaited, Teamed
  <2> QED
    BY <1>3, <1>5, <1>6, <2>1, <2>2 DEF Teamed, Joined
<1> QED
  BY <1>7, <1>8

\* Every step without a timeout and without the end of the master.
LEMMA TeamedStep ==
    ASSUME Smooth, Typed, Serving, Teamed, [Next]_vars
    PROVE  Teamed'
<1>1. Writers \subseteq Nodes
  BY ReplicationAssumption
<1>2. ASSUME NEW n \in Nodes, Client(n) PROVE Teamed'
  BY <1>2, LoopTeamed, ForwardTeamed DEF Client, ClientTimeout, Smooth
<1>3. ASSUME NEW n \in Nodes, Boot(n) PROVE Teamed'
  BY <1>3, AskTeamed DEF Boot, BootAlone, BootTimeout, Smooth, Teamed
<1>4. ASSUME NEW n \in Nodes, Expire(n) PROVE Teamed'
  BY <1>4, TeamStill DEF Expire, nodeVars
<1>5. CASE Master
  <2>1. CASE ReplayNext
    BY <2>1, TeamStill DEF ReplayNext, bounds
  <2> QED
    BY <1>5, <2>1, ReadTeamed, BackupTeamed, FinishTeamed DEF Master, MasterTimeout, Smooth
<1>6. CASE Flush \/ UNCHANGED vars
  BY <1>6, TeamStill DEF Flush, vars, nodeVars, masterVars, bounds
<1>7. ~MasterCrash /\ ~MasterStart
  BY DEF MasterStart, Smooth, Teamed
<1> QED
  BY <1>1, <1>2, <1>3, <1>4, <1>5, <1>6, <1>7, LoopTeamed, OffTeamed DEF Next

\* The start.
LEMMA InitTeamed ==
    ASSUME Init
    PROVE  Teamed
<1>1. /\ running /\ calls = << >> /\ job = << >> /\ watched = ToSet(mDataNodes)
      /\ \A n \in Nodes : /\ boot[n] = IF n \in watched THEN "up" ELSE "off"
                          /\ st[n] = IF n \in watched THEN "idle" ELSE "down"
  BY DEF Init, InTeam
<1>2. ASSUME NEW n \in Nodes, boot[n] = "up" PROVE Joined(n)
  BY <1>1, <1>2 DEF Joined
<1> QED
  BY <1>1, <1>2, EmptyLive DEF Teamed, Asked, JoinRead

-----------------------------------------------------------------------------
(***************************************************************************)
(* One node serves clients, and nobody has gone down yet: every log is the *)
(* beginning of its log.                                                   *)
(***************************************************************************)
Writer == CHOOSE w \in Writers : TRUE

\* One node of the team serves clients; no node is in the team twice; nothing
\* times out, neither a request nor a lock.
Orderly ==
    /\ Writers = {Writer} /\ Writer \in ToSet(Team)
    /\ \A i, j \in DOMAIN Team : Team[i] = Team[j] => i = j
    /\ ~Timeouts /\ MaxExpire = 0

\* s is in a, after the first k elements.
Piece(a, s, k) == k + Len(s) <= Len(a) /\ \A i \in 1..Len(s) : s[i] = a[k + i]

\* A piece stays one when the whole grows, when the next element is added to it
\* and when its first one is taken.
LEMMA PieceFacts ==
    ASSUME NEW S, NEW a \in Seq(S), NEW s \in Seq(S), NEW k \in Nat, Piece(a, s, k)
    PROVE  /\ \A e \in S : Piece(Append(a, e), s, k)
           /\ k + Len(s) < Len(a) => Piece(a, Append(s, a[k + Len(s) + 1]), k)
           /\ s # << >> => /\ Len(s) > 0 /\ Len(Tail(s)) = Len(s) - 1
                           /\ Head(s) = a[k + 1] /\ Piece(a, Tail(s), k + 1)
<1>1. Len(s) \in Nat /\ Len(a) \in Nat
  OBVIOUS
<1>2. ASSUME NEW e \in S PROVE Piece(Append(a, e), s, k)
  <2>1. PICK b : b = Append(a, e)
    OBVIOUS
  <2>2. Len(b) = Len(a) + 1 /\ \A i \in 1..Len(a) : b[i] = a[i]
    BY <2>1
  <2>3. \A i \in 1..Len(s) : k + i \in 1..Len(a)
    BY <1>1 DEF Piece
  <2> QED
    BY <1>1, <2>1, <2>2, <2>3 DEF Piece
<1>3. ASSUME k + Len(s) < Len(a) PROVE Piece(a, Append(s, a[k + Len(s) + 1]), k)
  <2>1. PICK e \in S : e = a[k + Len(s) + 1]
    <3>1. k + Len(s) + 1 \in 1..Len(a)
      BY <1>1, <1>3
    <3> QED
      BY <3>1
  <2>2. PICK t : t = Append(s, e)
    OBVIOUS
  <2>3. Len(t) = Len(s) + 1 /\ t[Len(s) + 1] = e /\ \A i \in 1..Len(s) : t[i] = s[i]
    BY <2>2
  <2>4. \A i \in 1..Len(t) : i \in 1..Len(s) \/ i = Len(s) + 1
    BY <1>1, <2>3
  <2>5. k + (Len(s) + 1) = k + Len(s) + 1
    BY <1>1
  <2> QED
    BY <1>1, <1>3, <2>1, <2>2, <2>3, <2>4, <2>5 DEF Piece
<1>4. ASSUME s # << >>
      PROVE  /\ Len(s) > 0 /\ Len(Tail(s)) = Len(s) - 1
             /\ Head(s) = a[k + 1] /\ Piece(a, Tail(s), k + 1)
  <2>1. PICK t : t = Tail(s)
    OBVIOUS
  <2>2. Len(s) > 0 /\ Head(s) = s[1]
    BY <1>4
  <2>3. Len(t) = Len(s) - 1 /\ \A i \in 1..(Len(s) - 1) : t[i] = s[i + 1]
    BY <1>4, <2>1
  <2>4. s[1] = a[k + 1] /\ \A i \in 1..(Len(s) - 1) : s[i + 1] = a[k + (i + 1)]
    BY <1>1, <2>2 DEF Piece
  <2>5. \A i \in 1..(Len(s) - 1) : k + (i + 1) = k + 1 + i
    OBVIOUS
  <2>6. k + 1 + Len(t) <= Len(a)
    BY <1>1, <2>2, <2>3 DEF Piece
  <2> QED
    BY <2>1, <2>2, <2>3, <2>4, <2>5, <2>6 DEF Piece
<1> QED
  BY <1>2, <1>3, <1>4

\* A piece and the next one are a piece.
LEMMA PieceJoined ==
    ASSUME NEW S, NEW a \in Seq(S), NEW s \in Seq(S), NEW t \in Seq(S),
           Piece(a, s, 0), Piece(a, t, Len(s))
    PROVE  Piece(a, s \o t, 0) /\ Len(s \o t) = Len(s) + Len(t)
<1>1. PICK u : u = s \o t
  OBVIOUS
<1>2. /\ Len(u) = Len(s) + Len(t)
      /\ \A i \in 1..Len(s) : u[i] = s[i]
      /\ \A i \in 1..Len(t) : u[Len(s) + i] = t[i]
      /\ Len(s) \in Nat /\ Len(t) \in Nat
  BY <1>1
<1>3. ASSUME NEW i \in 1..Len(u) PROVE u[i] = a[0 + i]
  <2>1. CASE i <= Len(s)
    BY <1>2, <2>1 DEF Piece
  <2>2. CASE i > Len(s)
    <3>1. i - Len(s) \in 1..Len(t) /\ Len(s) + (i - Len(s)) = i
      BY <1>2, <2>2
    <3>2. u[i] = t[i - Len(s)] /\ t[i - Len(s)] = a[Len(s) + (i - Len(s))]
      BY <1>2, <3>1 DEF Piece
    <3> QED
      BY <3>1, <3>2
  <2> QED
    BY <1>2, <2>1, <2>2
<1> QED
  BY <1>1, <1>2, <1>3 DEF Piece

\* The end of a piece is a piece.
LEMMA PieceEnd ==
    ASSUME NEW S, NEW a \in Seq(S), NEW s \in Seq(S), Piece(a, s, 0), NEW k \in 0..Len(s)
    PROVE  LET t == SubSeq(s, k + 1, Len(s))
           IN t \in Seq(S) /\ Len(t) = Len(s) - k /\ Piece(a, t, k)
<1>1. PICK t : t = SubSeq(s, k + 1, Len(s))
  OBVIOUS
<1>2. /\ t \in Seq(S) /\ Len(t) = Len(s) - k /\ Len(s) \in Nat
      /\ \A i \in 1..(Len(s) - k) : t[i] = s[k + i]
  BY <1>1
<1>3. \A i \in 1..(Len(s) - k) : k + i \in 1..Len(s)
  BY <1>2
<1>4. \A i \in 1..(Len(s) - k) : s[k + i] = a[k + i]
  BY <1>2, <1>3 DEF Piece
<1>5. k + Len(t) <= Len(a)
  BY <1>2 DEF Piece
<1> QED
  BY <1>1, <1>2, <1>4, <1>5 DEF Piece

-----------------------------------------------------------------------------
\* The operations done, the number of those that the master has accepted, and
\* how many of them n has or has been sent.
Done == log[Writer]
Total == Len(mfile) + Len(pQueue)
Got(n) == Len(log[n]) + Len(inbox[n])

JobOf(kind) == job # << >> /\ job[1].kind = kind
Serves(kind, n) == JobOf(kind) /\ job[1].from = n
Member(n) == n \in ToSet(mDataNodes)

\* The loop over the nodes has still to come to n.
ToCome(n) == JobOf("op") /\ \E p \in mi..Len(mDataNodes) : mDataNodes[p] = n
Heeded(n) == Host[n] # Host[Writer] /\ Port[n] # Port[Writer]

\* Nobody has given up.
Alive ==
    /\ \A i \in DOMAIN calls : calls[i].live
    /\ \A i \in DOMAIN job : job[i].live
    /\ \A n \in Nodes : /\ \A i \in DOMAIN inbox[n] : inbox[n][i].live
                        /\ st[n] = "redo" => work[n][1].live

\* What the master has is what has been done, perhaps without the last one.
Filed ==
    /\ Piece(Done, mfile, 0) /\ Piece(Done, pQueue, Len(mfile))
    /\ Len(Done) = IF st[Writer] = "logged" \/ Live(calls, Writer, {"op"}) # {}
                   THEN Total + 1 ELSE Total

Written ==
    /\ boot[Writer] = "up" /\ inbox[Writer] = << >> /\ st[Writer] # "redo"
    /\ st[Writer] = "logged" => work[Writer][1].op = Done[Len(Done)]
    /\ \A i \in DOMAIN calls :
         calls[i].kind = "op" => calls[i].from = Writer /\ calls[i].op = Done[Len(Done)]
    /\ JobOf("op") => /\ job[1].from = Writer /\ job[1].op = Done[Total]
                      /\ Total = Len(Done) /\ Total > 0

\* What n has and is sent is the beginning of it.
Copied(n) ==
    /\ Piece(Done, log[n], 0) /\ Got(n) <= Total
    /\ inbox[n] # << >> => Len(inbox[n]) = 1 /\ inbox[n][1].op = Done[Len(log[n]) + 1]

\* How far n is: before recovery, in it, before joining, in it, and after it.
Unread(n) == boot[n] \in {"off", "start"} \/ (boot[n] = "recovering" /\ ~Serves("recovery", n))
Behind(n) ==
    Unread(n) =>
        /\ inbox[n] = << >> /\ Len(log[n]) <= Len(mfile) /\ ~Member(n)
        /\ \A i \in DOMAIN calls :
             calls[i].kind = "recovery" /\ calls[i].from = n => calls[i].size = Len(log[n])
Recovering(n) ==
    boot[n] = "recovering" /\ Serves("recovery", n) =>
        /\ Piece(Done, mlist, Got(n)) /\ Got(n) + Len(mlist) = Len(mfile)
        /\ n \in paused /\ ~Member(n)
Between(n) == boot[n] = "recovered" \/ (boot[n] = "joining" /\ ~Serves("join", n))
Recovered(n) == Between(n) => Got(n) = Len(mfile) /\ n \in paused /\ ~Member(n)
Joining(n) ==
    boot[n] = "joining" /\ Serves("join", n) =>
        /\ Piece(Done, mlist, Got(n)) /\ Got(n) + Len(mlist) = Total
        /\ n \in paused /\ Member(n)
UpToDate(n) ==
    boot[n] = "up" =>
        /\ Member(n)
        /\ Heeded(n) => Got(n) = IF ToCome(n) THEN Total - 1 ELSE Total

Follows(n) ==
    Copied(n) /\ Behind(n) /\ Recovering(n) /\ Recovered(n) /\ Joining(n) /\ UpToDate(n)

Single == \A i, j \in DOMAIN mDataNodes : mDataNodes[i] = mDataNodes[j] => i = j

Trailing ==
    /\ Alive /\ Filed /\ Written /\ Single /\ torn = {} /\ expired = 0
    /\ \A n \in Nodes \ {Writer} : Follows(n)

\* Everything that is known of a state in which nobody has gone down.
Known == Orderly /\ Typed /\ Serving /\ Teamed /\ Trailing

\* The only node that clients use.
LEMMA WriterFacts ==
    ASSUME Orderly
    PROVE  Writer \in Nodes /\ \A w \in Writers : w = Writer
<1>1. Team \in Seq(Nodes) /\ Writer \in ToSet(Team)
  BY ReplicationAssumption DEF Orderly
<1> QED
  BY <1>1 DEF Orderly, ToSet

\* Types of what is counted.
LEMMA DoneFacts ==
    ASSUME Orderly, Typed
    PROVE  /\ Done \in Seq(Op) /\ mfile \in Seq(Op) /\ pQueue \in Seq(Op) /\ mlist \in Seq(Op)
           /\ Len(Done) \in Nat /\ Len(mfile) \in Nat /\ Len(pQueue) \in Nat /\ Total \in Nat
           /\ \A n \in Nodes : /\ log[n] \in Seq(Op) /\ inbox[n] \in Seq(Message)
                               /\ Len(log[n]) \in Nat /\ Len(inbox[n]) \in Nat /\ Got(n) \in Nat
BY WriterFacts DEF Typed, TypeOK, Done, Total, Got

\* Whom the master waits for and serves.
LEMMA JobFacts ==
    ASSUME Typed, Serving, Teamed, Alive, job # << >>
    PROVE  /\ job[1] \in Request /\ job[1].from \in Nodes /\ job[1].live
           /\ DOMAIN job = {1} /\ Len(job) = 1
           /\ job[1].kind \in {"op", "recovery", "join"}
           /\ job[1].kind = "op" => st[job[1].from] = "wait"
           /\ job[1].kind = "recovery" => boot[job[1].from] = "recovering"
           /\ job[1].kind = "join" => boot[job[1].from] = "joining"
<1>1. PICK s \in Seq(Request) : s = job
  BY DEF Typed, TypeOK
<1>2. Len(s) # 0 /\ Len(s) \in Nat /\ Len(s) <= 1
  BY <1>1 DEF Serving, OneJob
<1>3. Len(s) = 1
  <2>1. PICK k \in Nat : k = Len(s)
    BY <1>2
  <2>2. k # 0 /\ k <= 1
    BY <1>2, <2>1
  <2>3. k = 1
    BY <2>2
  <2> QED
    BY <2>1, <2>3
<1>4. DOMAIN s = {1} /\ s[1] \in Request
  BY <1>3
<1>5. PICK c \in Request : c = job[1] /\ c.live
  BY <1>1, <1>4 DEF Alive
<1>6. c.from \in Nodes /\ c.kind \in {"op", "recovery", "join"}
  BY RequestFacts DEF BootKind
<1>7. /\ c.kind = "op" => st[c.from] = "wait"
      /\ c.kind # "op" => boot[c.from] \in {"recovering", "joining"}
  BY <1>5, AnsweredWaits
<1>8. ASSUME c.kind # "op" PROVE c.kind = IF boot[c.from] = "joining" THEN "join" ELSE "recovery"
  <2>1. 1 \in Live(job, c.from, BootKind)
    BY <1>1, <1>4, <1>5, <1>6, <1>8 DEF Live, BootKind
  <2> QED
    BY <1>5, <1>6, <2>1 DEF Teamed, Asked, Awaited
<1> QED
  BY <1>1, <1>3, <1>4, <1>5, <1>6, <1>7, <1>8

\* The same of a request that waits; and there is no other one like it.
LEMMA CallFacts ==
    ASSUME Typed, Serving, Teamed, Alive, NEW i \in DOMAIN calls
    PROVE  /\ calls[i] \in Request /\ calls[i].from \in Nodes /\ calls[i].live
           /\ calls[i].kind \in {"op", "recovery", "join"}
           /\ calls[i].kind = "op" => /\ st[calls[i].from] = "wait"
                                      /\ Live(calls, calls[i].from, {"op"}) = {i}
           /\ calls[i].kind = "recovery" => boot[calls[i].from] = "recovering"
           /\ calls[i].kind = "join" => boot[calls[i].from] = "joining"
<1>1. PICK c \in Request : c = calls[i] /\ c.live
  <2>1. calls \in Seq(Request)
    BY DEF Typed, TypeOK
  <2>2. calls[i] \in Request
    BY <2>1
  <2> QED
    BY <2>2 DEF Alive
<1>2. c.from \in Nodes /\ c.kind \in {"op", "recovery", "join"}
  BY RequestFacts DEF BootKind
<1>3. ASSUME c.kind = "op"
      PROVE  st[c.from] = "wait" /\ Live(calls, c.from, {"op"}) = {i}
  <2>1. i \in Live(calls, c.from, {"op"})
    BY <1>1, <1>3 DEF Live
  <2>2. OneOf(st[c.from] = "wait", Live(calls, c.from, {"op"}), Live(job, c.from, {"op"}))
    BY <1>2 DEF Serving, OpServed
  <2> QED
    BY <2>1, <2>2 DEF OneOf
<1>4. ASSUME c.kind # "op"
      PROVE  /\ boot[c.from] \in {"recovering", "joining"}
             /\ c.kind = IF boot[c.from] = "joining" THEN "join" ELSE "recovery"
  <2>1. i \in Live(calls, c.from, BootKind)
    BY <1>1, <1>2, <1>4 DEF Live, BootKind
  <2>2. OneOf(boot[c.from] \in {"recovering", "joining"}, Live(calls, c.from, BootKind),
              Live(job, c.from, BootKind))
    BY <1>2 DEF Serving, BootServed
  <2>3. boot[c.from] \in {"recovering", "joining"}
    BY <2>1, <2>2 DEF OneOf
  <2> QED
    BY <1>1, <1>2, <2>1, <2>3 DEF Teamed, Asked, Awaited
<1> QED
  BY <1>1, <1>2, <1>3, <1>4

\* Messages: one at a time.
LEMMA InboxFacts ==
    ASSUME Typed, Serving, Alive, NEW n \in Nodes
    PROVE  /\ inbox[n] # << >> => /\ mwait = n /\ Len(inbox[n]) = 1 /\ DOMAIN inbox[n] = {1}
                                  /\ inbox[n][1] \in Message /\ st[n] # "redo"
           /\ st[n] = "redo" => mwait = n
           /\ inbox[n] = << >> <=> Len(inbox[n]) = 0
<1>1. PICK s \in Seq(Message) : s = inbox[n]
  BY DEF Typed, TypeOK
<1>2. OneOf(mwait = n, LiveMessages(s), LiveMessages(Redoing(n)))
  BY <1>1 DEF Serving, MasterServed
<1>3. DOMAIN s = 1..Len(s) /\ Len(s) \in Nat /\ (s = << >> <=> Len(s) = 0)
  OBVIOUS
<1>4. LiveMessages(s) = 1..Len(s)
  BY <1>1, <1>3 DEF LiveMessages, Alive
<1>5. ASSUME st[n] = "redo" PROVE LiveMessages(Redoing(n)) # {}
  <2>1. work[n] \in Seq(Message) /\ Len(work[n]) = 1
    BY <1>5 DEF Typed, TypeOK, WorksOnOne
  <2>2. work[n][1].live /\ Redoing(n) = work[n]
    BY <1>5 DEF Alive, Redoing
  <2> QED
    BY <2>1, <2>2, LiveInOne
<1>6. ASSUME s # << >> PROVE mwait = n /\ Len(s) = 1 /\ LiveMessages(Redoing(n)) = {}
  <2>1. 1 \in 1..Len(s)
    BY <1>3, <1>6
  <2>2. mwait = n /\ LiveMessages(Redoing(n)) = {} /\ \E i \in 1..Len(s) : 1..Len(s) = {i}
    BY <1>2, <1>4, <2>1 DEF OneOf
  <2>3. PICK i \in 1..Len(s) : 1..Len(s) = {i}
    BY <2>2
  <2>4. Len(s) \in 1..Len(s)
    BY <1>3, <2>1
  <2>5. Len(s) = 1
    BY <2>1, <2>3, <2>4
  <2> QED
    BY <2>2, <2>5
<1>7. s # << >> => DOMAIN s = {1} /\ s[1] \in Message
  <2>1. ASSUME s # << >> PROVE DOMAIN s = {1} /\ s[1] \in Message
    <3>1. Len(s) = 1
      BY <1>6, <2>1
    <3>2. DOMAIN s = 1..1
      BY <1>3, <3>1
    <3> QED
      BY <3>2
  <2> QED
    BY <2>1
<1>8. st[n] = "redo" => mwait = n
  BY <1>2, <1>5 DEF OneOf
<1> QED
  BY <1>1, <1>3, <1>5, <1>6, <1>7, <1>8

-----------------------------------------------------------------------------
\* A step that does not move n.
LEMMA FollowsStill ==
    ASSUME Known, NEW n \in Nodes \ {Writer},
           Done' = Done \/ \E e \in Op : Done' = Append(Done, e),
           Total' = Total, mfile' = mfile,
           mlist' = mlist \/ (~Serves("recovery", n) /\ ~Serves("join", n)),
           boot'[n] = boot[n], log'[n] = log[n], inbox'[n] = inbox[n],
           Serves("recovery", n)' <=> Serves("recovery", n),
           Serves("join", n)' <=> Serves("join", n),
           Member(n)' <=> Member(n), (ToCome(n)' <=> ToCome(n)) \/ ~Heeded(n),
           n \in paused => n \in paused',
           \A i \in DOMAIN calls' :
              calls'[i].kind = "recovery" /\ calls'[i].from = n =>
                 \E j \in DOMAIN calls : calls'[i] = calls[j]
    PROVE  Follows(n)'
<1>1. Follows(n)
  BY DEF Known, Trailing
<1>2. /\ Done \in Seq(Op) /\ mlist \in Seq(Op) /\ log[n] \in Seq(Op) /\ inbox[n] \in Seq(Message)
      /\ Len(log[n]) \in Nat /\ Len(inbox[n]) \in Nat /\ Len(Done) \in Nat /\ Got(n) \in Nat
      /\ Len(mfile) \in Nat /\ Total \in Nat
  BY DoneFacts DEF Known
<1>3. Got(n)' = Got(n)
  BY DEF Got
<1>4. ASSUME NEW s \in Seq(Op), NEW k \in Nat, Piece(Done, s, k) PROVE Piece(Done', s, k)
  <2>1. CASE Done' = Done
    BY <1>4, <2>1
  <2>2. CASE \E e \in Op : Done' = Append(Done, e)
    <3>1. PICK e \in Op : Done' = Append(Done, e)
      BY <2>2
    <3>2. Piece(Append(Done, e), s, k)
      BY <1>2, <1>4, PieceFacts
    <3> QED
      BY <3>1, <3>2
  <2> QED
    BY <2>1, <2>2
<1>5. Copied(n)'
  <2>1. Piece(Done', log[n], 0)
    BY <1>1, <1>2, <1>4 DEF Follows, Copied
  <2>2. inbox[n] # << >> => Len(inbox[n]) = 1 /\ inbox[n][1].op = Done'[Len(log[n]) + 1]
    <3>1. Total <= Len(Done)
      BY <1>2 DEF Known, Trailing, Filed
    <3>2. inbox[n] # << >> => Len(log[n]) + 1 \in 1..Len(Done)
      <4>1. inbox[n] # << >> => Len(log[n]) + 1 <= Total
        BY <1>1 DEF Follows, Copied, Got
      <4>2. Len(log[n]) + 1 <= Total => Len(log[n]) + 1 \in 1..Len(Done)
        BY <1>2, <3>1
      <4> QED
        BY <4>1, <4>2
    <3>3. \A i \in 1..Len(Done) : Done'[i] = Done[i]
      BY <1>2
    <3> QED
      BY <1>1, <3>2, <3>3 DEF Follows, Copied
  <2> QED
    BY <1>1, <1>3, <2>1, <2>2 DEF Follows, Copied
<1>6. Behind(n)'
  BY <1>1 DEF Follows, Behind, Unread
<1>7. Recovering(n)' /\ Joining(n)'
  <2>1. Piece(Done, mlist, Got(n)) => Piece(Done', mlist, Got(n))
    BY <1>2, <1>4
  <2> QED
    BY <1>1, <1>3, <2>1 DEF Follows, Recovering, Joining
<1>8. Recovered(n)' /\ UpToDate(n)'
  BY <1>1, <1>3 DEF Follows, Recovered, Between, UpToDate, Heeded
<1> QED
  BY <1>5, <1>6, <1>7, <1>8 DEF Follows

\* A step that leaves the master and the boot threads alone.
LEMMA AllFollowStill ==
    ASSUME Known, Done' = Done \/ \E e \in Op : Done' = Append(Done, e),
           UNCHANGED <<pQueue, mfile, mlist, job, mi, mDataNodes, paused>>,
           NEW n \in Nodes \ {Writer}, boot'[n] = boot[n], log'[n] = log[n], inbox'[n] = inbox[n],
           \A i \in DOMAIN calls' :
              calls'[i].kind = "recovery" /\ calls'[i].from = n =>
                 \E j \in DOMAIN calls : calls'[i] = calls[j]
    PROVE  Follows(n)'
<1>1. /\ Total' = Total /\ (Member(n)' <=> Member(n)) /\ (ToCome(n)' <=> ToCome(n))
      /\ Serves("recovery", n)' <=> Serves("recovery", n)
      /\ Serves("join", n)' <=> Serves("join", n)
  BY DEF Total, Member, ToCome, JobOf, Serves
<1> QED
  BY <1>1, FollowsStill

\* Only the writer asks for operations, one at a time.
LEMMA NobodyAsks ==
    ASSUME Known, st[Writer] # "wait"
    PROVE  /\ ~JobOf("op") /\ Live(calls, Writer, {"op"}) = {}
           /\ \A i \in DOMAIN calls : calls[i].kind # "op"
<1>1. Writer \in Nodes
  BY WriterFacts DEF Known
<1>2. Live(calls, Writer, {"op"}) = {}
  BY <1>1 DEF Known, Serving, OpServed, OneOf
<1>3. ~JobOf("op")
  BY JobFacts DEF Known, Trailing, JobOf, Written
<1>4. \A i \in DOMAIN calls : calls[i].kind # "op"
  BY CallFacts DEF Known, Trailing, Written
<1> QED
  BY <1>2, <1>3, <1>4

\* The node that serves clients stores and logs.
LEMMA WriterTrailing ==
    ASSUME Known, \/ \E op \in ClientOps(Writer) : ClientRequest(Writer, op)
                  \/ ClientLog(Writer)
    PROVE  Trailing'
<1>1. Writer \in Nodes
  BY WriterFacts DEF Known
<1>2. CASE \E op \in ClientOps(Writer) : ClientRequest(Writer, op)
  <2>1. /\ st[Writer] = "idle" /\ st' = [st EXCEPT ![Writer] = "stored"]
        /\ \E op : work' = [work EXCEPT ![Writer] = <<[op |-> op, live |-> TRUE]>>]
        /\ UNCHANGED <<log, boot, inbox, torn, expired, calls, job, mi, mlist, mDataNodes, pQueue,
                       mfile, paused>>
    BY <1>2 DEF ClientRequest, masterVars
  <2>2. st'[Writer] = "stored" /\ \A n \in Nodes : n # Writer => st'[n] = st[n] /\ work'[n] = work[n]
    BY <1>1, <2>1 DEF Known, Typed, TypeOK
  <2>3. Alive'
    BY <2>1, <2>2 DEF Known, Trailing, Alive
  <2>4. Filed' /\ Written'
    BY <2>1, <2>2, NobodyAsks DEF Known, Trailing, Filed, Written, Done, Total, JobOf, Live
  <2>5. \A n \in Nodes \ {Writer} : Follows(n)'
    BY <2>1, AllFollowStill DEF Done
  <2> QED
    BY <2>1, <2>3, <2>4, <2>5 DEF Known, Trailing, Single
<1>3. CASE ClientLog(Writer)
  <2>1. PICK e \in Op : e = work[Writer][1].op
    BY <1>1, <1>3, WorkFacts DEF Known, ClientLog
  <2>2. /\ st[Writer] = "stored" /\ st' = [st EXCEPT ![Writer] = "logged"]
        /\ log' = [log EXCEPT ![Writer] = Append(log[Writer], e)]
        /\ UNCHANGED <<work, boot, inbox, torn, expired, calls, job, mi, mlist, mDataNodes, pQueue,
                       mfile, paused>>
    BY <1>3, <2>1 DEF ClientLog, masterVars, bounds
  <2>3. /\ st'[Writer] = "logged" /\ \A n \in Nodes : n # Writer => st'[n] = st[n] /\ log'[n] = log[n]
        /\ Done' = Append(Done, e)
    BY <1>1, <2>2 DEF Known, Typed, TypeOK, Done
  <2>4. Alive'
    BY <2>2, <2>3 DEF Known, Trailing, Alive
  <2>5. /\ Done \in Seq(Op) /\ mfile \in Seq(Op) /\ pQueue \in Seq(Op) /\ Len(mfile) \in Nat
        /\ Total \in Nat /\ Total' = Total
    BY <2>2, DoneFacts DEF Known, Total
  <2>6. Len(Done') = Total + 1 /\ Done'[Total + 1] = e
    <3>1. Len(Done) = Total
      BY <2>2, NobodyAsks DEF Known, Trailing, Filed
    <3> QED
      BY <2>3, <2>5, <3>1
  <2>7. Filed'
    <3>1. Piece(Done', mfile, 0) /\ Piece(Done', pQueue, Len(mfile))
      BY <2>3, <2>5, PieceFacts DEF Known, Trailing, Filed
    <3> QED
      BY <2>2, <2>3, <2>5, <2>6, <3>1 DEF Filed
  <2>8. Written'
    BY <2>1, <2>2, <2>3, <2>5, <2>6, NobodyAsks DEF Known, Trailing, Written, JobOf
  <2>9. \A n \in Nodes \ {Writer} : Follows(n)'
    BY <2>2, <2>3, AllFollowStill
  <2> QED
    BY <2>2, <2>4, <2>7, <2>8, <2>9 DEF Known, Trailing, Single
<1> QED
  BY <1>2, <1>3

\* The writer asks the master: its last operation is on its way.
LEMMA ForwardTrailing ==
    ASSUME Known, ClientForward(Writer)
    PROVE  Trailing'
<1>1. Writer \in Nodes
  BY WriterFacts DEF Known
<1>2. PICK r : r = [from |-> Writer, kind |-> "op", op |-> work[Writer][1].op, size |-> 0,
                    live |-> TRUE]
  OBVIOUS
<1>3. /\ r \in Request /\ r.live /\ r.from = Writer /\ r.kind = "op" /\ r.op = Done[Len(Done)]
      /\ calls' = Append(calls, r)
      /\ st[Writer] = "logged" /\ st' = [st EXCEPT ![Writer] = "wait"]
      /\ UNCHANGED <<log, work, boot, inbox, torn, expired, job, mi, mlist, mDataNodes, pQueue,
                     mfile, paused>>
  BY <1>1, <1>2, WorkFacts DEF Request, ClientForward, bounds, Known, Trailing, Written
<1>4. /\ calls \in Seq(Request) /\ st'[Writer] = "wait"
      /\ \A n \in Nodes : n # Writer => st'[n] = st[n]
  BY <1>1, <1>3 DEF Known, Typed, TypeOK
<1>5. /\ DOMAIN calls' = DOMAIN calls \cup {Len(calls) + 1}
      /\ calls'[Len(calls) + 1] = r /\ \A i \in DOMAIN calls : calls'[i] = calls[i]
  BY <1>3, <1>4
<1>6. Alive'
  BY <1>3, <1>4, <1>5 DEF Known, Trailing, Alive
<1>7. Live(calls', Writer, {"op"}) # {}
  BY <1>3, <1>5 DEF Live
<1>8. Done' = Done /\ Total' = Total
  BY <1>3 DEF Done, Total
<1>9. Filed'
  BY <1>3, <1>7, <1>8 DEF Known, Trailing, Filed
<1>10. Written'
  BY <1>3, <1>4, <1>5, <1>8, NobodyAsks DEF Known, Trailing, Written, JobOf
<1>11. ASSUME NEW n \in Nodes \ {Writer} PROVE Follows(n)'
  <2>1. \A i \in DOMAIN calls' :
           calls'[i].kind = "recovery" /\ calls'[i].from = n =>
              \E j \in DOMAIN calls : calls'[i] = calls[j]
    BY <1>3, <1>5
  <2> QED
    BY <1>3, <1>8, <2>1, AllFollowStill
<1> QED
  BY <1>3, <1>6, <1>9, <1>10, <1>11 DEF Known, Trailing, Single

\* Another node does what it was sent.
LEMMA RedoTrailing ==
    ASSUME Known, NEW n \in Nodes, Redo(n)
    PROVE  Trailing'
<1>1. Writer \in Nodes
  BY WriterFacts DEF Known
<1>2. ASSUME NEW i \in DOMAIN inbox[n], RedoLog(n, i) PROVE Trailing'
  <2>1. inbox[n] # << >> /\ inbox[n] \in Seq(Message)
    BY <1>2, InboxFacts DEF Known, Trailing, Typed, TypeOK
  <2>2. n # Writer
    BY <2>1 DEF Known, Trailing, Written
  <2>3. PICK e \in Message : e = inbox[n][1] /\ i = 1 /\ Len(inbox[n]) = 1
    BY <2>1, InboxFacts DEF Known, Trailing
  <2>4. RemoveAt(inbox[n], i) \in Seq(Message) /\ Len(RemoveAt(inbox[n], i)) = 0
    BY <2>1, <2>3, RemovedFacts
  <2>5. RemoveAt(inbox[n], i) = << >>
    BY <2>4
  <2>6. /\ st[n] = "idle" /\ st' = [st EXCEPT ![n] = "redo"]
        /\ log' = [log EXCEPT ![n] = Append(log[n], e.op)]
        /\ work' = [work EXCEPT ![n] = <<e>>]
        /\ inbox' = [inbox EXCEPT ![n] = << >>]
        /\ UNCHANGED <<boot, torn, expired, calls, job, mi, mlist, mDataNodes, pQueue, mfile, paused>>
    BY <1>2, <2>3, <2>5 DEF RedoLog, masterVars, bounds
  <2>7. /\ st'[n] = "redo" /\ log'[n] = Append(log[n], e.op) /\ inbox'[n] = << >>
        /\ work'[n][1] = e
        /\ \A m \in Nodes : m # n => /\ st'[m] = st[m] /\ log'[m] = log[m]
                                     /\ inbox'[m] = inbox[m] /\ work'[m] = work[m]
    BY <2>6 DEF Known, Typed, TypeOK
  <2>8. Done' = Done /\ Total' = Total
    BY <1>1, <2>2, <2>6, <2>7 DEF Done, Total
  <2>9. Alive'
    <3>1. e.live
      BY <2>3 DEF Known, Trailing, Alive
    <3>2. \A j \in DOMAIN inbox'[n] : inbox'[n][j].live
      BY <2>7
    <3> QED
      BY <2>6, <2>7, <3>1, <3>2 DEF Known, Trailing, Alive
  <2>10. Filed' /\ Written'
    BY <1>1, <2>2, <2>6, <2>7, <2>8 DEF Known, Trailing, Filed, Written, JobOf
  <2>11. ASSUME NEW m \in Nodes \ {Writer}, m # n PROVE Follows(m)'
    BY <2>6, <2>7, <2>8, <2>11, AllFollowStill
  <2>12. Follows(n)'
    <3>1. Follows(n)
      BY <2>2 DEF Known, Trailing
    <3>2. /\ Done \in Seq(Op) /\ log[n] \in Seq(Op) /\ Len(log[n]) \in Nat /\ Total \in Nat
          /\ Len(Done) \in Nat /\ Total <= Len(Done)
      BY DoneFacts DEF Known, Trailing, Filed
    <3>3. Got(n) = Len(log[n]) + 1
      BY <2>3 DEF Got
    <3>4. Len(log'[n]) = Len(log[n]) + 1 /\ Got(n)' = Got(n)
      <4>1. e.op \in Op
        BY DEF Message
      <4>2. Len(Append(log[n], e.op)) = Len(log[n]) + 1
        BY <3>2, <4>1
      <4>3. PICK b : b = << >>
        OBVIOUS
      <4>4. Len(b) = 0
        BY <4>3
      <4>5. Got(n)' = Len(log[n]) + 1 + 0
        BY <2>7, <4>2, <4>3, <4>4 DEF Got
      <4> QED
        BY <2>7, <3>2, <3>3, <4>2, <4>5
    <3>5. Piece(Done, Append(log[n], e.op), 0)
      <4>1. e.op = Done[Len(log[n]) + 1] /\ Got(n) <= Total /\ Piece(Done, log[n], 0)
        BY <2>1, <2>3, <3>1 DEF Follows, Copied
      <4>2. 0 + Len(log[n]) < Len(Done) /\ 0 + Len(log[n]) + 1 = Len(log[n]) + 1
        BY <3>2, <3>3, <4>1
      <4> QED
        BY <3>2, <4>1, <4>2, PieceFacts
    <3>6. Copied(n)'
      BY <2>7, <2>8, <3>1, <3>4, <3>5 DEF Follows, Copied
    <3>7. /\ Serves("recovery", n)' <=> Serves("recovery", n)
          /\ Serves("join", n)' <=> Serves("join", n)
          /\ Member(n)' <=> Member(n)
          /\ ToCome(n)' <=> ToCome(n)
      BY <2>6 DEF Serves, JobOf, Member, ToCome
    <3>8. Behind(n)'
      BY <2>1, <2>6, <3>1, <3>7 DEF Follows, Behind, Unread
    <3>9. Recovering(n)' /\ Joining(n)' /\ Recovered(n)' /\ UpToDate(n)'
      BY <2>6, <2>8, <3>1, <3>4, <3>7
         DEF Follows, Recovering, Joining, Recovered, Between, UpToDate, Heeded
    <3> QED
      BY <3>6, <3>8, <3>9 DEF Follows
  <2> QED
    BY <2>6, <2>9, <2>10, <2>11, <2>12 DEF Known, Trailing, Single
<1>3. CASE RedoStore(n)
  <2>1. /\ st[n] = "redo" /\ st' = [st EXCEPT ![n] = "idle"]
        /\ work' = [work EXCEPT ![n] = << >>]
        /\ UNCHANGED <<log, boot, inbox, torn, expired, calls, job, mi, mlist, mDataNodes, pQueue,
                       mfile, paused>>
    BY <1>3 DEF RedoStore, bounds
  <2>2. n # Writer
    BY <2>1 DEF Known, Trailing, Written
  <2>3. st'[n] = "idle" /\ \A m \in Nodes : m # n => st'[m] = st[m] /\ work'[m] = work[m]
    BY <2>1 DEF Known, Typed, TypeOK
  <2>4. Alive'
    BY <2>1, <2>3 DEF Known, Trailing, Alive
  <2>5. Done' = Done /\ Total' = Total
    BY <2>1 DEF Done, Total
  <2>6. Filed' /\ Written'
    BY <1>1, <2>1, <2>2, <2>3, <2>5 DEF Known, Trailing, Filed, Written, JobOf
  <2>7. \A m \in Nodes \ {Writer} : Follows(m)'
    BY <2>1, <2>5, AllFollowStill
  <2> QED
    BY <2>1, <2>4, <2>6, <2>7 DEF Known, Trailing, Single
<1> QED
  BY <1>2, <1>3 DEF Redo

-----------------------------------------------------------------------------
\* Boot threads: a node that starts, and one that asks.
LEMMA StartTrailing ==
    ASSUME Known, NEW n \in Nodes, Start(n)
    PROVE  Trailing'
<1>1. /\ st[n] = "down" /\ st' = [st EXCEPT ![n] = "idle"]
      /\ boot[n] = "off" /\ boot' = [boot EXCEPT ![n] = "start"]
      /\ UNCHANGED <<log, work, inbox, torn, expired, calls, job, mi, mlist, mDataNodes, pQueue,
                     mfile, paused>>
  BY DEF Start, masterVars, bounds, Known, Serving, OneJob
<1>2. n # Writer /\ Writer \in Nodes
  BY <1>1, WriterFacts DEF Known, Trailing, Written
<1>3. /\ st'[n] = "idle" /\ boot'[n] = "start"
      /\ \A m \in Nodes : m # n => st'[m] = st[m] /\ boot'[m] = boot[m]
  BY <1>1 DEF Known, Typed, TypeOK
<1>4. Alive'
  BY <1>1, <1>3 DEF Known, Trailing, Alive
<1>5. Done' = Done /\ Total' = Total
  BY <1>1 DEF Done, Total
<1>6. Filed' /\ Written'
  BY <1>1, <1>2, <1>3, <1>5 DEF Known, Trailing, Filed, Written, JobOf
<1>7. ASSUME NEW m \in Nodes \ {Writer}, m # n PROVE Follows(m)'
  BY <1>1, <1>3, <1>5, <1>7, AllFollowStill
<1>8. Follows(n)'
  <2>1. Follows(n)
    BY <1>2 DEF Known, Trailing
  <2>2. Got(n)' = Got(n) /\ (Member(n)' <=> Member(n))
    BY <1>1 DEF Got, Member
  <2>3. Copied(n)'
    BY <1>1, <1>5, <2>1, <2>2 DEF Follows, Copied
  <2>4. Behind(n)'
    BY <1>1, <1>3, <2>1, <2>2 DEF Follows, Behind, Unread
  <2>5. Recovering(n)' /\ Recovered(n)' /\ Joining(n)' /\ UpToDate(n)'
    BY <1>3 DEF Recovering, Recovered, Between, Joining, UpToDate
  <2> QED
    BY <2>3, <2>4, <2>5 DEF Follows
<1> QED
  BY <1>1, <1>4, <1>6, <1>7, <1>8 DEF Known, Trailing, Single

\* A boot thread asks for recovery or to join.
LEMMA AskTrailing ==
    ASSUME Known, NEW n \in Nodes, SendRecovery(n) \/ SendJoin(n)
    PROVE  Trailing'
<1>1. PICK r : /\ calls' = Append(calls, r)
               /\ \/ /\ r = [from |-> n, kind |-> "recovery", op |-> NoOp, size |-> Len(log[n]),
                             live |-> TRUE]
                     /\ boot[n] = "start" /\ boot' = [boot EXCEPT ![n] = "recovering"]
                  \/ /\ r = [from |-> n, kind |-> "join", op |-> NoOp, size |-> 0, live |-> TRUE]
                     /\ boot[n] = "recovered" /\ boot' = [boot EXCEPT ![n] = "joining"]
  BY DEF SendRecovery, SendJoin
<1>2. /\ UNCHANGED <<st, log, work, inbox, torn, expired, job, mi, mlist, mDataNodes, pQueue,
                     mfile, paused>>
      /\ calls \in Seq(Request)
  BY DEF SendRecovery, SendJoin, bounds, Known, Typed, TypeOK
<1>3. n # Writer /\ Writer \in Nodes
  BY <1>1, WriterFacts DEF Known, Trailing, Written
<1>4. /\ r.live /\ r.from = n /\ r.kind \in {"recovery", "join"}
      /\ r.kind = "recovery" => r.size = Len(log[n]) /\ boot[n] = "start" /\ boot'[n] = "recovering"
      /\ r.kind = "join" => boot[n] = "recovered" /\ boot'[n] = "joining"
      /\ \A m \in Nodes : m # n => boot'[m] = boot[m]
  <2>1. boot \in [Nodes -> BootState]
    BY DEF Known, Typed, TypeOK
  <2>2. CASE r.kind = "recovery"
    BY <1>1, <2>1, <2>2
  <2>3. CASE r.kind = "join"
    BY <1>1, <2>1, <2>3
  <2>4. r.kind = "recovery" \/ r.kind = "join"
    BY <1>1
  <2> QED
    BY <2>2, <2>3, <2>4
<1>5. /\ DOMAIN calls' = DOMAIN calls \cup {Len(calls) + 1}
      /\ calls'[Len(calls) + 1] = r /\ \A i \in DOMAIN calls : calls'[i] = calls[i]
  BY <1>1, <1>2
<1>6. Alive'
  BY <1>2, <1>4, <1>5 DEF Known, Trailing, Alive
<1>7. Done' = Done /\ Total' = Total
  BY <1>2 DEF Done, Total
<1>8. Live(calls', Writer, {"op"}) = Live(calls, Writer, {"op"})
  <2>1. r.kind # "op"
    BY <1>4
  <2>2. \A i \in DOMAIN calls' : calls'[i].kind = "op" => i \in DOMAIN calls /\ calls'[i] = calls[i]
    BY <1>5, <2>1
  <2> QED
    BY <1>5, <2>2 DEF Live
<1>9. Filed' /\ Written'
  <2>1. \A i \in DOMAIN calls' :
          calls'[i].kind = "op" => i \in DOMAIN calls /\ calls'[i] = calls[i]
    BY <1>4, <1>5
  <2> QED
    BY <1>2, <1>3, <1>4, <1>7, <1>8, <2>1 DEF Known, Trailing, Filed, Written, JobOf
<1>10. ASSUME NEW m \in Nodes \ {Writer}, m # n PROVE Follows(m)'
  <2>1. \A i \in DOMAIN calls' :
          calls'[i].kind = "recovery" /\ calls'[i].from = m =>
             \E j \in DOMAIN calls : calls'[i] = calls[j]
    BY <1>4, <1>5, <1>10
  <2> QED
    BY <1>2, <1>4, <1>7, <1>10, <2>1, AllFollowStill
<1>11. Follows(n)'
  <2>1. Follows(n)
    BY <1>3 DEF Known, Trailing
  <2>2. ~Serves("recovery", n) /\ ~Serves("join", n)
    BY <1>4, JobFacts DEF Known, Trailing, Serves, JobOf
  <2>3. /\ Got(n)' = Got(n) /\ (Member(n)' <=> Member(n))
        /\ ~Serves("recovery", n)' /\ ~Serves("join", n)'
    BY <1>2, <2>2 DEF Got, Member, Serves, JobOf
  <2>4. Copied(n)'
    BY <1>2, <1>7, <2>1, <2>3 DEF Follows, Copied
  <2>5. CASE r.kind = "recovery"
    <3>1. \A i \in DOMAIN calls : ~(calls[i].kind = "recovery" /\ calls[i].from = n)
      BY <1>4, <2>5, CallFacts DEF Known, Trailing
    <3>2. \A i \in DOMAIN calls' :
            calls'[i].kind = "recovery" /\ calls'[i].from = n => calls'[i].size = Len(log[n])
      BY <1>4, <1>5, <2>5, <3>1
    <3>3. inbox[n] = << >> /\ Len(log[n]) <= Len(mfile) /\ ~Member(n)
      BY <1>4, <2>1, <2>5 DEF Follows, Behind, Unread
    <3>4. Behind(n)'
      BY <1>2, <2>3, <3>2, <3>3 DEF Behind
    <3>5. Recovering(n)' /\ Recovered(n)' /\ Joining(n)' /\ UpToDate(n)'
      BY <1>4, <2>3, <2>5 DEF Recovering, Recovered, Between, Joining, UpToDate
    <3> QED
      BY <2>4, <3>4, <3>5 DEF Follows
  <2>6. CASE r.kind = "join"
    <3>1. Recovered(n)'
      BY <1>2, <1>4, <2>1, <2>3, <2>6 DEF Follows, Recovered, Between
    <3>2. Behind(n)' /\ Recovering(n)' /\ Joining(n)' /\ UpToDate(n)'
      BY <1>4, <2>3, <2>6 DEF Recovering, Behind, Unread, Joining, UpToDate
    <3> QED
      BY <2>4, <3>1, <3>2 DEF Follows
  <2> QED
    BY <1>4, <2>5, <2>6
<1> QED
  BY <1>2, <1>6, <1>9, <1>10, <1>11 DEF Known, Trailing, Single

-----------------------------------------------------------------------------
\* What is read is one of the requests, and the others stay.
LEMMA ReadFacts ==
    ASSUME Known, NEW i \in DOMAIN calls, Read(i)
    PROVE  /\ job = << >> /\ job' = <<calls[i]>> /\ job'[1] = calls[i] /\ job' # << >>
           /\ DOMAIN job' = {1}
           /\ \A h \in DOMAIN calls' :
                 \E j \in DOMAIN calls : j # i /\ calls'[h] = calls[j]
<1>1. /\ calls \in Seq(Request) /\ job = << >> /\ job' = <<calls[i]>>
      /\ calls' = RemoveAt(calls, i)
  BY DEF Read, Known, Typed, TypeOK
<1>2. PICK j : j = <<calls[i]>>
  OBVIOUS
<1>3. DOMAIN j = {1} /\ j[1] = calls[i] /\ j # << >>
  BY <1>2
<1>4. PICK t : t = RemoveAt(calls, i)
  OBVIOUS
<1>5. /\ t \in Seq(Request) /\ Len(t) = Len(calls) - 1 /\ Len(calls) \in Nat
      /\ \A h \in 1..(Len(calls) - 1) : t[h] = calls[IF h < i THEN h ELSE h + 1]
      /\ i \in 1..Len(calls) /\ DOMAIN calls = 1..Len(calls)
  BY <1>1, <1>4, RemovedFacts
<1>6. DOMAIN t = 1..(Len(calls) - 1)
  BY <1>5
<1>7. ASSUME NEW h \in DOMAIN t PROVE \E k \in DOMAIN calls : k # i /\ t[h] = calls[k]
  <2>1. PICK k : k = IF h < i THEN h ELSE h + 1
    OBVIOUS
  <2>2. k \in 1..Len(calls) /\ k # i
    BY <1>5, <1>6, <2>1
  <2> QED
    BY <1>5, <1>6, <2>1, <2>2
<1> QED
  BY <1>1, <1>2, <1>3, <1>4, <1>7

\* The master accepts the operation: from here on it has to come to all nodes
\* of the team.
LEMMA AcceptOpTrailing ==
    ASSUME Known, NEW i \in DOMAIN calls, AcceptOp(i)
    PROVE  Trailing'
<1>1. /\ calls[i].kind = "op" /\ Read(i) /\ pQueue' = Append(pQueue, calls[i].op) /\ mi' = 1
      /\ UNCHANGED <<db, log, st, work, boot, inbox, mlist, mDataNodes, mfile, paused, torn, expired>>
  BY DEF AcceptOp, nodeVars, bounds
<1>2. /\ Writer \in Nodes /\ calls[i].from = Writer /\ calls[i].op = Done[Len(Done)]
      /\ calls[i].live /\ Live(calls, Writer, {"op"}) = {i} /\ calls[i] \in Request
      /\ st[Writer] = "wait"
  BY <1>1, WriterFacts, CallFacts DEF Known, Trailing, Written
<1>3. /\ job = << >> /\ job'[1] = calls[i] /\ job' # << >> /\ DOMAIN job' = {1}
      /\ \A h \in DOMAIN calls' : \E j \in DOMAIN calls : j # i /\ calls'[h] = calls[j]
  BY <1>1, ReadFacts
<1>4. /\ Done \in Seq(Op) /\ mfile \in Seq(Op) /\ pQueue \in Seq(Op)
      /\ Len(Done) \in Nat /\ Len(mfile) \in Nat /\ Len(pQueue) \in Nat /\ Total \in Nat
      /\ Total = Len(mfile) + Len(pQueue)
  BY DoneFacts DEF Known, Total
<1>5. Len(Done) = Total + 1
  BY <1>2 DEF Known, Trailing, Filed
<1>6. Done' = Done /\ Total' = Total + 1
  <2>1. calls[i].op \in Op
    BY <1>1, <1>2, RequestFacts
  <2>2. Len(Append(pQueue, calls[i].op)) = Len(pQueue) + 1
    BY <1>4, <2>1
  <2> QED
    BY <1>1, <1>4, <2>2 DEF Done, Total
<1>7. Alive'
  BY <1>1, <1>2, <1>3 DEF Known, Trailing, Alive
<1>8. \A h \in DOMAIN calls' : calls'[h].kind # "op"
  <2>1. ASSUME NEW j \in DOMAIN calls, calls[j].kind = "op" PROVE j = i
    <3>1. calls[j].from = Writer /\ Live(calls, calls[j].from, {"op"}) = {j}
      BY <2>1, CallFacts DEF Known, Trailing, Written
    <3> QED
      BY <1>2, <3>1
  <2> QED
    BY <1>3, <2>1
<1>9. Filed'
  <2>1. Live(calls', Writer, {"op"}) = {}
    BY <1>8 DEF Live
  <2>2. Piece(Done, Append(pQueue, Done[Len(mfile) + Len(pQueue) + 1]), Len(mfile))
    <3>1. Len(mfile) + Len(pQueue) < Len(Done) /\ Piece(Done, pQueue, Len(mfile))
      BY <1>4, <1>5 DEF Known, Trailing, Filed
    <3> QED
      BY <1>4, <3>1, PieceFacts
  <2>3. Piece(Done, pQueue', Len(mfile))
    BY <1>1, <1>2, <1>4, <1>5, <2>2
  <2>4. Piece(Done, mfile, 0)
    BY DEF Known, Trailing, Filed
  <2> QED
    BY <1>1, <1>2, <1>5, <1>6, <2>1, <2>3, <2>4 DEF Filed
<1>10. Written'
  BY <1>1, <1>2, <1>3, <1>4, <1>5, <1>6, <1>8 DEF Known, Trailing, Written, JobOf
<1>11. ASSUME NEW n \in Nodes \ {Writer} PROVE Follows(n)'
  <2>1. Follows(n)
    BY DEF Known, Trailing
  <2>2. /\ ~Serves("recovery", n) /\ ~Serves("join", n) /\ ~JobOf("op")
        /\ ~Serves("recovery", n)' /\ ~Serves("join", n)' /\ JobOf("op")'
        /\ Got(n)' = Got(n) /\ (Member(n)' <=> Member(n)) /\ Got(n) \in Nat
    BY <1>1, <1>3, DoneFacts DEF Serves, JobOf, Got, Member, Known
  <2>3. Copied(n)'
    <3>1. Got(n) <= Total + 1
      BY <1>4, <2>1, <2>2 DEF Follows, Copied
    <3> QED
      BY <1>1, <1>6, <2>1, <2>2, <3>1 DEF Follows, Copied
  <2>4. Behind(n)'
    <3>1. \A h \in DOMAIN calls' :
            calls'[h].kind = "recovery" /\ calls'[h].from = n =>
               \E j \in DOMAIN calls : calls'[h] = calls[j]
      BY <1>3
    <3> QED
      BY <1>1, <2>1, <2>2, <3>1 DEF Follows, Behind, Unread
  <2>5. Recovering(n)' /\ Joining(n)'
    BY <2>2 DEF Recovering, Joining
  <2>6. Recovered(n)'
    BY <1>1, <2>1, <2>2 DEF Follows, Recovered, Between
  <2>7. UpToDate(n)'
    <3>1. ASSUME Member(n) PROVE ToCome(n)'
      <4>1. PICK p \in DOMAIN mDataNodes : mDataNodes[p] = n
        BY <3>1 DEF Member, ToSet
      <4>3. mDataNodes \in Seq(Nodes)
        BY DEF Known, Typed, TypeOK
      <4>2. p \in 1..Len(mDataNodes)
        BY <4>1, <4>3
      <4> QED
        BY <1>1, <2>2, <4>1, <4>2 DEF ToCome
    <3>2. ~ToCome(n) /\ Total + 1 - 1 = Total
      BY <1>4, <2>2 DEF ToCome
    <3> QED
      BY <1>1, <1>6, <2>1, <2>2, <3>1, <3>2 DEF Follows, UpToDate, Heeded
  <2> QED
    BY <2>3, <2>4, <2>5, <2>6, <2>7 DEF Follows
<1> QED
  BY <1>1, <1>7, <1>9, <1>10, <1>11 DEF Known, Trailing, Single

-----------------------------------------------------------------------------
\* A boot request of n is read: the writer and the other nodes stay.
LEMMA BootReadFacts ==
    ASSUME Known, NEW i \in DOMAIN calls, calls[i].kind \in {"recovery", "join"}, Read(i),
           UNCHANGED <<log, st, work, boot, inbox, pQueue, mfile>>
    PROVE  /\ calls[i].from \in Nodes \ {Writer} /\ calls[i] \in Request
           /\ calls[i].kind = "recovery" => boot[calls[i].from] = "recovering"
           /\ calls[i].kind = "join" => boot[calls[i].from] = "joining"
           /\ Alive' /\ Filed' /\ Written' /\ Done' = Done /\ Total' = Total
           /\ \A n, kind : ~Serves(kind, n) /\ ~ToCome(n) /\ ~ToCome(n)'
           /\ \A n, kind : Serves(kind, n)' <=> n = calls[i].from /\ kind = calls[i].kind
           /\ \A h \in DOMAIN calls' : \E j \in DOMAIN calls : calls'[h] = calls[j]
<1>1. /\ calls[i] \in Request /\ calls[i].from \in Nodes /\ calls[i].live
      /\ calls[i].kind = "recovery" => boot[calls[i].from] = "recovering"
      /\ calls[i].kind = "join" => boot[calls[i].from] = "joining"
  BY CallFacts DEF Known, Trailing
<1>2. calls[i].from # Writer
  BY <1>1 DEF Known, Trailing, Written
<1>3. /\ job = << >> /\ job'[1] = calls[i] /\ job' # << >> /\ DOMAIN job' = {1}
      /\ \A h \in DOMAIN calls' : \E j \in DOMAIN calls : j # i /\ calls'[h] = calls[j]
  BY ReadFacts
<1>4. Alive'
  BY <1>1, <1>3 DEF Known, Trailing, Alive
<1>5. Done' = Done /\ Total' = Total
  BY DEF Done, Total
<1>6. Live(calls', Writer, {"op"}) = {} <=> Live(calls, Writer, {"op"}) = {}
  <2>1. ASSUME NEW j \in Live(calls, Writer, {"op"}) PROVE Live(calls', Writer, {"op"}) # {}
    <3>1. j # i /\ j \in DOMAIN calls
      BY <2>1 DEF Live
    <3>2. calls \in Seq(Request) /\ calls' = RemoveAt(calls, i)
      BY DEF Known, Typed, TypeOK, Read
    <3>3. PICK t : t = RemoveAt(calls, i)
      OBVIOUS
    <3>4. /\ t \in Seq(Request) /\ Len(t) = Len(calls) - 1 /\ Len(calls) \in Nat
          /\ \A h \in 1..(Len(calls) - 1) : t[h] = calls[IF h < i THEN h ELSE h + 1]
          /\ i \in 1..Len(calls) /\ j \in 1..Len(calls)
      BY <3>1, <3>2, <3>3, RemovedFacts
    <3>5. PICK g : g = IF j < i THEN j ELSE j - 1
      OBVIOUS
    <3>6. g \in 1..(Len(calls) - 1) /\ (IF g < i THEN g ELSE g + 1) = j
      BY <3>1, <3>4, <3>5
    <3>7. g \in DOMAIN t /\ t[g] = calls[j]
      BY <3>4, <3>6
    <3> QED
      BY <2>1, <3>2, <3>3, <3>7 DEF Live
  <2>2. ASSUME NEW h \in Live(calls', Writer, {"op"}) PROVE Live(calls, Writer, {"op"}) # {}
    BY <1>3, <2>2 DEF Live
  <2> QED
    BY <2>1, <2>2
<1>7. Filed'
  BY <1>5, <1>6 DEF Known, Trailing, Filed
<1>8. ~JobOf("op")' /\ ~JobOf("op")
  BY <1>3 DEF JobOf
<1>9. Written'
  BY <1>3, <1>5, <1>8 DEF Known, Trailing, Written
<1>10. /\ \A n, kind : ~Serves(kind, n) /\ ~ToCome(n) /\ ~ToCome(n)'
       /\ \A n, kind : Serves(kind, n)' <=> n = calls[i].from /\ kind = calls[i].kind
  BY <1>3, <1>8 DEF Serves, JobOf, ToCome
<1> QED
  BY <1>1, <1>2, <1>3, <1>4, <1>5, <1>7, <1>9, <1>10

\* The master reads how many lines a log has: what is missing is the next piece
\* of the file, and the file stays as it is.
LEMMA AcceptRecoveryTrailing ==
    ASSUME Known, NEW i \in DOMAIN calls, AcceptRecovery(i)
    PROVE  Trailing'
<1>1. /\ calls[i].kind = "recovery" /\ Read(i) /\ mlist' = Missing(calls[i].size)
      /\ paused' = paused \cup {calls[i].from}
      /\ UNCHANGED <<log, st, work, boot, inbox, pQueue, mfile, mDataNodes, mi, torn, expired>>
  BY DEF AcceptRecovery, nodeVars, bounds
<1>2. PICK c \in Nodes \ {Writer} : c = calls[i].from
  BY <1>1, BootReadFacts
<1>3. /\ boot[c] = "recovering" /\ calls[i] \in Request
      /\ Alive' /\ Filed' /\ Written' /\ Done' = Done /\ Total' = Total
      /\ \A n, kind : ~Serves(kind, n) /\ ~ToCome(n) /\ ~ToCome(n)'
      /\ \A n, kind : Serves(kind, n)' <=> n = c /\ kind = "recovery"
      /\ \A h \in DOMAIN calls' : \E j \in DOMAIN calls : calls'[h] = calls[j]
  BY <1>1, <1>2, BootReadFacts
<1>4. \A n : Member(n)' <=> Member(n)
  BY <1>1 DEF Member
<1>5. ASSUME NEW n \in Nodes \ {Writer}, n # c PROVE Follows(n)'
  BY <1>1, <1>3, <1>4, <1>5, FollowsStill
<1>6. Follows(c)'
  <2>1. Follows(c) /\ Unread(c)
    BY <1>3 DEF Known, Trailing, Unread
  <2>2. inbox[c] = << >> /\ Len(log[c]) <= Len(mfile) /\ ~Member(c) /\ calls[i].size = Len(log[c])
    BY <1>1, <1>2, <2>1 DEF Follows, Behind
  <2>3. /\ Done \in Seq(Op) /\ mfile \in Seq(Op) /\ Len(mfile) \in Nat /\ Len(log[c]) \in Nat
        /\ Piece(Done, mfile, 0)
    BY DoneFacts DEF Known, Trailing, Filed
  <2>4. Got(c) = Len(log[c]) /\ Got(c)' = Got(c)
    <3>1. Len(inbox[c]) = 0
      BY <2>2, InboxFacts DEF Known, Trailing
    <3> QED
      BY <1>1, <2>3, <3>1 DEF Got
  <2>5. Piece(Done, mlist', Got(c)) /\ Got(c) + Len(mlist') = Len(mfile)
    <3>1. PICK k \in 0..Len(mfile) : k = Len(log[c])
      BY <2>2, <2>3
    <3>2. mlist' = SubSeq(mfile, k + 1, Len(mfile))
      <4>1. ~(Len(mfile) - k < 0) /\ Len(mfile) - (Len(mfile) - k) + 1 = k + 1
        BY <2>3
      <4> QED
        BY <1>1, <2>2, <3>1, <4>1 DEF Missing, TailList
    <3>3. Len(mlist') = Len(mfile) - k /\ Piece(Done, mlist', k)
      BY <2>3, <3>2, PieceEnd
    <3> QED
      BY <2>3, <2>4, <3>1, <3>3
  <2>6. Recovering(c)'
    BY <1>1, <1>2, <1>3, <1>4, <2>2, <2>4, <2>5 DEF Recovering
  <2>7. Copied(c)'
    BY <1>1, <1>3, <2>1, <2>4 DEF Follows, Copied
  <2>8. Behind(c)' /\ Recovered(c)' /\ Joining(c)' /\ UpToDate(c)'
    BY <1>1, <1>3 DEF Behind, Unread, Recovered, Between, Joining, UpToDate
  <2> QED
    BY <2>6, <2>7, <2>8 DEF Follows
<1> QED
  BY <1>1, <1>3, <1>5, <1>6 DEF Known, Trailing, Single

\* A node joins: what is missing is the queue.
LEMMA AcceptJoinTrailing ==
    ASSUME Known, NEW i \in DOMAIN calls, AcceptJoin(i)
    PROVE  Trailing'
<1>1. /\ calls[i].kind = "join" /\ Read(i) /\ mlist' = pQueue
      /\ mDataNodes' = Append(mDataNodes, calls[i].from)
      /\ UNCHANGED <<log, st, work, boot, inbox, pQueue, mfile, paused, mi, torn, expired>>
  BY DEF AcceptJoin, nodeVars, bounds
<1>2. PICK c \in Nodes \ {Writer} : c = calls[i].from
  BY <1>1, BootReadFacts
<1>3. /\ boot[c] = "joining"
      /\ Alive' /\ Filed' /\ Written' /\ Done' = Done /\ Total' = Total
      /\ \A n, kind : ~Serves(kind, n) /\ ~ToCome(n) /\ ~ToCome(n)'
      /\ \A n, kind : Serves(kind, n)' <=> n = c /\ kind = "join"
      /\ \A h \in DOMAIN calls' : \E j \in DOMAIN calls : calls'[h] = calls[j]
  BY <1>1, <1>2, BootReadFacts
<1>4. mDataNodes \in Seq(Nodes)
  BY DEF Known, Typed, TypeOK
<1>5. \A n : Member(n)' <=> Member(n) \/ n = c
  <2>1. ToSet(Append(mDataNodes, c)) = ToSet(mDataNodes) \cup {c}
    BY <1>4, ToSetFacts
  <2> QED
    BY <1>1, <1>2, <2>1 DEF Member
<1>6. /\ Follows(c) /\ Between(c) /\ Got(c) = Len(mfile) /\ c \in paused /\ ~Member(c)
  <2>1. Follows(c) /\ Between(c)
    BY <1>3 DEF Known, Trailing, Between
  <2> QED
    BY <2>1 DEF Follows, Recovered
<1>7. ASSUME NEW n \in Nodes \ {Writer}, n # c PROVE Follows(n)'
  BY <1>1, <1>3, <1>5, <1>7, FollowsStill
<1>8. Follows(c)'
  <2>1. Got(c)' = Got(c)
    BY <1>1 DEF Got
  <2>2. Piece(Done, mlist', Got(c)) /\ Got(c) + Len(mlist') = Total
    BY <1>1, <1>6 DEF Known, Trailing, Filed, Total
  <2>3. Joining(c)'
    BY <1>1, <1>3, <1>5, <1>6, <2>1, <2>2 DEF Joining
  <2>4. Copied(c)'
    BY <1>1, <1>3, <1>6, <2>1 DEF Follows, Copied
  <2>5. Behind(c)' /\ Recovered(c)' /\ Recovering(c)' /\ UpToDate(c)'
    BY <1>1, <1>3 DEF Behind, Unread, Recovered, Between, Recovering, UpToDate
  <2> QED
    BY <2>3, <2>4, <2>5 DEF Follows
<1>9. Single'
  <2>1. PICK t : t = Append(mDataNodes, c)
    OBVIOUS
  <2>2. /\ DOMAIN t = 1..(Len(mDataNodes) + 1) /\ DOMAIN mDataNodes = 1..Len(mDataNodes)
        /\ t[Len(mDataNodes) + 1] = c
        /\ \A j \in 1..Len(mDataNodes) : t[j] = mDataNodes[j]
    BY <1>4, <2>1
  <2>3. \A j \in 1..Len(mDataNodes) : mDataNodes[j] # c
    BY <1>6, <2>2 DEF Member, ToSet
  <2>4. \A j \in DOMAIN t : j \in 1..Len(mDataNodes) \/ j = Len(mDataNodes) + 1
    BY <1>4, <2>2
  <2>5. \A j, k \in 1..Len(mDataNodes) : mDataNodes[j] = mDataNodes[k] => j = k
    BY <2>2 DEF Known, Trailing, Single
  <2>6. \A j, k \in DOMAIN t : t[j] = t[k] => j = k
    BY <2>2, <2>3, <2>4, <2>5
  <2> QED
    BY <1>1, <1>2, <2>1, <2>6 DEF Single
<1> QED
  BY <1>1, <1>3, <1>7, <1>8, <1>9 DEF Known, Trailing

-----------------------------------------------------------------------------
\* A message is sent to n, which has read everything: it is the next one.
LEMMA SentCopied ==
    ASSUME Known, mwait = "none", NEW n \in Nodes \ {Writer}, st[n] # "down", NEW op \in Op,
           op = Done[Got(n) + 1], Got(n) < Total, Send(n, op), UNCHANGED <<log, pQueue, mfile>>
    PROVE  /\ Copied(n)' /\ Got(n)' = Got(n) + 1 /\ inbox'[n][1].live /\ DOMAIN inbox'[n] = {1}
           /\ \A m \in Nodes : m # n => inbox'[m] = inbox[m]
<1>1. "none" \notin Nodes
  BY ReplicationAssumption
<1>2. inbox[n] = << >> /\ Len(inbox[n]) = 0
  BY <1>1, InboxFacts DEF Known, Trailing
<1>3. PICK e : e = [op |-> op, live |-> TRUE]
  OBVIOUS
<1>4. inbox' = [inbox EXCEPT ![n] = Append(inbox[n], e)]
  BY <1>3 DEF Send
<1>5. PICK t : t = Append(inbox[n], e)
  OBVIOUS
<1>6. t = <<e>>
  BY <1>2, <1>5
<1>7. Len(t) = 1 /\ t[1] = e /\ DOMAIN t = {1} /\ t # << >>
  BY <1>6
<1>8. inbox'[n] = t /\ \A m \in Nodes : m # n => inbox'[m] = inbox[m]
  BY <1>4, <1>5 DEF Known, Typed, TypeOK
<1>9. /\ Len(log[n]) \in Nat /\ Got(n) = Len(log[n]) /\ Got(n)' = Got(n) + 1 /\ Total \in Nat
  <2>1. Len(log[n]) \in Nat /\ Total \in Nat
    BY DoneFacts DEF Known
  <2>2. Got(n) = Len(log[n]) + 0
    BY <1>2 DEF Got
  <2>3. Got(n)' = Len(log[n]) + 1
    BY <1>7, <1>8 DEF Got
  <2> QED
    BY <2>1, <2>2, <2>3
<1>10. Done' = Done /\ Total' = Total
  BY DEF Done, Total
<1>11. Copied(n)'
  <2>1. Piece(Done, log[n], 0)
    BY DEF Known, Trailing, Follows, Copied
  <2>2. Got(n)' <= Total /\ t[1].op = Done[Len(log[n]) + 1]
    BY <1>3, <1>7, <1>9
  <2> QED
    BY <1>7, <1>8, <1>10, <2>1, <2>2 DEF Copied
<1> QED
  BY <1>3, <1>7, <1>8, <1>9, <1>11

\* Messages that are sent leave the writer alone.
LEMMA SentWritten ==
    ASSUME Known, NEW n \in Nodes \ {Writer}, inbox'[n][1].live, DOMAIN inbox'[n] = {1},
           \A m \in Nodes : m # n => inbox'[m] = inbox[m],
           UNCHANGED <<log, st, work, boot, calls, job, pQueue, mfile>>
    PROVE  Alive' /\ Filed' /\ Written'
<1>1. Writer \in Nodes
  BY WriterFacts DEF Known
<1>2. Alive'
  BY DEF Known, Trailing, Alive
<1>3. Filed' /\ Written'
  BY <1>1 DEF Known, Trailing, Filed, Written, Done, Total, JobOf
<1> QED
  BY <1>2, <1>3

\* The master sends the next missing operation.
LEMMA ReplayNextTrailing ==
    ASSUME Known, ReplayNext
    PROVE  Trailing'
<1>1. /\ job # << >> /\ job[1].kind \in {"recovery", "join"} /\ mwait = "none" /\ mlist # << >>
      /\ Send(job[1].from, Head(mlist)) /\ mlist' = Tail(mlist)
      /\ UNCHANGED <<log, st, work, boot, calls, job, mi, mDataNodes, pQueue, mfile, paused,
                     torn, expired>>
  BY DEF ReplayNext, AtReplay, BootKind, bounds
<1>2. PICK n \in Nodes : n = job[1].from
  BY <1>1, JobFacts DEF Known, Trailing
<1>3. /\ job[1].kind = "recovery" => boot[n] = "recovering"
      /\ job[1].kind = "join" => boot[n] = "joining"
  BY <1>1, <1>2, JobFacts DEF Known, Trailing
<1>4. n # Writer /\ st[n] # "down"
  BY <1>1, <1>3 DEF Known, Trailing, Written, Serving, OneJob
<1>5. /\ Done \in Seq(Op) /\ mlist \in Seq(Op) /\ Len(Done) \in Nat /\ Total \in Nat
      /\ Got(n) \in Nat /\ Len(mlist) \in Nat /\ Len(mfile) \in Nat /\ Len(pQueue) \in Nat
      /\ Total = Len(mfile) + Len(pQueue) /\ Total <= Len(Done)
  <2>1. Total = Len(Done) \/ Len(Done) = Total + 1
    BY DEF Known, Trailing, Filed
  <2> QED
    BY <2>1, DoneFacts DEF Known, Total
<1>6. Follows(n) /\ \A kind : Serves(kind, n) <=> kind = job[1].kind
  BY <1>1, <1>2, <1>4 DEF Known, Trailing, Serves, JobOf
<1>7. Piece(Done, mlist, Got(n)) /\ Got(n) + Len(mlist) <= Total
  BY <1>1, <1>3, <1>5, <1>6 DEF Follows, Recovering, Joining
<1>8. /\ Len(mlist) > 0 /\ Len(mlist') = Len(mlist) - 1 /\ Head(mlist) = Done[Got(n) + 1]
      /\ Piece(Done, mlist', Got(n) + 1) /\ Got(n) < Total
  BY <1>1, <1>5, <1>7, PieceFacts
<1>9. Head(mlist) \in Op
  BY <1>1, <1>5
<1>10. /\ Copied(n)' /\ Got(n)' = Got(n) + 1 /\ inbox'[n][1].live /\ DOMAIN inbox'[n] = {1}
       /\ \A m \in Nodes : m # n => inbox'[m] = inbox[m]
  BY <1>1, <1>2, <1>4, <1>8, <1>9, SentCopied
<1>11. Alive' /\ Filed' /\ Written'
  BY <1>1, <1>4, <1>10, SentWritten
<1>12. /\ Done' = Done /\ Total' = Total
       /\ \A m : (Member(m)' <=> Member(m)) /\ (ToCome(m)' <=> ToCome(m))
       /\ \A m, kind : Serves(kind, m)' <=> Serves(kind, m)
  BY <1>1 DEF Done, Total, Member, ToCome, Serves, JobOf
<1>13. ASSUME NEW m \in Nodes \ {Writer}, m # n PROVE Follows(m)'
  <2>1. \A kind : ~Serves(kind, m)
    BY <1>2, <1>13 DEF Serves
  <2> QED
    BY <1>1, <1>10, <1>12, <1>13, <2>1, FollowsStill
<1>14. Follows(n)'
  <2>1. Got(n)' + Len(mlist') = Got(n) + Len(mlist)
    BY <1>5, <1>8, <1>10
  <2>2. Recovering(n)'
    BY <1>1, <1>6, <1>8, <1>10, <1>12, <2>1 DEF Follows, Recovering
  <2>3. Joining(n)'
    BY <1>1, <1>6, <1>8, <1>10, <1>12, <2>1 DEF Follows, Joining
  <2>4. Behind(n)' /\ Recovered(n)' /\ UpToDate(n)'
    BY <1>1, <1>3, <1>6, <1>12 DEF Behind, Unread, Recovered, Between, UpToDate
  <2> QED
    BY <1>10, <2>2, <2>3, <2>4 DEF Follows
<1> QED
  BY <1>1, <1>11, <1>13, <1>14 DEF Known, Trailing, Single

-----------------------------------------------------------------------------
\* A node in the team is up, unless it is just joining, and is alive.
LEMMA MemberFacts ==
    ASSUME Known, NEW n \in Nodes, Member(n), JobOf("op")
    PROVE  boot[n] = "up" /\ st[n] # "down" /\ n \in watched
<1>1. boot[n] = "up"
  <2>1. CASE n = Writer
    BY <2>1 DEF Known, Trailing, Written
  <2>2. CASE n # Writer
    <3>1. Follows(n) /\ ~Serves("recovery", n) /\ ~Serves("join", n)
      BY <2>2 DEF Known, Trailing, Serves, JobOf
    <3>2. boot[n] \in BootState
      BY DEF Known, Typed, TypeOK
    <3> QED
      BY <3>1, <3>2 DEF Follows, Behind, Unread, Recovered, Between, BootState
  <2> QED
    BY <2>1, <2>2
<1> QED
  BY <1>1 DEF Known, Teamed, Joined

\* One turn of the dispatch loop.
LEMMA BackupTrailing ==
    ASSUME Known, Backup, crashes' = crashes
    PROVE  Trailing'
<1>1. /\ JobOf("op") /\ job # << >> /\ mwait = "none" /\ mi <= Len(mDataNodes)
      /\ UNCHANGED <<log, st, work, boot, calls, job, mlist, pQueue, mfile, paused, torn, expired>>
  BY DEF Backup, AtBackup, JobOf
<1>2. mDataNodes \in Seq(Nodes) /\ mi \in DOMAIN mDataNodes /\ mi \in 1..Len(mDataNodes)
  <2>1. mDataNodes \in Seq(Nodes) /\ mi \in Nat \ {0}
    BY DEF Known, Typed, TypeOK
  <2> QED
    BY <1>1, <2>1
<1>3. PICK n \in Nodes : n = mDataNodes[mi]
  BY <1>2
<1>4. Member(n)
  BY <1>2, <1>3 DEF Member, ToSet
<1>5. boot[n] = "up" /\ st[n] # "down" /\ n \in watched
  BY <1>1, <1>4, MemberFacts
<1>6. /\ mDataNodes' = mDataNodes /\ mi' = mi + 1
      /\ IF NotTheSender(n) THEN Send(n, job[1].op) ELSE UNCHANGED <<inbox, mwait>>
  <2>1. PICK alive \in BOOLEAN :
          /\ mDataNodes' = IF alive THEN mDataNodes ELSE RemoveAt(mDataNodes, mi)
          /\ crashes' = IF ~alive THEN crashes + 1 ELSE crashes
          /\ mi' = IF mi <= Len(mDataNodes') THEN mi + 1 ELSE mi
          /\ IF mi <= Len(mDataNodes') /\ NotTheSender(mDataNodes'[mi])
             THEN Send(mDataNodes'[mi], job[1].op) ELSE UNCHANGED <<inbox, mwait>>
    BY <1>3, <1>5 DEF Backup, SeenAlive
  <2>2. crashes + 1 # crashes
    BY DEF Known, Typed, TypeOK
  <2>3. alive /\ mDataNodes' = mDataNodes
    BY <2>1, <2>2
  <2> QED
    BY <1>1, <1>3, <2>1, <2>3
<1>7. /\ job[1].from = Writer /\ job[1].op = Done[Total] /\ Total > 0 /\ Total = Len(Done)
      /\ job[1] \in Request
  BY <1>1, JobFacts DEF Known, Trailing, Written
<1>8. job[1].op \in Op
  BY <1>1, <1>7, RequestFacts DEF JobOf
<1>9. NotTheSender(n) <=> Heeded(n)
  BY <1>7 DEF NotTheSender, Heeded
<1>10. ~Heeded(Writer)
  BY DEF Heeded
<1>11. /\ Done' = Done /\ Total' = Total
       /\ \A m : Member(m)' <=> Member(m)
       /\ \A m, kind : (Serves(kind, m)' <=> Serves(kind, m)) /\ (JobOf(kind)' <=> JobOf(kind))
  BY <1>1, <1>6 DEF Done, Total, Member, Serves, JobOf
<1>12. /\ ToCome(n) /\ ~ToCome(n)'
       /\ \A m : m # n => (ToCome(m)' <=> ToCome(m))
  <2>1. \A p \in (mi + 1)..Len(mDataNodes) : p \in DOMAIN mDataNodes /\ p # mi
    BY <1>2
  <2>2. \A p \in (mi + 1)..Len(mDataNodes) : mDataNodes[p] # n
    BY <1>2, <1>3, <2>1 DEF Known, Trailing, Single
  <2>3. mi..Len(mDataNodes) = {mi} \cup (mi + 1)..Len(mDataNodes)
    BY <1>2
  <2> QED
    BY <1>1, <1>3, <1>6, <1>11, <2>2, <2>3 DEF ToCome
<1>13. Single'
  BY <1>6 DEF Known, Trailing, Single
<1>14. CASE ~Heeded(n)
  <2>1. inbox' = inbox
    BY <1>6, <1>9, <1>14
  <2>2. Alive' /\ Filed' /\ Written'
    BY <1>1, <1>11, <2>1 DEF Known, Trailing, Alive, Filed, Written
  <2>3. ASSUME NEW m \in Nodes \ {Writer} PROVE Follows(m)'
    BY <1>1, <1>11, <1>12, <1>14, <2>1, FollowsStill
  <2> QED
    BY <1>1, <1>13, <2>2, <2>3 DEF Known, Trailing
<1>15. CASE Heeded(n)
  <2>1. n # Writer
    BY <1>10, <1>15
  <2>2. Follows(n) /\ Got(n) = Total - 1 /\ Got(n) \in Nat /\ Total \in Nat
    BY <1>5, <1>12, <1>15, <2>1, DoneFacts DEF Known, Trailing, Follows, UpToDate
  <2>3. Got(n) + 1 = Total /\ Got(n) < Total
    BY <2>2
  <2>4. /\ Copied(n)' /\ Got(n)' = Got(n) + 1 /\ inbox'[n][1].live /\ DOMAIN inbox'[n] = {1}
        /\ \A m \in Nodes : m # n => inbox'[m] = inbox[m]
    BY <1>1, <1>5, <1>6, <1>7, <1>8, <1>9, <1>15, <2>1, <2>3, SentCopied
  <2>5. Alive' /\ Filed' /\ Written'
    BY <1>1, <2>1, <2>4, SentWritten
  <2>6. ASSUME NEW m \in Nodes \ {Writer}, m # n PROVE Follows(m)'
    BY <1>1, <1>11, <1>12, <2>4, <2>6, FollowsStill
  <2>7. Follows(n)'
    <3>1. UpToDate(n)'
      BY <1>4, <1>11, <1>12, <2>3, <2>4 DEF UpToDate
    <3>2. Behind(n)' /\ Recovered(n)' /\ Recovering(n)' /\ Joining(n)'
      BY <1>1, <1>5 DEF Behind, Unread, Recovered, Between, Recovering, Joining
    <3> QED
      BY <2>4, <3>1, <3>2 DEF Follows
  <2> QED
    BY <1>1, <1>13, <2>5, <2>6, <2>7 DEF Known, Trailing
<1> QED
  BY <1>14, <1>15

\* The loop is over: nobody has been left out.
LEMMA FinishTrailing ==
    ASSUME Known, Finish
    PROVE  Trailing'
<1>1. /\ job # << >> /\ job' = << >> /\ mwait = "none" /\ Answer(job[1])
      /\ \/ JobOf("op") /\ mi > Len(mDataNodes)
         \/ (JobOf("recovery") \/ JobOf("join")) /\ mlist = << >>
      /\ paused' = IF job[1].kind = "join" THEN paused \ {job[1].from} ELSE paused
      /\ UNCHANGED <<log, inbox, calls, mi, mlist, mDataNodes, pQueue, mfile, torn, expired>>
  BY DEF Finish, AtBackup, AtReplay, JobOf, BootKind, bounds
<1>2. PICK n \in Nodes : n = job[1].from
  BY <1>1, JobFacts DEF Known, Trailing
<1>3. /\ job[1].live /\ job[1].kind \in {"op", "recovery", "join"}
      /\ job[1].kind = "op" => st[n] = "wait" /\ n = Writer
      /\ job[1].kind = "recovery" => boot[n] = "recovering"
      /\ job[1].kind = "join" => boot[n] = "joining"
  BY <1>1, <1>2, JobFacts DEF Known, Trailing, Written, JobOf
<1>4. Writer \in Nodes
  BY WriterFacts DEF Known
<1>5. \A m \in Nodes : inbox[m] = << >> /\ st[m] # "redo"
  <2>1. "none" \notin Nodes
    BY ReplicationAssumption
  <2> QED
    BY <1>1, <2>1, InboxFacts DEF Known, Trailing
<1>6. /\ Done' = Done /\ Total' = Total
      /\ \A m : (Member(m)' <=> Member(m)) /\ Got(m)' = Got(m) /\ ~ToCome(m)'
      /\ \A m, kind : ~Serves(kind, m)' /\ ~JobOf(kind)'
  BY <1>1 DEF Done, Total, Member, Got, ToCome, Serves, JobOf
<1>7. \A m \in Nodes : ~ToCome(m)
  <2>1. CASE JobOf("op")
    <3>1. mi \in Nat /\ Len(mDataNodes) \in Nat /\ mi > Len(mDataNodes)
      BY <1>1, <2>1 DEF JobOf, Known, Typed, TypeOK
    <3>2. mi..Len(mDataNodes) = {}
      BY <3>1
    <3> QED
      BY <3>2 DEF ToCome
  <2>2. CASE ~JobOf("op")
    BY <2>2 DEF ToCome
  <2> QED
    BY <2>1, <2>2
<1>8. \A m \in Nodes : st'[m] # "redo"
  BY <1>1, <1>2, <1>5 DEF Answer, Known, Typed, TypeOK
<1>9. Alive'
  BY <1>1, <1>5, <1>8 DEF Known, Trailing, Alive
<1>10. Single'
  BY <1>1 DEF Known, Trailing, Single
<1>11. CASE job[1].kind = "op"
  <2>1. /\ st' = [st EXCEPT ![Writer] = "idle"] /\ work' = [work EXCEPT ![Writer] = << >>]
        /\ boot' = boot /\ paused' = paused
    BY <1>1, <1>2, <1>3, <1>11 DEF Answer
  <2>2. st'[Writer] = "idle" /\ st[Writer] = "wait"
    BY <1>3, <1>4, <1>11, <2>1 DEF Known, Typed, TypeOK
  <2>3. Filed' /\ Written'
    BY <1>1, <1>6, <2>1, <2>2 DEF Known, Trailing, Filed, Written
  <2>4. ASSUME NEW m \in Nodes \ {Writer} PROVE Follows(m)'
    <3>1. \A kind \in {"recovery", "join"} : ~Serves(kind, m)
      BY <1>11 DEF Serves, JobOf
    <3> QED
      BY <1>1, <1>6, <1>7, <2>1, <3>1, FollowsStill
  <2> QED
    BY <1>1, <1>9, <1>10, <2>3, <2>4 DEF Known, Trailing
<1>12. CASE job[1].kind \in {"recovery", "join"}
  <2>1. /\ boot' = [boot EXCEPT ![n] = BootDone(boot[n])] /\ UNCHANGED <<st, work>>
        /\ mlist = << >>
    BY <1>1, <1>2, <1>3, <1>12 DEF Answer, JobOf
  <2>2. n # Writer
    BY <1>3, <1>12 DEF Known, Trailing, Written
  <2>3. /\ boot'[n] = IF job[1].kind = "recovery" THEN "recovered" ELSE "up"
        /\ \A m \in Nodes : m # n => boot'[m] = boot[m]
    BY <1>3, <1>12, <2>1 DEF BootDone, Known, Typed, TypeOK
  <2>4. Filed' /\ Written'
    BY <1>1, <1>4, <1>6, <2>1, <2>2, <2>3 DEF Known, Trailing, Filed, Written
  <2>5. ASSUME NEW m \in Nodes \ {Writer}, m # n PROVE Follows(m)'
    <3>1. (\A kind : ~Serves(kind, m)) /\ (m \in paused => m \in paused')
      BY <1>1, <1>2, <2>5 DEF Serves
    <3> QED
      BY <1>1, <1>6, <1>7, <2>3, <2>5, <3>1, FollowsStill
  <2>6. Follows(n)'
    <3>1. Follows(n) /\ \A kind : Serves(kind, n) <=> kind = job[1].kind
      BY <1>1, <1>2, <2>2 DEF Known, Trailing, Serves, JobOf
    <3>2. Got(n) + Len(mlist) = Got(n)
      <4>1. PICK s : s = << >>
        OBVIOUS
      <4>2. Len(s) = 0
        BY <4>1
      <4>3. Got(n) \in Nat
        BY DoneFacts DEF Known
      <4> QED
        BY <2>1, <4>1, <4>2, <4>3
    <3>3. Copied(n)'
      BY <1>1, <1>6, <3>1 DEF Follows, Copied
    <3>4. CASE job[1].kind = "recovery"
      <4>1. Recovered(n)'
        BY <1>1, <1>3, <1>6, <3>1, <3>2, <3>4 DEF Follows, Recovering, Recovered
      <4>2. Behind(n)' /\ Recovering(n)' /\ Joining(n)' /\ UpToDate(n)'
        BY <2>3, <3>4 DEF Behind, Unread, Recovering, Joining, UpToDate
      <4> QED
        BY <3>3, <4>1, <4>2 DEF Follows
    <3>5. CASE job[1].kind = "join"
      <4>1. UpToDate(n)'
        BY <1>3, <1>6, <3>1, <3>2, <3>5 DEF Follows, Joining, UpToDate
      <4>2. Behind(n)' /\ Recovering(n)' /\ Recovered(n)' /\ Joining(n)'
        BY <2>3, <3>5 DEF Behind, Unread, Recovering, Recovered, Between, Joining
      <4> QED
        BY <3>3, <4>1, <4>2 DEF Follows
    <3> QED
      BY <1>12, <3>4, <3>5
  <2> QED
    BY <1>1, <1>9, <1>10, <2>4, <2>5, <2>6 DEF Known, Trailing
<1> QED
  BY <1>3, <1>11, <1>12

\* The queue moves to the file only while nobody is between recovery and join.
LEMMA FlushTrailing ==
    ASSUME Known, Flush
    PROVE  Trailing'
<1>1. /\ paused = {} /\ mfile' = mfile \o pQueue /\ pQueue' = << >>
      /\ UNCHANGED <<log, st, work, boot, inbox, calls, job, mi, mDataNodes, paused, torn, expired>>
  BY DEF Flush, nodeVars, bounds
<1>2. /\ Done \in Seq(Op) /\ mfile \in Seq(Op) /\ pQueue \in Seq(Op) /\ Len(mfile) \in Nat
      /\ Len(pQueue) \in Nat /\ Total = Len(mfile) + Len(pQueue) /\ Done' = Done
      /\ Len(Done) \in Nat
  BY <1>1, DoneFacts DEF Known, Total, Done
<1>3. Piece(Done, mfile', 0) /\ Len(mfile') = Len(mfile) + Len(pQueue)
  BY <1>1, <1>2, PieceJoined DEF Known, Trailing, Filed
<1>4. PICK s : s = << >>
  OBVIOUS
<1>5. Len(s) = 0 /\ DOMAIN s = {}
  BY <1>4
<1>6. Total' = Total /\ Len(mfile') = Total
  <2>1. Total' = Len(mfile') + 0
    BY <1>1, <1>4, <1>5 DEF Total
  <2> QED
    BY <1>2, <1>3, <2>1
<1>7. Alive' /\ Written' /\ Single'
  BY <1>1, <1>2, <1>6 DEF Known, Trailing, Alive, Written, JobOf, Single
<1>8. Filed'
  <2>1. Total <= Len(Done)
    <3>1. Total \in Nat /\ (Total = Len(Done) \/ Len(Done) = Total + 1)
      BY <1>2 DEF Known, Trailing, Filed
    <3> QED
      BY <1>2, <3>1
  <2>2. Piece(Done, s, Total)
    <3>1. Total + 0 <= Len(Done)
      BY <1>2, <2>1
    <3> QED
      BY <1>5, <3>1 DEF Piece
  <2> QED
    BY <1>1, <1>2, <1>3, <1>4, <1>6, <2>2 DEF Known, Trailing, Filed
<1>9. ASSUME NEW n \in Nodes \ {Writer} PROVE Follows(n)'
  <2>1. Follows(n)
    BY DEF Known, Trailing
  <2>2. /\ boot[n] = "recovering" => ~Serves("recovery", n)
        /\ ~Between(n)
        /\ boot[n] = "joining" => ~Serves("join", n)
    BY <1>1, <2>1 DEF Follows, Recovering, Recovered, Joining
  <2>3. /\ Got(n)' = Got(n) /\ (Member(n)' <=> Member(n)) /\ (ToCome(n)' <=> ToCome(n))
        /\ \A kind : Serves(kind, n)' <=> Serves(kind, n)
    BY <1>1 DEF Got, Member, ToCome, Serves, JobOf
  <2>4. Copied(n)' /\ UpToDate(n)'
    BY <1>1, <1>2, <1>6, <2>1, <2>3 DEF Follows, Copied, UpToDate, Heeded
  <2>5. Recovering(n)' /\ Recovered(n)' /\ Joining(n)'
    BY <1>1, <2>2, <2>3 DEF Recovering, Recovered, Between, Joining
  <2>6. Behind(n)'
    <3>1. Unread(n)' <=> Unread(n)
      BY <1>1, <2>3 DEF Unread
    <3>2. Len(log[n]) <= Len(mfile) => Len(log[n]) <= Len(mfile')
      BY <1>2, <1>3, DoneFacts DEF Known
    <3> QED
      BY <1>1, <2>1, <2>3, <3>1, <3>2 DEF Follows, Behind
  <2> QED
    BY <2>4, <2>5, <2>6 DEF Follows
<1> QED
  BY <1>1, <1>7, <1>8, <1>9 DEF Known, Trailing

\* Every step in which nothing goes down.
LEMMA TrailingStep ==
    ASSUME Known, [Next]_vars, crashes' = crashes
    PROVE  Trailing'
<1>1. crashes + 1 # crashes
  BY DEF Known, Typed, TypeOK
<1>2. ASSUME NEW n \in Writers, Client(n) PROVE Trailing'
  <2>1. n = Writer
    BY WriterFacts DEF Known
  <2>2. ~ClientAlone(n) /\ ~ClientTimeout(n)
    BY DEF Known, Teamed, Orderly, ClientAlone, ClientTimeout
  <2> QED
    BY <1>2, <2>1, <2>2, WriterTrailing, ForwardTrailing DEF Client
<1>3. ASSUME NEW n \in Nodes, Boot(n) PROVE Trailing'
  BY <1>3, AskTrailing DEF Boot, BootAlone, BootTimeout, Known, Orderly, Teamed
<1>4. ASSUME NEW n \in Nodes PROVE ~Crash(n) /\ ~Expire(n)
  BY <1>1 DEF Crash, Expire, Known, Orderly, Trailing
<1>5. CASE Master
  BY <1>5, AcceptOpTrailing, AcceptRecoveryTrailing, AcceptJoinTrailing, BackupTrailing,
     ReplayNextTrailing, FinishTrailing DEF Master, MasterTimeout, Known, Orderly
<1>6. ~MasterCrash /\ ~MasterStart
  BY <1>1 DEF MasterCrash, MasterStart, Known, Teamed
<1>7. CASE UNCHANGED vars
  <2>1. UNCHANGED <<log, st, work, boot, inbox, calls, job, mi, mlist, mDataNodes, pQueue,
                    mfile, paused, torn, expired>>
    BY <1>7 DEF vars, nodeVars, masterVars, bounds
  <2>2. Alive' /\ Filed' /\ Written' /\ Single'
    BY <2>1 DEF Known, Trailing, Alive, Filed, Written, Single, Done, Total, JobOf
  <2>3. ASSUME NEW n \in Nodes \ {Writer} PROVE Follows(n)'
    BY <2>1, AllFollowStill DEF Done, Known, Trailing
  <2> QED
    BY <2>1, <2>2, <2>3 DEF Known, Trailing
<1> QED
  BY <1>2, <1>3, <1>4, <1>5, <1>6, <1>7, RedoTrailing, StartTrailing, FlushTrailing DEF Next

\* At the start every node has the prelude.
LEMMA InitTrailing ==
    ASSUME Orderly, Init
    PROVE  Trailing
<1>1. /\ Writer \in Nodes /\ Team \in Seq(Nodes) /\ Prelude \in Seq(Op)
  BY WriterFacts, ReplicationAssumption, PreludeAssumption
<1>2. /\ calls = << >> /\ job = << >> /\ pQueue = << >> /\ mfile = Prelude /\ mDataNodes = Team
      /\ torn = {} /\ expired = 0 /\ Done = Prelude
      /\ \A n \in Nodes : /\ log[n] = Prelude /\ inbox[n] = << >>
                          /\ st[n] = IF InTeam(n) THEN "idle" ELSE "down"
                          /\ boot[n] = IF InTeam(n) THEN "up" ELSE "off"
  BY <1>1 DEF Init, Done
<1>3. PICK s : s = << >>
  OBVIOUS
<1>4. Len(s) = 0 /\ DOMAIN s = {}
  BY <1>3
<1>5. PICK k \in Nat : k = Len(Prelude)
  BY <1>1
<1>6. /\ Total = k + Len(s) /\ \A n \in Nodes : Got(n) = k + Len(s)
  BY <1>2, <1>3, <1>5 DEF Total, Got
<1>7. Total = k /\ \A n \in Nodes : Got(n) = k
  BY <1>4, <1>6
<1>8. Piece(Prelude, Prelude, 0) /\ Piece(Prelude, s, k)
  <2>1. 0 + Len(Prelude) <= Len(Prelude) /\ k + 0 <= Len(Prelude)
    BY <1>5
  <2>2. \A i \in 1..Len(Prelude) : Prelude[i] = Prelude[0 + i]
    OBVIOUS
  <2>3. 1..Len(s) = {}
    BY <1>4
  <2> QED
    BY <1>4, <2>1, <2>2, <2>3 DEF Piece
<1>9. Alive /\ Single
  BY <1>2, <1>3, <1>4 DEF Alive, Single, Orderly
<1>10. InTeam(Writer) /\ ~JobOf("op")
  BY <1>2 DEF Orderly, InTeam, JobOf
<1>11. Live(calls, Writer, {"op"}) = {}
  BY <1>2, EmptyLive
<1>12. Filed
  BY <1>1, <1>2, <1>3, <1>5, <1>7, <1>8, <1>10, <1>11 DEF Filed
<1>13. Written
  <2>1. DOMAIN calls = {}
    BY <1>2, <1>3, <1>4
  <2> QED
    BY <1>1, <1>2, <1>10, <2>1 DEF Written
<1>14. ASSUME NEW n \in Nodes \ {Writer} PROVE Follows(n)
  <2>1. Copied(n)
    BY <1>2, <1>5, <1>7, <1>8 DEF Copied
  <2>2. boot[n] \in {"up", "off"} /\ (boot[n] = "up" <=> Member(n))
    BY <1>2 DEF Member, InTeam
  <2>3. Behind(n)
    <3>1. DOMAIN calls = {} /\ Len(log[n]) <= Len(mfile)
      BY <1>2, <1>3, <1>4, <1>5
    <3> QED
      BY <1>2, <2>2, <3>1 DEF Behind, Unread
  <2>4. Recovering(n) /\ Recovered(n) /\ Joining(n)
    BY <2>2 DEF Recovering, Recovered, Between, Joining
  <2>5. UpToDate(n)
    BY <1>7, <1>10, <2>2 DEF UpToDate, ToCome
  <2> QED
    BY <2>1, <2>3, <2>4, <2>5 DEF Follows
<1> QED
  BY <1>2, <1>9, <1>12, <1>13, <1>14 DEF Trailing

\* What holds in every state: more, while nobody has gone down.
WhileUp == Typed /\ Serving /\ (crashes = 0 => Teamed /\ Trailing)

\* Crashes are counted.
LEMMA CrashesGrow ==
    ASSUME Typed, [Next]_vars
    PROVE  crashes' = crashes \/ crashes' = crashes + 1
<1>1. CASE Master
  BY <1>1 DEF Master, AcceptOp, AcceptRecovery, AcceptJoin, Backup, ReplayNext, Finish,
     MasterTimeout, bounds
<1>2. ASSUME NEW n \in Writers, Client(n) PROVE crashes' = crashes
  BY <1>2 DEF Client, ClientRequest, ClientLog, ClientForward, ClientAlone, ClientTimeout, bounds
<1>3. ASSUME NEW n \in Nodes, Redo(n) \/ Start(n) \/ Boot(n) \/ Expire(n)
      PROVE  crashes' = crashes
  BY <1>3 DEF Redo, RedoLog, RedoStore, Start, Boot, SendRecovery, SendJoin, BootAlone,
     BootTimeout, Expire, bounds
<1> QED
  BY <1>1, <1>2, <1>3 DEF Next, Crash, MasterCrash, MasterStart, Flush, vars, bounds

\* Every step.
LEMMA WhileUpStep ==
    ASSUME Orderly, WhileUp, [Next]_vars
    PROVE  WhileUp'
<1>1. Typed' /\ Serving'
  BY TypedStep, ServingStep DEF WhileUp
<1>2. ASSUME crashes' = 0 PROVE (Teamed /\ Trailing)'
  <2>1. crashes = 0 /\ crashes' = crashes
    <3>1. crashes \in Nat /\ (crashes' = crashes \/ crashes' = crashes + 1)
      BY CrashesGrow DEF WhileUp, Typed, TypeOK
    <3> QED
      BY <1>2, <3>1
  <2>2. Known
    BY <2>1 DEF WhileUp, Known
  <2>3. Smooth
    <3>1. crashes + 1 # crashes
      BY <2>1
    <3> QED
      BY <2>1, <3>1 DEF Smooth, Orderly, MasterCrash
  <2> QED
    BY <2>1, <2>2, <2>3, TrailingStep, TeamedStep DEF Known
<1> QED
  BY <1>1, <1>2 DEF WhileUp

\* The invariant of the theorems on backups.
LEMMA WhileUpAlways == Orderly /\ Spec => []WhileUp
<1>1. Orderly /\ Init => WhileUp
  BY InitTyped, InitServing, InitTeamed, InitTrailing DEF WhileUp
<1>2. Orderly /\ WhileUp /\ [Next]_vars => WhileUp'
  BY WhileUpStep
<1>3. Orderly => Orderly'
  OBVIOUS
<1> QED
  BY <1>1, <1>2, <1>3, PTL DEF Spec

\* A piece from the start is a prefix ...
LEMMA PieceIsPrefix ==
    ASSUME NEW S, NEW a \in Seq(S), NEW s \in Seq(S), Piece(a, s, 0)
    PROVE  IsPrefix(s, a)
<1>1. Len(s) <= Len(a) /\ \A i \in 1..Len(s) : s[i] = a[i]
  BY DEF Piece
<1>2. /\ SubSeq(s, 1, Len(s)) \in Seq(S) /\ Len(SubSeq(s, 1, Len(s))) = Len(s)
      /\ \A i \in 1..Len(s) : SubSeq(s, 1, Len(s))[i] = s[i]
  OBVIOUS
<1>3. /\ SubSeq(a, 1, Len(s)) \in Seq(S) /\ Len(SubSeq(a, 1, Len(s))) = Len(s)
      /\ \A i \in 1..Len(s) : SubSeq(a, 1, Len(s))[i] = a[i]
  BY <1>1
<1>4. SubSeq(s, 1, Len(s)) = SubSeq(a, 1, Len(s))
  BY <1>1, <1>2, <1>3
<1> QED
  BY <1>1, <1>4 DEF IsPrefix

\* If one node of the team serves clients, no node is in the team twice and
\* nothing times out: until something goes down, the log of every node is the
\* beginning of the log of that node, at any moment, for nodes of the team and
\* for those that recover and join meanwhile.
THEOREM BackupsTrailAlways == Orderly /\ Spec => []BackupsTrail
<1>1. ASSUME Orderly, WhileUp PROVE BackupsTrail
  <2>1. SUFFICES ASSUME crashes = 0, NEW w \in Writers, NEW n \in Nodes
                 PROVE  IsPrefix(log[n], log[w])
    BY DEF BackupsTrail
  <2>2. Typed /\ Trailing
    BY <1>1, <2>1 DEF WhileUp
  <2>3. w = Writer /\ Done \in Seq(Op) /\ log[n] \in Seq(Op) /\ Done = log[w]
    BY <1>1, <2>2, WriterFacts, DoneFacts DEF Done
  <2>4. CASE n = Writer
    BY <2>3, <2>4 DEF IsPrefix
  <2>5. CASE n # Writer
    <3>1. Piece(Done, log[n], 0)
      BY <2>2, <2>5 DEF Trailing, Follows, Copied
    <3> QED
      BY <2>3, <3>1, PieceIsPrefix
  <2> QED
    BY <2>4, <2>5
<1>2. Orderly => Orderly'
  OBVIOUS
<1> QED
  BY <1>1, <1>2, WhileUpAlways, PTL

\* Each node has a name and a port of its own.
OwnAddresses ==
    \A m, n \in Nodes : m # n => Host[m] # Host[n] /\ Port[m] # Port[n]

\* ... and of the same length it is the whole.
LEMMA PieceIsAll ==
    ASSUME NEW S, NEW a \in Seq(S), NEW s \in Seq(S), Piece(a, s, 0), Len(s) = Len(a)
    PROVE  s = a
<1>1. \A i \in 1..Len(s) : s[i] = a[i]
  BY DEF Piece
<1> QED
  BY <1>1

\* Nothing is on its way: who is in the team has done everything.
LEMMA DoneByAll ==
    ASSUME Known, OwnAddresses, Quiescent, NEW n \in Nodes, boot[n] = "up"
    PROVE  log[n] = Done
<1>1. CASE n = Writer
  BY <1>1 DEF Done
<1>2. CASE n # Writer
  <2>1. Writer \in Nodes
    BY WriterFacts DEF Known
  <2>2. Heeded(n)
    BY <1>2, <2>1 DEF OwnAddresses, Heeded
  <2>3. Follows(n) /\ ~ToCome(n)
    BY <1>2 DEF Known, Trailing, Quiescent, ToCome, JobOf
  <2>4. Got(n) = Total /\ Piece(Done, log[n], 0)
    BY <2>2, <2>3 DEF Follows, UpToDate, Copied
  <2>5. Len(Done) = Total
    <3>1. st[Writer] # "logged"
      BY <2>1 DEF Quiescent
    <3>2. Live(calls, Writer, {"op"}) = {}
      BY EmptyLive DEF Quiescent
    <3> QED
      BY <3>1, <3>2 DEF Known, Trailing, Filed
  <2>6. Got(n) = Len(log[n])
    <3>1. PICK s : s = inbox[n] /\ s = << >>
      BY DEF Quiescent
    <3>2. Len(s) = 0
      BY <3>1
    <3>3. Len(log[n]) \in Nat
      BY DoneFacts DEF Known
    <3>4. Got(n) = Len(log[n]) + Len(s)
      BY <3>1 DEF Got
    <3> QED
      BY <3>2, <3>3, <3>4
  <2> QED
    BY <2>4, <2>5, <2>6, DoneFacts, PieceIsAll DEF Known
<1> QED
  BY <1>1, <1>2

\* Under the same conditions, and if no two nodes share a name or a port: as
\* long as nothing has gone down, the nodes of the team have the same queues
\* and messages whenever nothing is on its way.
THEOREM BackupsAgreeAlways == Orderly /\ OwnAddresses /\ Spec => [](crashes = 0 => BackupsAgree)
<1>1. ASSUME Orderly, OwnAddresses, WhileUp, LogTellsDb, crashes = 0 PROVE BackupsAgree
  <2>1. SUFFICES ASSUME Quiescent, NEW m \in Nodes, NEW n \in Nodes, boot[m] = "up", boot[n] = "up"
                 PROVE  db[m] = db[n]
    BY DEF BackupsAgree
  <2>2. Known
    BY <1>1 DEF WhileUp, Known
  <2>3. ASSUME NEW k \in Nodes, boot[k] = "up" PROVE db[k] = Replay(EmptyDb(Queues), Done)
    <3>1. log[k] = Done
      BY <1>1, <2>1, <2>2, <2>3, DoneByAll
    <3>2. st[k] = "idle" /\ k \notin torn
      BY <2>1, <2>2, <2>3 DEF Quiescent, Known, Teamed, Joined, Trailing
    <3> QED
      BY <1>1, <3>1, <3>2 DEF LogTellsDb
  <2> QED
    BY <2>1, <2>3
<1>2. Orderly /\ OwnAddresses => (Orderly /\ OwnAddresses)'
  OBVIOUS
<1> QED
  BY <1>1, <1>2, WhileUpAlways, LogTellsDbAlways, PTL

===============================================================================
