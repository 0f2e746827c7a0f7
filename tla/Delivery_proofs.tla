--------------------------- MODULE Delivery_proofs ----------------------------
(***************************************************************************)
(* Proofs about Delivery, for any nodes, clients, ids and number of calls. *)
(***************************************************************************)
EXTENDS Delivery, FiniteSetTheorems, WellFoundedInduction, TLAPS

\* The states of a node that goes through its rows.
Reading(n) == st[n] \in {"look", "asked", "yes", "no"}

\* A node that serves somebody knows whom and what about; what it deletes, it
\* has deleted.
Serving ==
    \A n \in Nodes :
        /\ st[n] \notin {"idle", "dead"} => client[n] \in Clients
        /\ st[n] \in {"asked", "yes", "no", "wait"} => wanted[n] \in Ids
        /\ st[n] = "wait" => wanted[n] \notin rows[n]

\* The types, but for the bound of skip.
Typed ==
    /\ rows \in [Nodes -> SUBSET Ids]
    /\ st \in [Nodes -> NodeState]
    /\ client \in [Nodes -> Clients \cup {"none"}]
    /\ skip \in [Nodes -> Nat]
    /\ wanted \in [Nodes -> Ids \cup {0}]
    /\ inbox \in [Nodes -> SUBSET [id : Ids, live : BOOLEAN]]
    /\ up \in BOOLEAN /\ crashes \in 0..MaxCrashes
    /\ team \subseteq Nodes /\ silent \subseteq team
    /\ calls \subseteq Call /\ job \in Call \cup {NoJob}
    /\ todo \subseteq Nodes /\ check \in BOOLEAN /\ mwait \in Nodes \cup {"none"}
    /\ held \subseteq Ids
    /\ got \in [Clients -> SUBSET Ids] /\ reading \in [Ids -> SUBSET Clients]
    /\ cut \subseteq Ids /\ refused \in [Nodes -> SUBSET Ids]
    /\ acked \subseteq Ids /\ missed \subseteq Nodes \X Ids
    /\ done \in 0..MaxCalls

\* The master works on a deletion, or on nothing and waits for nobody.
JobFits ==
    /\ job # NoJob => job.kind = "delete"
    /\ job = NoJob => todo = {} /\ mwait = "none"

Basics == Typed /\ Serving /\ JobFits

\* The node still waits for the answer to c.
Awaited(c) ==
    /\ wanted[c.from] = c.id
    /\ st[c.from] = IF c.kind = "get" THEN "asked" ELSE "wait"

\* Of a node one request is live, which the master has not read or works on.
Live ==
    /\ \A c \in calls : c.live => Awaited(c)
    /\ job # NoJob /\ job.live =>
         Awaited(job) /\ \A c \in calls : c.live => c.from # job.from

\* The master waits for the node that has the one live message, on its job.
Messages ==
    \A n \in Nodes : \A m \in inbox[n] :
        m.live => mwait = n /\ job # NoJob /\ m.id = job.id

\* The node cannot give out the message any more.
Clean(n, i) ==
    \/ st[n] = "dead"
    \/ i \notin rows[n] /\ (st[n] \in {"asked", "yes", "no"} => wanted[n] # i)

\* The node that a deletion comes from has deleted the message.
Deleted ==
    /\ \A c \in calls : c.kind = "delete" => Clean(c.from, c.id)
    /\ job # NoJob => Clean(job.from, job.id)

\* So have those that were told, and once the client is told, all of them; but
\* for those that were not told in time.
Told ==
    job # NoJob =>
        \A n \in Nodes : n \notin todo /\ n # mwait /\ <<n, job.id>> \notin missed
                          => Clean(n, job.id)
Gone == \A i \in acked : \A n \in Nodes : <<n, i>> \notin missed => Clean(n, i)

\* The node has a lock for the message and will give it out.
Yes(n, i) == st[n] = "yes" /\ wanted[n] = i

\* Who has a message, or is about to give it out, has the lock, alone.
Alone(i) ==
    /\ (\E n \in Nodes : Yes(n, i)) \/ reading[i] # {} => i \in held
    /\ \A n, m \in Nodes : Yes(n, i) /\ Yes(m, i) => n = m
    /\ \A n \in Nodes : Yes(n, i) => reading[i] = {}
    /\ \A c, d \in reading[i] : c = d
Holders == \A i \in Ids \ cut : Together(i) => Alone(i)

\* The rows that a node has passed are its first ones, skip of them, and were
\* refused; the one it asks about comes next.
Scanned(n) ==
    /\ ~Reading(n) => skip[n] = 0
    /\ Reading(n) =>
         /\ refused[n] \subseteq rows[n] /\ Cardinality(refused[n]) = skip[n]
         /\ \A j \in rows[n], k \in refused[n] : j < k => j \in refused[n]
    /\ st[n] \in {"asked", "yes", "no"} =>
         /\ wanted[n] \in rows[n] /\ wanted[n] \notin refused[n]
         /\ refused[n] = {j \in rows[n] : j < wanted[n]}
Scan == \A n \in Nodes : Scanned(n)

Requests == Basics /\ Live
Deletions == Deleted /\ Messages /\ Told /\ Gone

\* Steps that change nothing but what the master knows of the nodes.
Still ==
    /\ UNCHANGED <<nodeVars, deletion, calls, held, history, crashes, team>>
    /\ up' \in {up, TRUE} /\ silent' \subseteq silent \cup team

\* Steps of the loop over the team that tell nobody.
Leave(n) == Erase(n) \/ PassOver(n)

-----------------------------------------------------------------------------
(***************************************************************************)
(* Types.                                                                  *)
(***************************************************************************)

\* The actions, with those alike put together.
LEMMA Steps ==
    ASSUME [Next]_vars
    PROVE  \/ Still
           \/ \E n \in Nodes, c \in Clients :
                Get(n, c) \/ \E i \in Ids : Delete(n, c, i)
           \/ \E n \in Nodes : Node(n) \/ Leave(n) \/ Tell(n)
           \/ \E c \in calls : Lock(c) \/ AcceptDelete(c)
           \/ TellTimeout \/ FinishDelete \/ MasterCrash
           \/ \E i \in Ids : Expire(i) \/ EndEarly(i)
<1>1. (UNCHANGED vars \/ MasterStart \/ \E n \in Nodes : FallSilent(n) \/ Recycle(n))
        => Still
  BY DEF Still, FallSilent, Recycle, MasterStart, vars, masterVars, process
<1> QED
  BY <1>1 DEF Next, Master, Leave

\* Leaving a node untold takes it off the list.
LEMMA LeaveSame ==
    ASSUME NEW n, Leave(n)
    PROVE  /\ n \in todo /\ todo' = todo \ {n} /\ check' \in BOOLEAN /\ mwait = "none"
           /\ team' \subseteq team /\ UNCHANGED <<nodeVars, up, crashes, calls, job>>
           /\ missed' = missed \cup NotTold({n}, job.from, job.id)
           /\ UNCHANGED <<mwait, held, got, reading, cut, refused, acked, done>>
BY DEF Leave, Erase, PassOver, Kept, Turn, process

LEMMA Names == "none" \notin Clients /\ "none" \notin Nodes
BY DeliveryAssumption

LEMMA NoJobIsNoCall == NoJob \notin Call
BY DEF NoJob, Call

\* A node that has given up has no live request.
LEMMA GivenUp ==
    ASSUME calls \subseteq Call, NEW n
    PROVE  /\ GiveUp(n) \subseteq Call
           /\ \A d \in GiveUp(n) : \E c \in calls :
                /\ d.from = c.from /\ d.kind = c.kind /\ d.id = c.id
                /\ d.live = (c.live /\ c.from # n)
<1>1. ASSUME NEW d \in GiveUp(n)
      PROVE  /\ d \in Call
             /\ \E c \in calls :
                  /\ d.from = c.from /\ d.kind = c.kind /\ d.id = c.id
                  /\ d.live = (c.live /\ c.from # n)
  <2>1. PICK c \in calls : d = [c EXCEPT !.live = c.live /\ c.from # n]
    BY <1>1 DEF GiveUp
  <2>2. c \in Call
    BY <2>1
  <2>3. (c.live /\ c.from # n) \in BOOLEAN
    OBVIOUS
  <2>4. d \in Call /\ d.from = c.from /\ d.kind = c.kind /\ d.id = c.id
        /\ d.live = (c.live /\ c.from # n)
    BY <2>1, <2>2, <2>3, Zenon DEF Call
  <2> QED
    BY <2>4
<1> QED
  BY <1>1

\* Answering the client ends the serving.
LEMMA ReplyTyped ==
    ASSUME Typed, Serving, NEW n \in Nodes, Reply(n), UNCHANGED rows
    PROVE  /\ st' \in [Nodes -> NodeState]
           /\ client' \in [Nodes -> Clients \cup {"none"}]
           /\ skip' \in [Nodes -> Nat]
           /\ wanted' \in [Nodes -> Ids \cup {0}]
           /\ Serving'
BY DEF Typed, Serving, Reply, NodeState

LEMMA ServeBasics ==
    ASSUME Basics, NEW n \in Nodes, NEW c \in Clients,
           Get(n, c) \/ \E i \in Ids : Delete(n, c, i)
    PROVE  Basics'
<1> USE DEF Basics
<1>1. done + 1 \in 0..MaxCalls
  <2>1. done < MaxCalls /\ done \in 0..MaxCalls
    BY DEF Get, Delete, Serve, Typed
  <2> QED
    BY <2>1, DeliveryAssumption
<1>2. CASE Get(n, c)
  <2>1. Typed'
    BY <1>1, <1>2 DEF Get, Serve, Typed, NodeState, masterVars, process, deletion
  <2>2. Serving'
    BY <1>2 DEF Get, Serve, Serving, Typed
  <2>3. JobFits'
    BY <1>2 DEF Get, JobFits, masterVars, deletion
  <2> QED
    BY <2>1, <2>2, <2>3
<1>3. ASSUME NEW i \in Ids, Delete(n, c, i) PROVE Basics'
  <2>1. [from |-> n, kind |-> "delete", id |-> i, live |-> TRUE] \in Call
    BY DEF Call
  <2>5. calls' \subseteq Call
    BY <1>3, <2>1 DEF Delete, Typed
  <2>6. rows' \in [Nodes -> SUBSET Ids]
    BY <1>3 DEF Delete, Typed
  <2>2. Typed'
    BY <1>1, <1>3, <2>5, <2>6 DEF Delete, Serve, Typed, NodeState, process, deletion
  <2>3. Serving'
    BY <1>3 DEF Delete, Serve, Serving, Typed
  <2>4. JobFits'
    BY <1>3 DEF Delete, JobFits, deletion
  <2> QED
    BY <2>2, <2>3, <2>4
<1> QED
  BY <1>2, <1>3

LEMMA NodeBasics ==
    ASSUME Basics, NEW n \in Nodes, Node(n)
    PROVE  Basics'
<1> USE DEF Basics
<1>1. CASE AskLock(n)
  <2>1. PICK i \in rows[n] :
          /\ wanted' = [wanted EXCEPT ![n] = i]
          /\ calls' = calls \cup {[from |-> n, kind |-> "get", id |-> i,
                                   live |-> TRUE]}
    BY <1>1 DEF AskLock
  <2>2. i \in Ids
    BY DEF Typed
  <2>3. [from |-> n, kind |-> "get", id |-> i, live |-> TRUE] \in Call
    BY <2>2 DEF Call
  <2>4. Typed'
    BY <1>1, <2>1, <2>2, <2>3 DEF AskLock, Typed, NodeState, process, deletion, history
  <2>5. Serving'
    BY <1>1, <2>1, <2>2 DEF AskLock, Serving, Typed
  <2>6. JobFits'
    BY <1>1 DEF AskLock, JobFits, deletion
  <2> QED
    BY <2>4, <2>5, <2>6
<1>2. CASE GetFails(n)
  BY <1>2, ReplyTyped
     DEF GetFails, Typed, JobFits, masterVars, process, deletion, history
<1>3. CASE Deliver(n)
  <2>1. client[n] \in Clients /\ wanted[n] \in Ids
    BY <1>3 DEF Deliver, Serving
  <2>2. /\ got' \in [Clients -> SUBSET Ids]
        /\ reading' \in [Ids -> SUBSET Clients]
    BY <1>3, <2>1 DEF Deliver, Typed
  <2> QED
    BY <1>3, <2>2, ReplyTyped DEF Deliver, Typed, JobFits, masterVars, process, deletion
<1>4. CASE PassRow(n) \/ PassUnasked(n)
  <2>1. PICK i \in Ids : st[n] \in {"no", "look"} /\ Pass(n, i)
    BY <1>4 DEF PassRow, PassUnasked, Serving, Typed
  <2>2. Typed'
    BY <2>1 DEF Pass, Typed, NodeState, masterVars, process, deletion
  <2>3. Serving' /\ JobFits'
    BY <2>1 DEF Pass, Serving, Typed, JobFits, masterVars, deletion
  <2> QED
    BY <2>2, <2>3
<1>5. CASE LockTimeout(n)
  <2>1. Typed'
    BY <1>5, GivenUp DEF LockTimeout, Typed, NodeState, process, history
  <2>2. Serving'
    BY <1>5 DEF LockTimeout, Serving, Typed
  <2>3. JobFits'
    BY <1>5 DEF LockTimeout, JobFits
  <2> QED
    BY <2>1, <2>2, <2>3
<1>6. CASE DeleteTimeout(n)
  <2>1. wanted[n] \in Ids
    BY <1>6 DEF DeleteTimeout, Serving
  <2>2. /\ job' \in Call \cup {NoJob}
        /\ job' = NoJob <=> job = NoJob
        /\ job # NoJob => job'.kind = job.kind
    <3>1. CASE job # NoJob /\ job.from = n
      <4>1. job' = [job EXCEPT !.live = FALSE]
        BY <1>6, <3>1 DEF DeleteTimeout
      <4>2. job \in Call
        BY <3>1 DEF Typed
      <4>3. job' \in Call /\ job'.kind = job.kind
        BY <4>1, <4>2 DEF Call
      <4> QED
        BY <3>1, <4>3, NoJobIsNoCall
    <3>2. CASE ~(job # NoJob /\ job.from = n)
      BY <1>6, <3>2 DEF DeleteTimeout, Typed
    <3> QED
      BY <3>1, <3>2
  <2>3. NotTold(Nodes, n, wanted[n]) \subseteq Nodes \X Ids
    BY <2>1 DEF NotTold
  <2>5. Typed' /\ Serving'
    BY <1>6, <2>1, <2>2, <2>3, GivenUp, ReplyTyped DEF DeleteTimeout, Typed, process
  <2>4. JobFits'
    BY <1>6, <2>2 DEF DeleteTimeout, JobFits
  <2> QED
    BY <2>4, <2>5
<1>7. CASE Redo(n)
  <2>1. PICK m \in inbox[n] :
          /\ rows' = [rows EXCEPT ![n] = @ \ {m.id}]
          /\ inbox' = [inbox EXCEPT ![n] = @ \ {m}]
          /\ mwait' = IF m.live THEN "none" ELSE mwait
    BY <1>7 DEF Redo
  <2>2. Typed'
    BY <1>7, <2>1 DEF Redo, Typed, process, history
  <2>3. Serving' /\ JobFits'
    BY <1>7, <2>1 DEF Redo, Serving, Typed, JobFits
  <2> QED
    BY <2>2, <2>3
<1> QED
  BY <1>1, <1>2, <1>3, <1>4, <1>5, <1>6, <1>7 DEF Node

LEMMA UnheardTyped ==
    ASSUME Basics, NEW n \in Nodes
    PROVE  /\ Unheard(inbox[n]) \in SUBSET [id : Ids, live : BOOLEAN]
           /\ \A m \in Unheard(inbox[n]) : ~m.live
<1>1. \A m \in inbox[n] : m \in [id : Ids, live : BOOLEAN]
  BY DEF Basics, Typed
<1> QED
  BY <1>1 DEF Unheard

LEMMA MasterBasics ==
    ASSUME Basics, Live,
           \/ \E c \in calls : Lock(c) \/ AcceptDelete(c)
           \/ \E n \in Nodes : Leave(n) \/ Tell(n)
           \/ TellTimeout \/ FinishDelete \/ MasterCrash
    PROVE  Basics'
<1> USE DEF Basics
<1>1. ASSUME NEW c \in calls, Lock(c) PROVE Basics'
  <2>1. c \in Call
    BY DEF Typed
  <2>2. c.from \in Nodes /\ c.id \in Ids
    BY <2>1 DEF Call
  <2>3. Typed'
    BY <1>1, <2>2 DEF Lock, Typed, Answered, NodeState, process, deletion, history
  <2>4. c.live => st[c.from] = "asked"
    BY <1>1 DEF Lock, Live, Awaited
  <2>5. Serving'
    BY <1>1, <2>2, <2>4 DEF Lock, Serving, Answered, Typed
  <2>6. JobFits'
    BY <1>1 DEF Lock, JobFits, deletion
  <2> QED
    BY <2>3, <2>5, <2>6
<1>2. ASSUME NEW c \in calls, AcceptDelete(c) PROVE Basics'
  <2>1. c \in Call
    BY DEF Typed
  <2>4. NotTold(Nodes \ team, c.from, c.id) \subseteq Nodes \X Ids
    BY <2>1 DEF NotTold, Call
  <2>2. Typed' /\ Serving'
    BY <1>2, <2>1, <2>4 DEF AcceptDelete, Typed, Serving, nodeVars, process
  <2>3. JobFits'
    BY <1>2, <2>1, NoJobIsNoCall DEF AcceptDelete, JobFits
  <2> QED
    BY <2>2, <2>3
<1>3. ASSUME NEW n \in Nodes, Tell(n) PROVE Basics'
  <2>1. job # NoJob
    BY <1>3 DEF Tell, Kept, Turn, JobFits
  <2>2. job.id \in Ids
    BY <2>1 DEF Typed, Call
  <2>3. inbox' \in [Nodes -> SUBSET [id : Ids, live : BOOLEAN]]
        /\ mwait' \in Nodes \cup {"none"}
    <3>1. [id |-> job.id, live |-> TRUE] \in [id : Ids, live : BOOLEAN]
      BY <2>2
    <3>2. CASE st[n] = "dead"
      <4>1. UNCHANGED <<inbox, mwait>>
        BY <1>3, <3>2 DEF Tell
      <4> QED
        BY <4>1 DEF Typed
    <3>3. CASE st[n] # "dead"
      <4>1. /\ inbox' = [inbox EXCEPT ![n] = @ \cup {[id |-> job.id, live |-> TRUE]}]
            /\ mwait' = n
        BY <1>3, <3>3 DEF Tell
      <4> QED
        BY <3>1, <4>1 DEF Typed
    <3> QED
      BY <3>2, <3>3
  <2>4. Typed'
    BY <1>3, <2>3 DEF Tell, Kept, Turn, Typed, process, history
  <2>5. Serving' /\ JobFits'
    BY <1>3, <2>1 DEF Tell, Kept, Turn, Serving, JobFits
  <2> QED
    BY <2>4, <2>5
<1>4. CASE TellTimeout
  <2>1. job # NoJob /\ mwait \in Nodes
    BY <1>4 DEF TellTimeout, JobFits, Typed
  <2>2. job.id \in Ids
    BY <2>1 DEF Typed, Call
  <2>3. Unheard(inbox[mwait]) \in SUBSET [id : Ids, live : BOOLEAN]
    BY <2>1, UnheardTyped
  <2>6. NotTold({mwait}, job.from, job.id) \subseteq Nodes \X Ids
    BY <2>1, <2>2 DEF NotTold
  <2>4. Typed'
    BY <1>4, <2>1, <2>3, <2>6 DEF TellTimeout, Typed, process
  <2>5. Serving' /\ JobFits'
    BY <1>4, <2>1 DEF TellTimeout, Serving, JobFits
  <2> QED
    BY <2>4, <2>5
<1>5. CASE FinishDelete
  <2>1. job \in Call
    BY <1>5 DEF FinishDelete, Typed
  <2>2. job.id \in Ids /\ job.from \in Nodes
    BY <2>1 DEF Call
  <2>3. reading' \in [Ids -> SUBSET Clients]
    BY <1>5, <2>2 DEF FinishDelete, Typed
  <2>4. JobFits'
    BY <1>5 DEF FinishDelete, JobFits
  <2>5. CASE job.live
    BY <1>5, <2>2, <2>3, <2>4, <2>5, ReplyTyped DEF FinishDelete, Typed, process
  <2>6. CASE ~job.live
    BY <1>5, <2>2, <2>3, <2>4, <2>6 DEF FinishDelete, Typed, Serving, process
  <2> QED
    BY <2>5, <2>6
<1>6. ASSUME NEW n \in Nodes, Leave(n) PROVE Basics'
  <2>1. job \in Call
    BY <1>6, LeaveSame DEF Typed, JobFits
  <2>2. NotTold({n}, job.from, job.id) \subseteq Nodes \X Ids
    BY <2>1 DEF NotTold, Call
  <2>3. silent' \subseteq team'
    BY <1>6 DEF Leave, Erase, PassOver, Typed, process
  <2>4. Typed'
    BY <1>6, <2>2, <2>3, LeaveSame DEF Typed, nodeVars
  <2>5. Serving' /\ JobFits'
    BY <1>6, LeaveSame, NoJobIsNoCall, <2>1 DEF Serving, JobFits, nodeVars
  <2> QED
    BY <2>4, <2>5
<1>7. CASE MasterCrash
  <2>1. crashes + 1 \in 0..MaxCrashes
    BY <1>7, DeliveryAssumption DEF MasterCrash, Typed
  <2>2. inbox' \in [Nodes -> SUBSET [id : Ids, live : BOOLEAN]]
    BY <1>7, UnheardTyped DEF MasterCrash
  <2>3. Typed'
    BY <1>7, <2>1, <2>2 DEF MasterCrash, Typed
  <2>4. Serving' /\ JobFits'
    BY <1>7 DEF MasterCrash, Serving, JobFits
  <2> QED
    BY <2>3, <2>4
<1> QED
  BY <1>1, <1>2, <1>3, <1>4, <1>5, <1>6, <1>7

LEMMA BasicsStep == Basics /\ Live /\ [Next]_vars => Basics'
<1>1. ASSUME Basics, Still PROVE Basics'
  BY <1>1 DEF Still, Basics, Typed, Serving, JobFits, nodeVars, deletion, history
<1>2. ASSUME Basics, NEW i \in Ids, Expire(i) \/ EndEarly(i) PROVE Basics'
  BY <1>2 DEF Expire, EndEarly, Basics, Typed, Serving, JobFits, nodeVars, process,
              deletion
<1> QED
  BY <1>1, <1>2, Steps, ServeBasics, NodeBasics, MasterBasics

-----------------------------------------------------------------------------
(***************************************************************************)
(* Requests under way.                                                     *)
(***************************************************************************)

\* A live request like d.
HasLive(d) ==
    \E c \in calls : c.from = d.from /\ c.kind = d.kind /\ c.id = d.id /\ c.live

\* A step of n that leaves the live requests of the others theirs; one of its
\* own that is live then is new.
OwnStep(n) ==
    /\ \A m \in Nodes : m # n => st'[m] = st[m] /\ wanted'[m] = wanted[m]
    /\ \A d \in calls' : d.live => IF d.from = n THEN Awaited(d)' ELSE HasLive(d)
    /\ job' # NoJob /\ job'.live => job' = job /\ job.from # n

LEMMA LiveOthers ==
    ASSUME Basics, Live, NEW n \in Nodes, OwnStep(n)
    PROVE  Live'
<1> USE DEF Basics
<1>1. \A d \in calls : d.from \in Nodes
  BY DEF Typed, Call
<1>2. ASSUME NEW d \in calls', d.live PROVE Awaited(d)'
  <2>1. CASE d.from = n
    BY <1>2, <2>1 DEF OwnStep
  <2>2. CASE d.from # n
    <3>1. PICK c \in calls : /\ c.from = d.from /\ c.kind = d.kind
                             /\ c.id = d.id /\ c.live
      BY <1>2, <2>2 DEF OwnStep, HasLive
    <3> QED
      BY <1>1, <2>2, <3>1 DEF Live, Awaited, OwnStep
  <2> QED
    BY <2>1, <2>2
<1>3. ASSUME job' # NoJob, job'.live
      PROVE  Awaited(job)' /\ \A d \in calls' : d.live => d.from # job'.from
  <2>1. job' = job /\ job.from # n /\ job.from \in Nodes /\ Awaited(job)
    BY <1>3 DEF Live, Typed, Call, OwnStep
  <2>2. Awaited(job)'
    BY <2>1 DEF Awaited, OwnStep
  <2>3. \A d \in calls' : d.live => d.from # job.from
    BY <1>3, <2>1 DEF Live, OwnStep, HasLive
  <2> QED
    BY <2>1, <2>2, <2>3
<1> QED
  BY <1>2, <1>3 DEF Live

\* A node that has no live request.
LEMMA NoneLive ==
    ASSUME Basics, Live, NEW n \in Nodes, st[n] \notin {"asked", "wait"}
    PROVE  /\ \A d \in calls : d.live => d.from # n
           /\ job # NoJob /\ job.live => job.from # n
<1>1. \A d \in calls : d.kind \in {"get", "delete"}
  BY DEF Basics, Typed, Call
<1> QED
  BY <1>1 DEF Live, Awaited, Basics, JobFits

LEMMA LiveServe ==
    ASSUME Basics, Live, NEW n \in Nodes, NEW c \in Clients,
           Get(n, c) \/ \E i \in Ids : Delete(n, c, i)
    PROVE  Live'
<1>1. /\ \A d \in calls : d.live => d.from # n
      /\ job # NoJob /\ job.live => job.from # n
  <2>1. st[n] = "idle"
    BY DEF Get, Delete, Serve
  <2> QED
    BY <2>1, NoneLive
<1>2. \A m \in Nodes : m # n => st'[m] = st[m] /\ wanted'[m] = wanted[m]
  BY DEF Get, Delete, Serve, Basics, Typed
<1>3. job' = job
  BY DEF Get, Delete, masterVars, deletion
<1>4. CASE Get(n, c)
  <2>1. calls' = calls
    BY <1>4 DEF Get, masterVars
  <2>2. OwnStep(n)
    BY <1>1, <1>2, <1>3, <2>1 DEF OwnStep, HasLive
  <2> QED
    BY <2>2, LiveOthers
<1>5. ASSUME NEW i \in Ids, Delete(n, c, i) PROVE Live'
  <2> DEFINE d == [from |-> n, kind |-> "delete", id |-> i, live |-> TRUE]
  <2>1. calls' = calls \cup {d} \/ calls' = calls
    BY <1>5 DEF Delete
  <2>2. d.from = n /\ Awaited(d)'
    BY <1>5 DEF Delete, Awaited, Basics, Typed
  <2> HIDE DEF d
  <2>3. OwnStep(n)
    BY <1>1, <1>2, <1>3, <2>1, <2>2 DEF OwnStep, HasLive
  <2> QED
    BY <2>3, LiveOthers
<1> QED
  BY <1>4, <1>5

LEMMA LiveNode ==
    ASSUME Basics, Live, NEW n \in Nodes, Node(n)
    PROVE  Live'
<1> USE DEF Basics
<1>1. \A m \in Nodes : m # n => st'[m] = st[m] /\ wanted'[m] = wanted[m]
  BY DEF Node, AskLock, GetFails, Deliver, PassRow, PassUnasked, Pass, LockTimeout,
         DeleteTimeout, Redo, Reply, Typed
<1>2. CASE AskLock(n)
  <2>1. PICK i \in rows[n] :
          /\ wanted' = [wanted EXCEPT ![n] = i]
          /\ calls' = calls \cup {[from |-> n, kind |-> "get", id |-> i,
                                   live |-> TRUE]}
    BY <1>2 DEF AskLock
  <2> DEFINE d == [from |-> n, kind |-> "get", id |-> i, live |-> TRUE]
  <2>2. d.from = n /\ Awaited(d)'
    BY <1>2, <2>1 DEF AskLock, Awaited, Typed
  <2>3. calls' = calls \cup {d}
    BY <2>1
  <2>4. job' = job /\ st[n] = "look"
    BY <1>2 DEF AskLock, deletion
  <2> HIDE DEF d
  <2>5. OwnStep(n)
    BY <1>1, <2>2, <2>3, <2>4, NoneLive DEF OwnStep, HasLive
  <2> QED
    BY <2>5, LiveOthers
<1>3. CASE GetFails(n) \/ Deliver(n) \/ PassRow(n) \/ PassUnasked(n) \/ Redo(n)
  <2>1. st[n] \notin {"asked", "wait"} /\ calls' = calls /\ job' = job
    BY <1>3 DEF GetFails, Deliver, PassRow, PassUnasked, Pass, Redo, masterVars,
                deletion
  <2>2. OwnStep(n)
    BY <1>1, <2>1, NoneLive DEF OwnStep, HasLive
  <2> QED
    BY <2>2, LiveOthers
<1>4. ASSUME calls' = GiveUp(n), NEW d \in calls', d.live
      PROVE  d.from # n /\ HasLive(d)
  <2>0. calls \subseteq Call /\ d \in GiveUp(n)
    BY <1>4 DEF Typed
  <2>1. PICK c \in calls : /\ d.from = c.from /\ d.kind = c.kind /\ d.id = c.id
                           /\ d.live = (c.live /\ c.from # n)
    BY <2>0, GivenUp, Zenon
  <2> QED
    BY <1>4, <2>1 DEF HasLive
<1>5. CASE LockTimeout(n)
  <2>1. calls' = GiveUp(n) /\ job' = job /\ st[n] = "asked"
    BY <1>5 DEF LockTimeout
  <2>2. job # NoJob /\ job.live => job.from # n
    BY <2>1 DEF Live, Awaited, JobFits
  <2>3. OwnStep(n)
    BY <1>1, <1>4, <2>1, <2>2 DEF OwnStep
  <2> QED
    BY <2>3, LiveOthers
<1>6. CASE DeleteTimeout(n)
  <2>1. calls' = GiveUp(n)
    BY <1>6 DEF DeleteTimeout
  <2>2. job' # NoJob /\ job'.live => job' = job /\ job.from # n
    <3>1. CASE job # NoJob /\ job.from = n
      <4>1. job' = [job EXCEPT !.live = FALSE] /\ job \in Call
        BY <1>6, <3>1 DEF DeleteTimeout, Typed
      <4>2. job'.live = FALSE
        BY <4>1 DEF Call
      <4> QED
        BY <4>2
    <3>2. CASE ~(job # NoJob /\ job.from = n)
      BY <1>6, <3>2 DEF DeleteTimeout
    <3> QED
      BY <3>1, <3>2
  <2>3. OwnStep(n)
    BY <1>1, <1>4, <2>1, <2>2 DEF OwnStep
  <2> QED
    BY <2>3, LiveOthers
<1> QED
  BY <1>2, <1>3, <1>5, <1>6 DEF Node

LEMMA LiveMaster ==
    ASSUME Basics, Live,
           \/ \E c \in calls : Lock(c) \/ AcceptDelete(c)
           \/ \E n \in Nodes : Leave(n) \/ Tell(n)
           \/ TellTimeout \/ FinishDelete \/ MasterCrash
    PROVE  Live'
<1> USE DEF Basics
<1>1. \A c \in calls : /\ c \in Call /\ c.from \in Nodes
                       /\ c.kind \in {"get", "delete"} /\ c.live \in BOOLEAN
  BY DEF Typed, Call
\* Two live requests of one node are one.
<1>2. \A c, d \in calls : c.live /\ d.live /\ c.from = d.from => c = d
  <2> SUFFICES ASSUME NEW c \in calls, NEW d \in calls, c.live, d.live,
                      c.from = d.from
               PROVE  c = d
    OBVIOUS
  <2>1. c.id = d.id /\ c.kind = d.kind
    BY <1>1 DEF Live, Awaited
  <2>2. c \in Call /\ d \in Call /\ c.live = d.live
    BY <1>1
  <2> QED
    BY <2>1, <2>2 DEF Call
<1>3. ASSUME NEW c \in calls, Lock(c) PROVE Live'
  <2>1. calls' = calls \ {c} /\ job = NoJob /\ job' = NoJob
    BY <1>3 DEF Lock, deletion
  <2>2. ASSUME NEW d \in calls', d.live PROVE Awaited(d)'
    <3>1. c.live => d.from # c.from
      BY <1>2, <2>1, <2>2
    <3>2. st'[d.from] = st[d.from] /\ wanted' = wanted
      BY <1>1, <1>3, <2>1, <3>1 DEF Lock, Answered, Typed
    <3> QED
      BY <2>1, <2>2, <3>2 DEF Live, Awaited
  <2> QED
    BY <2>1, <2>2 DEF Live
<1>4. ASSUME NEW c \in calls, AcceptDelete(c) PROVE Live'
  <2>1. /\ calls' = calls \ {c} /\ job' = c
        /\ UNCHANGED <<st, wanted>>
    BY <1>4 DEF AcceptDelete, nodeVars
  <2>2. \A d \in calls : Awaited(d)' <=> Awaited(d)
    BY <2>1 DEF Awaited
  <2>3. Awaited(job)' <=> Awaited(c)
    BY <2>1 DEF Awaited
  <2> QED
    BY <1>2, <2>1, <2>2, <2>3 DEF Live
<1>5. CASE (\E n \in Nodes : Tell(n)) \/ TellTimeout \/ MasterCrash
  BY <1>5 DEF Tell, TellTimeout, MasterCrash, Live, Awaited
<1>7. ASSUME NEW n \in Nodes, Leave(n) PROVE Live'
  BY <1>7, LeaveSame DEF Live, Awaited, nodeVars
<1>6. CASE FinishDelete
  <2>1. job' = NoJob /\ calls' = calls /\ job \in Call
    BY <1>6 DEF FinishDelete, Typed
  <2>2. ASSUME NEW d \in calls, d.live PROVE Awaited(d)'
    <3>1. job.live => d.from # job.from
      BY <1>6, <2>2 DEF Live, FinishDelete
    <3>2. st'[d.from] = st[d.from] /\ wanted'[d.from] = wanted[d.from]
      BY <1>1, <1>6, <2>1, <3>1 DEF FinishDelete, Reply, Typed, Call
    <3> QED
      BY <2>1, <2>2, <3>2 DEF Live, Awaited
  <2> QED
    BY <2>1, <2>2 DEF Live
<1> QED
  BY <1>3, <1>4, <1>5, <1>6, <1>7

LEMMA LiveStep == Basics /\ Live /\ [Next]_vars => Live'
<1>1. ASSUME Live, Still PROVE Live'
  BY <1>1 DEF Live, Awaited, Still, nodeVars, deletion
<1>2. ASSUME Live, NEW i \in Ids, Expire(i) \/ EndEarly(i) PROVE Live'
  BY <1>2 DEF Expire, EndEarly, Live, Awaited, nodeVars, deletion
<1> QED
  BY <1>1, <1>2, Steps, LiveServe, LiveNode, LiveMaster

-----------------------------------------------------------------------------
(***************************************************************************)
(* Deletions.                                                              *)
(***************************************************************************)

\* No step brings a message back to a node.
LEMMA CleanStays ==
    ASSUME Requests, [Next]_vars, NEW n \in Nodes, NEW i, Clean(n, i)
    PROVE  Clean(n, i)'
<1> USE DEF Requests, Basics
<1>1. CASE UNCHANGED <<rows, st, wanted>>
  BY <1>1 DEF Clean
<1>2. ASSUME NEW m \in Nodes, NEW c \in Clients, Get(m, c) PROVE Clean(n, i)'
  BY <1>2 DEF Get, Serve, Clean, Typed
<1>3. ASSUME NEW m \in Nodes, NEW c \in Clients, NEW j \in Ids, Delete(m, c, j)
      PROVE  Clean(n, i)'
  BY <1>3 DEF Delete, Serve, Clean, Typed
<1>4. ASSUME NEW m \in Nodes, AskLock(m) PROVE Clean(n, i)'
  <2>1. PICK j \in rows[m] : wanted' = [wanted EXCEPT ![m] = j]
    BY <1>4 DEF AskLock
  <2> QED
    BY <1>4, <2>1 DEF AskLock, Clean, Typed
<1>5. ASSUME NEW m \in Nodes, GetFails(m) \/ Deliver(m) \/ DeleteTimeout(m)
      PROVE  Clean(n, i)'
  BY <1>5 DEF GetFails, Deliver, DeleteTimeout, Reply, Clean, Typed
<1>6. ASSUME NEW m \in Nodes, PassRow(m) \/ PassUnasked(m) \/ LockTimeout(m)
      PROVE  Clean(n, i)'
  BY <1>6 DEF PassRow, PassUnasked, Pass, LockTimeout, Clean, Typed
<1>7. ASSUME NEW m \in Nodes, Redo(m) PROVE Clean(n, i)'
  <2>1. PICK j \in inbox[m] : rows' = [rows EXCEPT ![m] = @ \ {j.id}]
    BY <1>7 DEF Redo
  <2> QED
    BY <1>7, <2>1 DEF Redo, Clean, Typed
<1>8. ASSUME NEW c \in calls, Lock(c) PROVE Clean(n, i)'
  <2>1. c.from = n /\ c.live => st[n] = "asked"
    BY <1>8 DEF Lock, Live, Awaited
  <2>2. UNCHANGED <<rows, wanted>> /\ \E s \in {"yes", "no"} : st' = Answered(c, s)
    BY <1>8 DEF Lock
  <2> QED
    BY <2>1, <2>2 DEF Answered, Clean, Typed
<1>9. CASE FinishDelete
  <2>1. job.live => job.from \in Nodes /\ st[job.from] = "wait"
    BY <1>9 DEF FinishDelete, Live, Awaited, JobFits, Typed, Call
  <2>2. UNCHANGED rows
    BY <1>9 DEF FinishDelete
  <2>3. CASE job.live
    BY <1>9, <2>1, <2>2, <2>3 DEF FinishDelete, Reply, Clean, Typed
  <2>4. CASE ~job.live
    BY <1>9, <2>2, <2>4 DEF FinishDelete, Clean
  <2> QED
    BY <2>3, <2>4
<1>10. ASSUME \/ \E c \in calls : AcceptDelete(c)
              \/ \E m \in Nodes : Tell(m)
              \/ Still \/ TellTimeout \/ MasterCrash
              \/ \E j \in Ids : Expire(j) \/ EndEarly(j)
       PROVE  UNCHANGED <<rows, st, wanted>>
  BY <1>10 DEF AcceptDelete, Tell, Still, TellTimeout, MasterCrash, Expire, EndEarly,
               nodeVars
<1>11. ASSUME NEW m \in Nodes, Leave(m)
       PROVE  UNCHANGED <<rows, st, wanted>>
  BY <1>11, LeaveSame DEF nodeVars
<1> QED
  BY <1>1, <1>2, <1>3, <1>4, <1>5, <1>6, <1>7, <1>8, <1>9, <1>10, <1>11, Steps
     DEF Node

\* Nobody takes back having given up.
LEMMA MissedStays ==
    ASSUME [Next]_vars
    PROVE  missed \subseteq missed' /\ cut \subseteq cut'
<1>1. CASE UNCHANGED <<missed, cut>>
  BY <1>1
<1>2. ASSUME NEW m \in Nodes, Leave(m)
      PROVE  missed \subseteq missed' /\ cut \subseteq cut'
  BY <1>2, LeaveSame
<1>3. CASE \/ \E m \in Nodes : DeleteTimeout(m)
           \/ \E c \in calls : AcceptDelete(c)
           \/ TellTimeout
           \/ \E j \in Ids : Expire(j) \/ EndEarly(j)
           \/ MasterCrash
  BY <1>3 DEF DeleteTimeout, AcceptDelete, TellTimeout, Expire, EndEarly, MasterCrash
<1>4. ASSUME NEW m \in Nodes,
             \/ \E c \in Clients : Get(m, c) \/ \E j \in Ids : Delete(m, c, j)
             \/ AskLock(m) \/ GetFails(m) \/ Deliver(m) \/ PassRow(m)
             \/ PassUnasked(m) \/ LockTimeout(m) \/ Redo(m) \/ Tell(m)
      PROVE  UNCHANGED <<missed, cut>>
  BY <1>4 DEF Get, Delete, AskLock, GetFails, Deliver, PassRow, PassUnasked, Pass,
     LockTimeout, Redo, Tell, history
<1>5. ASSUME Still \/ FinishDelete \/ \E c \in calls : Lock(c)
      PROVE  UNCHANGED <<missed, cut>>
  BY <1>5 DEF Still, FinishDelete, Lock, history
<1> QED
  BY <1>1, <1>2, <1>3, <1>4, <1>5, Steps DEF Node

\* The job goes on, or there is none afterwards, but where one is accepted.
LEMMA JobGoesOn ==
    ASSUME Requests, [Next]_vars, job' # NoJob
    PROVE  \/ job # NoJob /\ job'.from = job.from /\ job'.id = job.id
           \/ \E c \in calls : AcceptDelete(c)
<1> USE DEF Requests, Basics
<1>1. CASE job' = job
  BY <1>1
<1>2. ASSUME NEW m \in Nodes, DeleteTimeout(m)
      PROVE  job # NoJob /\ job'.from = job.from /\ job'.id = job.id
  <2>1. CASE job # NoJob /\ job.from = m
    <3>1. job' = [job EXCEPT !.live = FALSE] /\ job \in Call
      BY <1>2, <2>1 DEF DeleteTimeout, Typed
    <3> QED
      BY <2>1, <3>1 DEF Call
  <2>2. CASE ~(job # NoJob /\ job.from = m)
    BY <1>2, <2>2 DEF DeleteTimeout
  <2> QED
    BY <2>1, <2>2
<1>3. ASSUME NEW m \in Nodes,
             \/ \E c \in Clients : Get(m, c) \/ \E j \in Ids : Delete(m, c, j)
             \/ AskLock(m) \/ GetFails(m) \/ Deliver(m) \/ PassRow(m)
             \/ PassUnasked(m) \/ LockTimeout(m) \/ Redo(m) \/ Tell(m)
      PROVE  job' = job
  BY <1>3 DEF Get, Delete, AskLock, GetFails, Deliver, PassRow, PassUnasked, Pass,
     LockTimeout, Redo, Tell, masterVars, deletion
<1>4. ASSUME NEW m \in Nodes, Leave(m) PROVE job' = job
  BY <1>4, LeaveSame
<1>5. ASSUME \/ Still \/ TellTimeout \/ \E c \in calls : Lock(c)
             \/ \E j \in Ids : Expire(j) \/ EndEarly(j)
      PROVE  job' = job
  BY <1>5 DEF Still, TellTimeout, Lock, Expire, EndEarly, deletion
<1>6. CASE FinishDelete \/ MasterCrash
  BY <1>6 DEF FinishDelete, MasterCrash
<1> QED
  BY <1>1, <1>2, <1>3, <1>4, <1>5, <1>6, Steps DEF Node

\* A deletion that a node asks for is done.
LEMMA DeletedStep == Requests /\ Deleted /\ [Next]_vars => Deleted'
<1> USE DEF Requests, Basics
<1> SUFFICES ASSUME Requests, Deleted, [Next]_vars
             PROVE  Deleted'
  OBVIOUS
<1>0. \A c \in calls : c.from \in Nodes /\ c.kind \in {"get", "delete"}
  BY DEF Typed, Call
<1>1. ASSUME NEW d \in calls', d.kind = "delete" PROVE Clean(d.from, d.id)'
  <2>1. ASSUME NEW c \in calls, d.from = c.from, d.kind = c.kind, d.id = c.id
        PROVE  Clean(d.from, d.id)'
    BY <1>0, <1>1, <2>1, CleanStays DEF Deleted
  <2>2. ASSUME NEW m \in Nodes, NEW c \in Clients, NEW j \in Ids, Delete(m, c, j)
        PROVE  Clean(d.from, d.id)'
    <3> DEFINE e == [from |-> m, kind |-> "delete", id |-> j, live |-> TRUE]
    <3>1. d \in calls \/ d = e
      BY <2>2 DEF Delete
    <3>2. e.from = m /\ e.id = j
      OBVIOUS
    <3>3. j \notin rows'[m] /\ st'[m] = "wait"
      BY <2>2 DEF Delete, Typed
    <3> HIDE DEF e
    <3> QED
      BY <2>1, <3>1, <3>2, <3>3 DEF Clean
  <2>3. ASSUME NEW m \in Nodes, AskLock(m) PROVE Clean(d.from, d.id)'
    BY <1>1, <2>1, <2>3 DEF AskLock
  <2>4. ASSUME NEW m \in Nodes, LockTimeout(m) \/ DeleteTimeout(m)
        PROVE  Clean(d.from, d.id)'
    <3>1. d \in GiveUp(m)
      BY <2>4 DEF LockTimeout, DeleteTimeout
    <3> QED
      BY <2>1, <3>1, GivenUp DEF Typed
  <2>5. ASSUME NEW m \in Nodes,
               \/ \E c \in Clients : Get(m, c)
               \/ GetFails(m) \/ Deliver(m) \/ PassRow(m) \/ PassUnasked(m)
               \/ Redo(m) \/ Tell(m)
        PROVE  calls' = calls
    BY <2>5 DEF Get, GetFails, Deliver, PassRow, PassUnasked, Pass, Redo, Tell,
       masterVars
  <2>6. ASSUME NEW m \in Nodes, Leave(m) PROVE calls' = calls
    BY <2>6, LeaveSame
  <2>7. ASSUME \/ Still \/ TellTimeout \/ FinishDelete \/ MasterCrash
               \/ \E c \in calls : Lock(c) \/ AcceptDelete(c)
               \/ \E j \in Ids : Expire(j) \/ EndEarly(j)
        PROVE  calls' \subseteq calls
    BY <2>7 DEF Still, TellTimeout, FinishDelete, MasterCrash, Lock, AcceptDelete,
       Expire, EndEarly
  <2> QED
    BY <2>1, <2>2, <2>3, <2>4, <2>5, <2>6, <2>7, Steps DEF Node
<1>2. ASSUME job' # NoJob PROVE Clean(job.from, job.id)'
  <2>1. CASE job # NoJob /\ job'.from = job.from /\ job'.id = job.id
    <3>1. job.from \in Nodes /\ Clean(job.from, job.id)
      BY <2>1 DEF Deleted, Typed, Call
    <3>2. \A m \in Nodes : \A i : Clean(m, i) => Clean(m, i)'
      BY CleanStays
    <3> QED
      BY <2>1, <3>1, <3>2 DEF Clean
  <2>2. ASSUME NEW c \in calls, AcceptDelete(c) PROVE Clean(job.from, job.id)'
    <3>1. job' = c /\ Clean(c.from, c.id) /\ UNCHANGED <<rows, st, wanted>>
      BY <2>2 DEF AcceptDelete, Deleted, nodeVars
    <3> QED
      BY <3>1 DEF Clean
  <2> QED
    BY <1>2, <2>1, <2>2, JobGoesOn
<1> QED
  BY <1>1, <1>2 DEF Deleted

LEMMA MessagesStep ==
    Requests /\ Messages /\ [Next]_vars => Messages'
<1> USE DEF Requests, Basics
<1> SUFFICES ASSUME Requests, Messages, [Next]_vars
             PROVE  Messages'
  OBVIOUS
<1>1. CASE UNCHANGED <<inbox, mwait, job>>
  BY <1>1 DEF Messages
<1>2. ASSUME NEW n \in Nodes, LockTimeout(n) PROVE Messages'
  BY <1>2 DEF LockTimeout, Messages, Typed
<1>3. ASSUME NEW n \in Nodes, DeleteTimeout(n) PROVE Messages'
  <2>1. UNCHANGED <<inbox, mwait>>
    BY <1>3 DEF DeleteTimeout
  <2>2. job # NoJob => job' # NoJob /\ job'.id = job.id
    <3>1. CASE job # NoJob /\ job.from = n
      <4>1. job' = [job EXCEPT !.live = FALSE] /\ job \in Call
        BY <1>3, <3>1 DEF DeleteTimeout, Typed
      <4>2. job' \in Call /\ job'.id = job.id
        BY <4>1 DEF Call
      <4> QED
        BY <4>2, NoJobIsNoCall
    <3>2. CASE ~(job # NoJob /\ job.from = n)
      BY <1>3, <3>2 DEF DeleteTimeout
    <3> QED
      BY <3>1, <3>2
  <2> QED
    BY <2>1, <2>2 DEF Messages
<1>4. ASSUME NEW n \in Nodes, Redo(n) PROVE Messages'
  <2>1. PICK d \in inbox[n] :
          /\ inbox' = [inbox EXCEPT ![n] = @ \ {d}]
          /\ mwait' = IF d.live THEN "none" ELSE mwait
    BY <1>4 DEF Redo
  <2>2. job' = job
    BY <1>4 DEF Redo
  <2> SUFFICES ASSUME NEW m \in Nodes, NEW e \in inbox'[m], e.live
               PROVE  mwait' = m /\ job # NoJob /\ e.id = job.id
    BY <2>2 DEF Messages
  <2>3. e \in inbox[m] /\ (m = n => e # d)
    BY <2>1 DEF Typed
  <2>4. mwait = m /\ job # NoJob /\ e.id = job.id
    BY <2>3 DEF Messages
  <2>5. ~d.live
    <3> SUFFICES ASSUME d.live PROVE FALSE
      OBVIOUS
    <3>1. mwait = n /\ d.id = job.id
      BY DEF Messages
    <3>2. m = n /\ e.id = d.id
      BY <2>4, <3>1
    <3>3. /\ d \in [id : Ids, live : BOOLEAN]
          /\ e \in [id : Ids, live : BOOLEAN]
      BY <2>3 DEF Typed
    <3>4. e.live = d.live
      BY <3>3
    <3>5. e = d
      BY <3>2, <3>3, <3>4
    <3> QED
      BY <2>3, <3>2, <3>5
  <2> QED
    BY <2>1, <2>4, <2>5
<1>5. ASSUME NEW c \in calls, AcceptDelete(c) PROVE Messages'
  BY <1>5, Names DEF AcceptDelete, Messages, JobFits, nodeVars
<1>6. ASSUME NEW n \in Nodes, Tell(n) PROVE Messages'
  <2>1. mwait = "none" /\ job' = job /\ job # NoJob
    BY <1>6 DEF Tell, Kept, Turn, JobFits
  <2>2. \A m \in Nodes : \A e \in inbox[m] : ~e.live
    BY <2>1, Names DEF Messages
  <2>3. CASE st[n] = "dead"
    BY <1>6, <2>1, <2>3 DEF Tell, Messages
  <2>4. CASE st[n] # "dead"
    <3> DEFINE d == [id |-> job.id, live |-> TRUE]
    <3>1. inbox' = [inbox EXCEPT ![n] = @ \cup {d}] /\ mwait' = n
      BY <1>6, <2>4 DEF Tell
    <3>2. d.id = job.id
      OBVIOUS
    <3> HIDE DEF d
    <3>3. \A m \in Nodes : \A e \in inbox'[m] : e \in inbox[m] \/ (m = n /\ e = d)
      BY <3>1 DEF Typed
    <3> QED
      BY <2>1, <2>2, <3>1, <3>2, <3>3 DEF Messages
  <2> QED
    BY <2>3, <2>4
<1>7. CASE TellTimeout
  <2>1. mwait \in Nodes
    BY <1>7 DEF TellTimeout, Typed
  <2>2. inbox' = [inbox EXCEPT ![mwait] = Unheard(@)]
    BY <1>7 DEF TellTimeout
  <2>3. inbox'[mwait] = Unheard(inbox[mwait])
        /\ \A m \in Nodes : m # mwait => inbox'[m] = inbox[m]
    BY <2>1, <2>2 DEF Typed
  <2>4. \A e \in inbox'[mwait] : ~e.live
    BY <2>1, <2>3, UnheardTyped
  <2>5. \A m \in Nodes : \A e \in inbox'[m] : ~e.live
    BY <2>3, <2>4 DEF Messages
  <2> QED
    BY <2>5 DEF Messages
<1>8. CASE FinishDelete
  <2>1. mwait = "none" /\ inbox' = inbox
    BY <1>8 DEF FinishDelete
  <2> QED
    BY <2>1, Names DEF Messages
<1>9. CASE MasterCrash
  <2>1. \A m \in Nodes : inbox'[m] = Unheard(inbox[m])
    BY <1>9 DEF MasterCrash
  <2> QED
    BY <2>1, UnheardTyped DEF Messages
<1>10. ASSUME NEW n \in Nodes,
              \/ \E c \in Clients : Get(n, c) \/ \E i \in Ids : Delete(n, c, i)
              \/ AskLock(n) \/ GetFails(n) \/ Deliver(n) \/ PassRow(n)
              \/ PassUnasked(n)
       PROVE  UNCHANGED <<inbox, mwait, job>>
  BY <1>10 DEF Get, Delete, AskLock, GetFails, Deliver, PassRow, PassUnasked, Pass,
     masterVars, deletion
<1>11. ASSUME \/ Still \/ \E c \in calls : Lock(c)
              \/ \E i \in Ids : Expire(i) \/ EndEarly(i)
       PROVE  UNCHANGED <<inbox, mwait, job>>
  BY <1>11 DEF Still, Lock, Expire, EndEarly, nodeVars, deletion
<1>12. ASSUME NEW n \in Nodes, Leave(n) PROVE UNCHANGED <<inbox, mwait, job>>
  BY <1>12, LeaveSame DEF nodeVars
<1> QED
  BY <1>1, <1>2, <1>3, <1>4, <1>5, <1>6, <1>7, <1>8, <1>9, <1>10, <1>11, <1>12,
     Steps DEF Node

LEMMA ToldStep ==
    Requests /\ Deleted /\ Messages /\ Told /\ [Next]_vars => Told'
<1> USE DEF Requests, Basics
<1> SUFFICES ASSUME Requests, Deleted, Messages, Told, [Next]_vars, job' # NoJob,
                    NEW n \in Nodes, n \notin todo', n # mwait',
                    NEW i, i = job'.id, <<n, i>> \notin missed'
             PROVE  Clean(n, i)'
  BY DEF Told
<1>0. missed \subseteq missed'
  BY MissedStays
\* The job goes on, and the node has been told.
<1>1. ASSUME n \notin todo, n # mwait, ~ \E c \in calls : AcceptDelete(c)
      PROVE  Clean(n, i)'
  <2>1. job # NoJob /\ job'.id = job.id
    BY <1>1, JobGoesOn
  <2>2. Clean(n, i)
    BY <1>0, <1>1, <2>1 DEF Told
  <2> QED
    BY <2>2, CleanStays
<1>2. ASSUME NEW c \in calls, AcceptDelete(c) PROVE Clean(n, i)'
  <2>1. /\ job' = c /\ todo' = team /\ c.kind = "delete"
        /\ missed' = missed \cup NotTold(Nodes \ team, c.from, c.id)
        /\ UNCHANGED <<st, rows, wanted>>
    BY <1>2 DEF AcceptDelete, nodeVars
  <2>2. n = c.from
    BY <2>1 DEF NotTold
  <2>3. Clean(c.from, c.id)
    BY <2>1 DEF Deleted
  <2> QED
    BY <2>1, <2>2, <2>3 DEF Clean
<1> SUFFICES ASSUME ~ \E c \in calls : AcceptDelete(c) PROVE Clean(n, i)'
  BY <1>2
<1>3. CASE UNCHANGED <<todo, mwait>>
  BY <1>1, <1>3
<1>4. ASSUME NEW m \in Nodes, LockTimeout(m) PROVE Clean(n, i)'
  <2>1. todo' = todo /\ mwait' = (IF mwait = m THEN "none" ELSE mwait)
    BY <1>4 DEF LockTimeout
  <2>2. CASE mwait = n
    <3>1. m = n
      BY <2>1, <2>2
    <3> QED
      BY <1>4, <3>1 DEF LockTimeout, Clean, Typed
  <2> QED
    BY <1>1, <2>1, <2>2
<1>5. ASSUME NEW m \in Nodes, Redo(m) PROVE Clean(n, i)'
  <2>1. PICK d \in inbox[m] :
          /\ rows' = [rows EXCEPT ![m] = @ \ {d.id}]
          /\ mwait' = IF d.live THEN "none" ELSE mwait
    BY <1>5 DEF Redo
  <2>2. st[m] = "idle" /\ UNCHANGED <<st, job, todo>>
    BY <1>5 DEF Redo
  <2>3. CASE mwait = n
    <3>1. d.live
      BY <2>1, <2>3
    <3>2. m = n /\ d.id = job.id
      BY <2>3, <3>1 DEF Messages
    <3>3. rows'[n] = rows[n] \ {job.id} /\ st'[n] = "idle"
      BY <2>1, <2>2, <3>2 DEF Typed
    <3> QED
      BY <2>2, <3>3 DEF Clean
  <2> QED
    BY <1>1, <2>2, <2>3
<1>6. ASSUME NEW m \in Nodes, Tell(m) PROVE Clean(n, i)'
  <2>1. mwait = "none" /\ todo' = todo \ {m} /\ st' = st
    BY <1>6 DEF Tell, Kept, Turn
  <2>2. CASE n = m
    <3>1. st[n] = "dead"
      BY <1>6, <2>2 DEF Tell
    <3> QED
      BY <2>1, <3>1 DEF Clean
  <2>3. CASE n # m
    BY <1>1, <2>1, <2>3, Names
  <2> QED
    BY <2>2, <2>3
<1>7. ASSUME NEW m \in Nodes, Leave(m) PROVE Clean(n, i)'
  <2>1. /\ mwait = "none" /\ mwait' = mwait /\ todo' = todo \ {m} /\ job' = job
        /\ UNCHANGED <<rows, st, wanted>>
        /\ missed' = missed \cup NotTold({m}, job.from, job.id)
    BY <1>7, LeaveSame DEF nodeVars
  <2>2. CASE n = m
    <3>1. n = job.from
      BY <2>1, <2>2 DEF NotTold
    <3>2. Clean(job.from, job.id)
      BY <2>1 DEF Deleted
    <3> QED
      BY <2>1, <3>1, <3>2 DEF Clean
  <2>3. CASE n # m
    BY <1>1, <2>1, <2>3
  <2> QED
    BY <2>2, <2>3
<1>8. CASE TellTimeout
  <2>1. job' = job /\ todo' = todo /\ job # NoJob
        /\ missed' = missed \cup NotTold({mwait}, job.from, job.id)
    BY <1>8 DEF TellTimeout, JobFits
  <2>2. CASE n = mwait
    <3>1. n = job.from
      BY <2>1, <2>2 DEF NotTold
    <3> QED
      BY <2>1, <3>1, CleanStays DEF Deleted
  <2>3. CASE n # mwait
    BY <1>1, <2>1, <2>3
  <2> QED
    BY <2>2, <2>3
<1>9. CASE FinishDelete \/ MasterCrash
  BY <1>9 DEF FinishDelete, MasterCrash
<1>10. ASSUME NEW m \in Nodes,
              \/ \E c \in Clients : Get(m, c) \/ \E j \in Ids : Delete(m, c, j)
              \/ AskLock(m) \/ GetFails(m) \/ Deliver(m) \/ PassRow(m)
              \/ PassUnasked(m) \/ DeleteTimeout(m)
       PROVE  UNCHANGED <<todo, mwait>>
  BY <1>10 DEF Get, Delete, AskLock, GetFails, Deliver, PassRow, PassUnasked, Pass,
     DeleteTimeout, masterVars, deletion
<1>11. ASSUME \/ Still \/ \E c \in calls : Lock(c)
              \/ \E j \in Ids : Expire(j) \/ EndEarly(j)
       PROVE  UNCHANGED <<todo, mwait>>
  BY <1>11 DEF Still, Lock, Expire, EndEarly, deletion
<1> QED
  BY <1>3, <1>4, <1>5, <1>6, <1>7, <1>8, <1>9, <1>10, <1>11, Steps DEF Node

LEMMA GoneStep ==
    Requests /\ Deleted /\ Told /\ Gone /\ [Next]_vars => Gone'
<1> USE DEF Requests, Basics
<1> SUFFICES ASSUME Requests, Deleted, Told, Gone, [Next]_vars,
                    NEW i \in acked', NEW n \in Nodes, <<n, i>> \notin missed'
             PROVE  Clean(n, i)'
  BY DEF Gone
<1>0. missed \subseteq missed'
  BY MissedStays
<1>1. CASE i \in acked
  <2>1. Clean(n, i)
    BY <1>0, <1>1 DEF Gone
  <2> QED
    BY <2>1, CleanStays
<1>2. CASE i \notin acked
  <2>1. ASSUME NEW m \in Nodes, DeleteTimeout(m) PROVE Clean(n, i)'
    <3>1. /\ i = wanted[m] /\ st[m] = "wait"
          /\ missed' = missed \cup NotTold(Nodes, m, wanted[m])
      BY <1>2, <2>1 DEF DeleteTimeout
    <3>2. n = m
      BY <3>1 DEF NotTold
    <3>3. Clean(n, i)
      BY <3>1, <3>2 DEF Serving, Clean
    <3> QED
      BY <3>3, CleanStays
  <2>2. CASE FinishDelete
    <3>1. job # NoJob /\ todo = {} /\ mwait = "none" /\ i = job.id
      BY <1>2, <2>2 DEF FinishDelete
    <3>2. Clean(n, i)
      BY <1>0, <3>1, Names DEF Told
    <3> QED
      BY <3>2, CleanStays
  <2>3. CASE acked' = acked
    BY <1>2, <2>3
  <2>4. ASSUME NEW m \in Nodes,
               \/ \E c \in Clients : Get(m, c) \/ \E j \in Ids : Delete(m, c, j)
               \/ AskLock(m) \/ GetFails(m) \/ Deliver(m) \/ PassRow(m)
               \/ PassUnasked(m) \/ LockTimeout(m) \/ Redo(m) \/ Tell(m)
        PROVE  acked' = acked
    BY <2>4 DEF Get, Delete, AskLock, GetFails, Deliver, PassRow, PassUnasked, Pass,
       LockTimeout, Redo, Tell, history
  <2>5. ASSUME \/ Still \/ TellTimeout \/ MasterCrash
               \/ \E c \in calls : Lock(c) \/ AcceptDelete(c)
               \/ \E j \in Ids : Expire(j) \/ EndEarly(j)
        PROVE  acked' = acked
    BY <2>5 DEF Lock, AcceptDelete, TellTimeout, MasterCrash, Expire, EndEarly,
       Still, history
  <2>6. ASSUME NEW m \in Nodes, Leave(m) PROVE acked' = acked
    BY <2>6, LeaveSame
  <2> QED
    BY <2>1, <2>2, <2>3, <2>4, <2>5, <2>6, Steps DEF Node
<1> QED
  BY <1>1, <1>2

-----------------------------------------------------------------------------
(***************************************************************************)
(* One reader.                                                             *)
(***************************************************************************)

\* Nothing but the master's answer makes a node one that gives out.
LEMMA AloneStays ==
    ASSUME NEW i, Alone(i), \A n \in Nodes : Yes(n, i)' => Yes(n, i),
           reading'[i] = reading[i], i \in held => i \in held'
    PROVE  Alone(i)'
BY DEF Alone, Yes

\* A lock may go when the message is not in use.
LEMMA AloneEnds ==
    ASSUME NEW i, ~InUse(i), UNCHANGED <<st, wanted>>,
           reading'[i] = reading[i] \/ reading'[i] = {}
    PROVE  Alone(i)'
BY DEF Alone, InUse, Yes

LEMMA HoldersStep ==
    Requests /\ Told /\ Holders /\ [Next]_vars => Holders'
<1> USE DEF Requests, Basics
<1> SUFFICES ASSUME Requests, Told, Holders, [Next]_vars,
                    NEW i \in Ids, i \notin cut', Together(i)'
             PROVE  Alone(i)'
  BY DEF Holders
<1>0. /\ \A n \in Nodes : <<n, i>> \notin missed
      /\ i \notin cut /\ Alone(i)
  <2>1. i \notin cut /\ Together(i)
    BY MissedStays DEF Together
  <2> QED
    BY <2>1 DEF Holders, Together
<1>1. ASSUME NEW m \in Nodes,
             \/ \E c \in Clients : Get(m, c) \/ \E j \in Ids : Delete(m, c, j)
             \/ AskLock(m) \/ GetFails(m) \/ PassRow(m) \/ PassUnasked(m)
             \/ LockTimeout(m) \/ DeleteTimeout(m) \/ Redo(m) \/ Tell(m)
      PROVE  Alone(i)'
  <2>1. UNCHANGED <<reading, held>>
    BY <1>1 DEF Get, Delete, AskLock, GetFails, PassRow, PassUnasked, Pass,
       LockTimeout, DeleteTimeout, Redo, Tell, masterVars, history
  <2>2. \A n \in Nodes : st'[n] = "yes" => st[n] = "yes" /\ wanted'[n] = wanted[n]
    BY <1>1 DEF Get, Delete, Serve, AskLock, GetFails, PassRow, PassUnasked, Pass,
       LockTimeout, DeleteTimeout, Redo, Tell, Reply, Typed
  <2> QED
    BY <1>0, <2>1, <2>2, AloneStays DEF Yes
<1>2. ASSUME NEW n \in Nodes, Deliver(n) PROVE Alone(i)'
  <2>1. /\ st[n] = "yes" /\ held' = held
        /\ reading' = [reading EXCEPT ![wanted[n]] = @ \cup {client[n]}]
        /\ st' = [st EXCEPT ![n] = "idle"]
        /\ wanted' = [wanted EXCEPT ![n] = 0]
    BY <1>2 DEF Deliver, Reply, masterVars
  <2>2. \A m \in Nodes : Yes(m, i)' => Yes(m, i) /\ m # n
    BY <2>1 DEF Yes, Typed
  <2>3. CASE wanted[n] = i
    <3>1. Yes(n, i)
      BY <2>1, <2>3 DEF Yes
    <3>2. i \in held /\ reading[i] = {} /\ \A m \in Nodes : Yes(m, i) => m = n
      BY <1>0, <3>1 DEF Alone
    <3>3. reading'[i] = {client[n]}
      BY <2>1, <2>3, <3>2 DEF Typed
    <3> QED
      BY <2>1, <2>2, <3>2, <3>3 DEF Alone
  <2>4. CASE wanted[n] # i
    <3>1. reading'[i] = reading[i]
      BY <2>1, <2>4 DEF Typed
    <3> QED
      BY <1>0, <2>1, <2>2, <3>1, AloneStays
  <2> QED
    BY <2>3, <2>4
<1>3. ASSUME NEW c \in calls, Lock(c) PROVE Alone(i)'
  <2>1. UNCHANGED <<reading, wanted>>
    BY <1>3 DEF Lock, history
  <2>2. c.live => wanted[c.from] = c.id /\ c.from \in Nodes
    BY DEF Live, Awaited, Typed, Call
  <2>3. CASE c.id \notin held /\ held' = held \cup {c.id} /\ st' = Answered(c, "yes")
    <3>1. \A n \in Nodes : Yes(n, i)' => Yes(n, i) \/ (n = c.from /\ i = c.id)
      BY <2>1, <2>2, <2>3 DEF Yes, Answered, Typed
    <3>2. CASE i = c.id
      <4>1. reading[i] = {} /\ \A n \in Nodes : ~Yes(n, i)
        BY <1>0, <2>3, <3>2 DEF Alone
      <4>2. i \in held' /\ reading'[i] = {}
        BY <2>1, <2>3, <3>2, <4>1
      <4>3. \A n \in Nodes : Yes(n, i)' => n = c.from
        BY <3>1, <4>1
      <4> QED
        BY <4>2, <4>3 DEF Alone
    <3>3. CASE i # c.id
      BY <1>0, <2>1, <2>3, <3>1, <3>3, AloneStays
    <3> QED
      BY <3>2, <3>3
  <2>4. CASE held' = held /\ st' = Answered(c, "no")
    <3>1. \A n \in Nodes : Yes(n, i)' => Yes(n, i)
      BY <2>1, <2>2, <2>4 DEF Yes, Answered, Typed
    <3> QED
      BY <1>0, <2>1, <2>4, <3>1, AloneStays
  <2> QED
    BY <1>3, <2>3, <2>4 DEF Lock
<1>4. CASE FinishDelete
  <2>1. /\ job # NoJob /\ mwait = "none" /\ todo = {}
        /\ held' = held \ {job.id}
        /\ reading' = [reading EXCEPT ![job.id] = {}]
    BY <1>4 DEF FinishDelete
  <2>2. \A n \in Nodes : Yes(n, i)' => Yes(n, i)
    <3>1. CASE job.live
      BY <1>4, <3>1 DEF FinishDelete, Reply, Yes, Typed
    <3>2. CASE ~job.live
      BY <1>4, <3>2 DEF FinishDelete, Yes
    <3> QED
      BY <3>1, <3>2
  <2>3. CASE i = job.id
    <3>1. \A n \in Nodes : Clean(n, i)
      BY <1>0, <2>1, <2>3, Names DEF Told
    <3>2. \A n \in Nodes : ~Yes(n, i)'
      BY <2>2, <3>1 DEF Yes, Clean
    <3>3. reading'[i] = {}
      BY <2>1, <2>3 DEF Typed
    <3> QED
      BY <3>2, <3>3 DEF Alone
  <2>4. CASE i # job.id
    <3>1. reading'[i] = reading[i] /\ (i \in held => i \in held')
      BY <2>1, <2>4 DEF Typed
    <3> QED
      BY <1>0, <2>2, <3>1, AloneStays
  <2> QED
    BY <2>3, <2>4
<1>5. ASSUME NEW j \in Ids, Expire(j) PROVE Alone(i)'
  <2>1. /\ UNCHANGED <<st, wanted>> /\ held' = held \ {j} /\ j \in held
        /\ reading' = [reading EXCEPT ![j] = {}]
        /\ i = j => ~ \E n \in Nodes : Yes(n, j)
    BY <1>5 DEF Expire, nodeVars, Yes
  <2>2. \A n \in Nodes : Yes(n, i)' => Yes(n, i)
    BY <2>1 DEF Yes
  <2>3. CASE i = j
    <3>1. reading'[i] = {}
      BY <2>1, <2>3 DEF Typed
    <3> QED
      BY <2>1, <2>2, <2>3, <3>1 DEF Alone
  <2>4. CASE i # j
    <3>1. reading'[i] = reading[i] /\ (i \in held => i \in held')
      BY <2>1, <2>4 DEF Typed
    <3> QED
      BY <1>0, <2>2, <3>1, AloneStays
  <2> QED
    BY <2>3, <2>4
<1>6. ASSUME NEW j \in Ids, EndEarly(j) PROVE Alone(i)'
  <2>1. /\ UNCHANGED <<st, wanted, reading>> /\ held' = held \ {j}
        /\ i = j => ~InUse(i)
    BY <1>6 DEF EndEarly, nodeVars
  <2>2. CASE i = j
    BY <2>1, <2>2, AloneEnds
  <2>3. CASE i # j
    BY <1>0, <2>1, <2>3, AloneStays DEF Yes
  <2> QED
    BY <2>2, <2>3
<1>7. CASE MasterCrash
  <2>1. UNCHANGED <<st, wanted, reading>> /\ (i \in held => ~InUse(i))
    BY <1>7 DEF MasterCrash
  <2>2. i \notin held => ~InUse(i)
    BY <1>0 DEF Alone, InUse, Yes
  <2> QED
    BY <2>1, <2>2, AloneEnds
<1>8. ASSUME Still \/ TellTimeout \/ \E c \in calls : AcceptDelete(c)
      PROVE  UNCHANGED <<st, wanted, held, reading>>
  BY <1>8 DEF Still, AcceptDelete, TellTimeout, nodeVars, history
<1>9. ASSUME NEW m \in Nodes, Leave(m)
      PROVE  UNCHANGED <<st, wanted, held, reading>>
  BY <1>9, LeaveSame DEF nodeVars
<1>10. CASE UNCHANGED <<st, wanted, held, reading>>
  BY <1>0, <1>10, AloneStays DEF Yes
<1> QED
  BY <1>1, <1>2, <1>3, <1>4, <1>5, <1>6, <1>7, <1>8, <1>9, <1>10, Steps DEF Node

-----------------------------------------------------------------------------
(***************************************************************************)
(* Going through the rows.                                                 *)
(***************************************************************************)

LEMMA SmallestNumber ==
    ASSUME NEW S, S \subseteq Nat, S # {}
    PROVE  \E i \in S : \A j \in S : ~(j < i)
<1>1. PICK i \in S : \A j \in S : ~(<<j, i>> \in OpToRel(<, Nat))
  BY NatLessThanWellFounded, WFMin
<1>2. \A j \in S : j < i => <<j, i>> \in OpToRel(<, Nat)
  BY DEF OpToRel
<1> QED
  BY <1>1, <1>2

LEMMA RowsFinite ==
    ASSUME Typed, NEW n \in Nodes
    PROVE  /\ rows[n] \subseteq Nat /\ IsFiniteSet(rows[n])
           /\ \A S \in SUBSET rows[n] : IsFiniteSet(S)
<1>1. rows[n] \in SUBSET Ids
  BY DEF Typed
<1>2. rows[n] \subseteq Nat /\ IsFiniteSet(rows[n])
  BY <1>1, FS_Subset, DeliveryAssumption
<1> QED
  BY <1>2, FS_Subset

\* A row has the number that the loop has reached just when the rows before it
\* are those that were refused.
LEMMA NextRow ==
    ASSUME Typed, NEW n \in Nodes, NEW i \in rows[n],
           refused[n] \subseteq rows[n], Cardinality(refused[n]) = skip[n],
           \A j \in rows[n], k \in refused[n] : j < k => j \in refused[n]
    PROVE  /\ RowAt(n, i) =>
                i \notin refused[n] /\ refused[n] = {j \in rows[n] : j < i}
           /\ refused[n] = {j \in rows[n] : j < i} => RowAt(n, i)
<1> DEFINE before == {j \in rows[n] : j < i}
<1>0. /\ rows[n] \subseteq Nat /\ i \in Nat
      /\ IsFiniteSet(before) /\ IsFiniteSet(refused[n])
  BY RowsFinite
<1>1. ASSUME RowAt(n, i) PROVE i \notin refused[n] /\ refused[n] = before
  <2>1. Cardinality(before) = Cardinality(refused[n])
    BY <1>1 DEF RowAt
  <2>2. i \notin refused[n]
    <3> SUFFICES ASSUME i \in refused[n] PROVE FALSE
      OBVIOUS
    <3>1. before \subseteq refused[n]
      OBVIOUS
    <3>2. i \notin before
      BY <1>0
    <3>3. before = refused[n]
      BY <1>0, <2>1, <3>1, FS_Subset
    <3> QED
      BY <3>2, <3>3
  <2>3. refused[n] \subseteq before
    <3> SUFFICES ASSUME NEW k \in refused[n] PROVE k < i
      OBVIOUS
    <3>1. k \in Nat /\ k # i /\ ~(i < k)
      BY <1>0, <2>2
    <3> QED
      BY <1>0, <3>1
  <2>4. refused[n] = before
    BY <1>0, <2>1, <2>3, FS_Subset
  <2> QED
    BY <2>2, <2>4
<1> QED
  BY <1>1 DEF RowAt

\* Where no row has that number, all were refused.
LEMMA NoRowLeft ==
    ASSUME Typed, NEW n \in Nodes,
           refused[n] \subseteq rows[n], Cardinality(refused[n]) = skip[n],
           \A j \in rows[n], k \in refused[n] : j < k => j \in refused[n],
           ~ \E i \in rows[n] : RowAt(n, i)
    PROVE  rows[n] = refused[n]
<1> SUFFICES ASSUME rows[n] \ refused[n] # {} PROVE FALSE
  OBVIOUS
<1>1. rows[n] \subseteq Nat
  BY RowsFinite
<1>2. PICK i \in rows[n] \ refused[n] : \A j \in rows[n] \ refused[n] : ~(j < i)
  BY <1>1, SmallestNumber
<1>3. refused[n] = {j \in rows[n] : j < i}
  <2>1. \A k \in refused[n] : k < i
    <3> SUFFICES ASSUME NEW k \in refused[n] PROVE k < i
      OBVIOUS
    <3>1. k \in Nat /\ i \in Nat /\ k # i /\ ~(i < k)
      BY <1>1, <1>2
    <3> QED
      BY <3>1
  <2> QED
    BY <1>2, <2>1
<1>4. RowAt(n, i)
  BY <1>3, NextRow
<1> QED
  BY <1>4

\* The rows stay as they are while a node goes through them.
LEMMA ScanStep == Requests /\ Scan /\ [Next]_vars => Scan'
<1> USE DEF Requests, Basics
<1> SUFFICES ASSUME Requests, Scan, [Next]_vars, NEW n \in Nodes
             PROVE  Scanned(n)'
  BY DEF Scan
<1>0. Scanned(n)
  BY DEF Scan
\* Steps that leave the node where it is, but perhaps for its rows.
<1>1. ASSUME st'[n] = st[n], skip'[n] = skip[n],
             Reading(n) => /\ rows'[n] = rows[n] /\ refused'[n] = refused[n]
                           /\ wanted'[n] = wanted[n]
      PROVE  Scanned(n)'
  BY <1>0, <1>1 DEF Scanned, Reading
\* Steps after which it serves nobody, or waits for a deletion.
<1>2. ASSUME st'[n] \in {"idle", "wait", "dead"}, skip'[n] = 0
      PROVE  Scanned(n)'
  BY <1>2 DEF Scanned, Reading
<1>3. ASSUME NEW m \in Nodes, NEW c \in Clients, Get(m, c) PROVE Scanned(n)'
  <2>1. CASE m = n
    <3>1. /\ st[n] = "idle" /\ st'[n] = "look" /\ refused'[n] = {}
          /\ skip'[n] = skip[n]
      BY <1>3, <2>1 DEF Get, Serve, Typed
    <3>2. skip[n] = 0
      BY <1>0, <3>1 DEF Scanned, Reading
    <3> QED
      BY <3>1, <3>2, FS_EmptySet DEF Scanned, Reading
  <2>2. CASE m # n
    BY <1>1, <1>3, <2>2 DEF Get, Serve, Typed
  <2> QED
    BY <2>1, <2>2
<1>4. ASSUME NEW m \in Nodes, NEW c \in Clients, NEW i \in Ids, Delete(m, c, i)
      PROVE  Scanned(n)'
  <2>1. CASE m = n
    <3>1. st[n] = "idle" /\ st'[n] = "wait" /\ skip'[n] = skip[n]
      BY <1>4, <2>1 DEF Delete, Serve, Typed
    <3>2. skip[n] = 0
      BY <1>0, <3>1 DEF Scanned, Reading
    <3> QED
      BY <1>2, <3>1, <3>2
  <2>2. CASE m # n
    BY <1>1, <1>4, <2>2 DEF Delete, Serve, Typed
  <2> QED
    BY <2>1, <2>2
<1>5. ASSUME NEW m \in Nodes, AskLock(m) PROVE Scanned(n)'
  <2>1. PICK i \in rows[m] : RowAt(m, i) /\ wanted' = [wanted EXCEPT ![m] = i]
    BY <1>5 DEF AskLock
  <2>2. /\ UNCHANGED <<rows, skip, refused>>
        /\ st[m] = "look" /\ st' = [st EXCEPT ![m] = "asked"]
    BY <1>5 DEF AskLock, history
  <2>3. CASE m = n
    <3>1. /\ refused[n] \subseteq rows[n] /\ Cardinality(refused[n]) = skip[n]
          /\ \A j \in rows[n], k \in refused[n] : j < k => j \in refused[n]
      BY <1>0, <2>2, <2>3 DEF Scanned, Reading
    <3>2. i \notin refused[n] /\ refused[n] = {j \in rows[n] : j < i}
      BY <2>1, <2>3, <3>1, NextRow
    <3>3. st'[n] = "asked" /\ wanted'[n] = i
      BY <2>1, <2>2, <2>3 DEF Typed
    <3> QED
      BY <2>1, <2>2, <2>3, <3>1, <3>2, <3>3 DEF Scanned, Reading
  <2>4. CASE m # n
    BY <1>1, <2>1, <2>2, <2>4 DEF Typed
  <2> QED
    BY <2>3, <2>4
<1>6. ASSUME NEW m \in Nodes, GetFails(m) \/ Deliver(m) \/ DeleteTimeout(m)
      PROVE  Scanned(n)'
  <2>1. Reply(m) /\ UNCHANGED <<rows, refused>>
    BY <1>6 DEF GetFails, Deliver, DeleteTimeout, history
  <2>2. CASE m = n
    BY <1>2, <2>1, <2>2 DEF Reply, Typed
  <2>3. CASE m # n
    BY <1>1, <2>1, <2>3 DEF Reply, Typed
  <2> QED
    BY <2>2, <2>3
<1>7. ASSUME NEW m \in Nodes, PassRow(m) \/ PassUnasked(m) PROVE Scanned(n)'
  <2>1. PICK i : /\ PassRow(m) => st[m] = "no" /\ i = wanted[m]
                 /\ PassUnasked(m) => st[m] = "look" /\ i \in rows[m] /\ RowAt(m, i)
                 /\ Pass(m, i)
    BY <1>7 DEF PassRow, PassUnasked
  <2>2. CASE m = n
    <3>1. /\ st'[n] = "look" /\ skip'[n] = skip[n] + 1
          /\ refused'[n] = refused[n] \cup {i} /\ rows' = rows
      BY <2>1, <2>2 DEF Pass, Typed
    <3>2. refused[n] \subseteq rows[n] /\ Cardinality(refused[n]) = skip[n]
          /\ \A j \in rows[n], k \in refused[n] : j < k => j \in refused[n]
      BY <1>0, <1>7, <2>1, <2>2 DEF Scanned, Reading
    <3>3. /\ i \in rows[n] /\ i \notin refused[n]
          /\ refused[n] = {j \in rows[n] : j < i}
      <4>1. CASE PassRow(m)
        BY <1>0, <2>1, <2>2, <4>1 DEF Scanned
      <4>2. CASE PassUnasked(m)
        BY <2>1, <2>2, <3>2, <4>2, NextRow
      <4> QED
        BY <1>7, <4>1, <4>2
    <3>4. Cardinality(refused'[n]) = skip'[n]
      <4>1. Cardinality(refused[n] \cup {i}) = Cardinality(refused[n]) + 1
        BY <3>2, <3>3, RowsFinite, FS_AddElement
      <4> QED
        BY <3>1, <3>2, <4>1
    <3>5. \A j \in rows[n], k \in refused'[n] : j < k => j \in refused'[n]
      <4> SUFFICES ASSUME NEW j \in rows[n], NEW k \in refused'[n], j < k
                   PROVE  j < i
        BY <3>1, <3>3
      <4>1. j \in Nat /\ k \in Nat /\ i \in Nat
        BY <3>1, <3>2, <3>3, RowsFinite
      <4>2. k = i \/ k < i
        BY <3>1, <3>3
      <4> QED
        BY <4>1, <4>2
    <3> QED
      BY <3>1, <3>2, <3>3, <3>4, <3>5 DEF Scanned, Reading
  <2>3. CASE m # n
    BY <1>1, <2>1, <2>3 DEF Pass, Typed
  <2> QED
    BY <2>2, <2>3
<1>8. ASSUME NEW m \in Nodes, LockTimeout(m) PROVE Scanned(n)'
  <2>1. /\ st' = [st EXCEPT ![m] = "dead"] /\ skip' = [skip EXCEPT ![m] = 0]
        /\ wanted' = [wanted EXCEPT ![m] = 0] /\ UNCHANGED <<rows, refused>>
    BY <1>8 DEF LockTimeout, history
  <2>2. CASE m = n
    BY <1>2, <2>1, <2>2 DEF Typed
  <2>3. CASE m # n
    BY <1>1, <2>1, <2>3 DEF Typed
  <2> QED
    BY <2>2, <2>3
<1>9. ASSUME NEW m \in Nodes, Redo(m) PROVE Scanned(n)'
  <2>1. PICK d \in inbox[m] : rows' = [rows EXCEPT ![m] = @ \ {d.id}]
    BY <1>9 DEF Redo
  <2>2. st[m] = "idle" /\ UNCHANGED <<st, skip, wanted, refused>>
    BY <1>9 DEF Redo, history
  <2>3. Reading(n) => rows'[n] = rows[n]
    BY <2>1, <2>2 DEF Reading, Typed
  <2> QED
    BY <1>1, <2>2, <2>3
<1>10. ASSUME NEW c \in calls, Lock(c) PROVE Scanned(n)'
  <2>1. /\ UNCHANGED <<rows, skip, wanted, refused>>
        /\ \E s \in {"yes", "no"} : st' = Answered(c, s)
    BY <1>10 DEF Lock, history
  <2>2. c.live => st[c.from] = "asked"
    BY <1>10 DEF Lock, Live, Awaited
  <2>3. CASE c.live /\ c.from = n
    <3>1. st[n] = "asked" /\ st'[n] \in {"yes", "no"}
      BY <2>1, <2>2, <2>3 DEF Answered, Typed
    <3> QED
      BY <1>0, <2>1, <3>1 DEF Scanned, Reading
  <2>4. CASE ~(c.live /\ c.from = n)
    BY <1>1, <2>1, <2>4 DEF Answered, Typed
  <2> QED
    BY <2>3, <2>4
<1>11. CASE FinishDelete
  <2>1. UNCHANGED <<rows, refused>>
    BY <1>11 DEF FinishDelete
  <2>2. CASE job.live
    <3>1. Reply(job.from)
      BY <1>11, <2>2 DEF FinishDelete
    <3>2. CASE n = job.from
      BY <1>2, <3>1, <3>2 DEF Reply, Typed
    <3>3. CASE n # job.from
      BY <1>1, <2>1, <3>1, <3>3 DEF Reply, Typed
    <3> QED
      BY <3>2, <3>3
  <2>3. CASE ~job.live
    <3>1. UNCHANGED <<st, skip, wanted>>
      BY <1>11, <2>3 DEF FinishDelete
    <3> QED
      BY <1>1, <2>1, <3>1
  <2> QED
    BY <2>2, <2>3
<1>12. ASSUME \/ Still \/ TellTimeout \/ MasterCrash
              \/ \E c \in calls : AcceptDelete(c)
              \/ \E m \in Nodes : Tell(m)
              \/ \E i \in Ids : Expire(i) \/ EndEarly(i)
       PROVE  UNCHANGED <<st, skip, rows, refused, wanted>>
  BY <1>12 DEF AcceptDelete, Tell, TellTimeout, MasterCrash, Expire, EndEarly, Still,
     nodeVars, history
<1>13. ASSUME NEW m \in Nodes, Leave(m)
       PROVE  UNCHANGED <<st, skip, rows, refused, wanted>>
  BY <1>13, LeaveSame DEF nodeVars
<1> QED
  BY <1>1, <1>3, <1>4, <1>5, <1>6, <1>7, <1>8, <1>9, <1>10, <1>11, <1>12, <1>13, Steps
     DEF Node

-----------------------------------------------------------------------------
(***************************************************************************)
(* The theorems.                                                           *)
(***************************************************************************)

Inv == Requests /\ Deletions /\ Holders /\ Scan

LEMMA InitInv == Init => Inv
<1> SUFFICES ASSUME Init PROVE Inv
  OBVIOUS
<1> USE DEF Init
<1>1. Basics
  BY DeliveryAssumption DEF Basics, Typed, Serving, JobFits, NodeState
<1>2. Live /\ Deletions
  BY DEF Live, Deletions, Deleted, Messages, Told, Gone
<1>3. Holders
  BY DEF Holders, Alone, Yes
<1>4. Scan
  BY DEF Scan, Scanned, Reading
<1> QED
  BY <1>1, <1>2, <1>3, <1>4 DEF Inv, Requests

LEMMA InvStep == Inv /\ [Next]_vars => Inv'
BY BasicsStep, LiveStep, DeletedStep, MessagesStep, ToldStep, GoneStep,
   HoldersStep, ScanStep
   DEF Inv, Requests, Deletions

LEMMA InvAlways == Spec => []Inv
BY InitInv, InvStep, PTL DEF Spec

\* The types, with the bound of skip: a node passes no more rows than there are.
THEOREM TypeCorrect == Spec => []TypeOK
<1>1. Inv => TypeOK
  <2> SUFFICES ASSUME Inv PROVE TypeOK
    OBVIOUS
  <2> USE DEF Inv, Requests, Basics
  <2>1. ASSUME NEW n \in Nodes PROVE skip[n] \in 0..Cardinality(Ids)
    <3>1. skip[n] \in Nat /\ Scanned(n) /\ rows[n] \in SUBSET Ids
      BY DEF Typed, Scan
    <3>2. Cardinality(Ids) \in Nat
      BY FS_CardinalityType, DeliveryAssumption
    <3>3. CASE Reading(n)
      <4>1. Cardinality(refused[n]) = skip[n] /\ refused[n] \in SUBSET Ids
        BY <3>1, <3>3 DEF Scanned
      <4>2. Cardinality(refused[n]) <= Cardinality(Ids)
        BY <4>1, FS_Subset, DeliveryAssumption
      <4> QED
        BY <3>1, <3>2, <4>1, <4>2
    <3>4. CASE ~Reading(n)
      BY <3>1, <3>2, <3>4 DEF Scanned
    <3> QED
      BY <3>3, <3>4
  <2> QED
    BY <2>1 DEF Typed, TypeOK
<1> QED
  BY <1>1, InvAlways, PTL

\* Of any nodes, never two give out a message under one lock, nor one of them
\* twice, whatever requests, deletions and crashes of the master come between.
THEOREM OneReaderAlways == Spec => []OneReader
<1>1. Inv => OneReader
  <2> SUFFICES ASSUME Inv, NEW i \in Ids \ cut, Together(i)
               PROVE  Cardinality(reading[i]) <= 1
    BY DEF OneReader
  <2>1. \A c, d \in reading[i] : c = d
    BY DEF Inv, Holders, Alone
  <2>2. CASE reading[i] = {}
    BY <2>2, FS_EmptySet
  <2>3. CASE reading[i] # {}
    <3>1. PICK c \in reading[i] : reading[i] = {c}
      BY <2>1, <2>3
    <3>2. Cardinality({c}) = 1
      BY FS_Singleton
    <3> QED
      BY <3>1, <3>2
  <2> QED
    BY <2>2, <2>3
<1> QED
  BY <1>1, InvAlways, PTL

\* What a client was told is deleted, no node gives out that was told in time.
THEOREM DeletedStaysGoneAlways == Spec => DeletedStaysGone
<1>1. ASSUME Inv, NEW n \in Nodes, Deliver(n), wanted[n] \in acked
      PROVE  <<n, wanted[n]>> \in missed
  BY <1>1 DEF Inv, Deletions, Gone, Clean, Deliver
<1>2. Inv => [\A n \in Nodes :
                Deliver(n) /\ wanted[n] \in acked => <<n, wanted[n]>> \in missed]_vars
  BY <1>1
<1> QED
  BY <1>2, InvAlways, PTL DEF DeletedStaysGone

\* Counting rows by offset skips none.
THEOREM FailsOnlyIfRefusedAlways == Spec => FailsOnlyIfRefused
<1>1. ASSUME Inv, NEW n \in Nodes, GetFails(n)
      PROVE  rows[n] = refused[n]
  <2>1. st[n] = "look" /\ ~ \E i \in rows[n] : RowAt(n, i)
    BY <1>1 DEF GetFails
  <2>2. /\ refused[n] \subseteq rows[n] /\ Cardinality(refused[n]) = skip[n]
        /\ \A j \in rows[n], k \in refused[n] : j < k => j \in refused[n]
    BY <1>1, <2>1 DEF Inv, Scan, Scanned, Reading
  <2>3. Typed
    BY <1>1 DEF Inv, Requests, Basics
  <2> QED
    BY <2>1, <2>2, <2>3, NoRowLeft
<1>2. Inv => [\A n \in Nodes : GetFails(n) => rows[n] = refused[n]]_vars
  BY <1>1
<1> QED
  BY <1>2, InvAlways, PTL DEF FailsOnlyIfRefused

===============================================================================
