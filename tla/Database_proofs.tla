---------------------------- MODULE Database_proofs ----------------------------
(***************************************************************************)
(* What the replay of a log computes, for any queues and messages and logs *)
(* of any length; proved by induction over the log.  The proofs about the  *)
(* programs that keep a log rest on these lemmas.                          *)
(***************************************************************************)
EXTENDS Database, TLAPS, WellFoundedInduction, SequenceTheorems

\* The order of the natural numbers, as a relation.
LEMMA NatWellFounded ==
    IsWellFoundedOn({ss \in Nat \X Nat : ss[1] < ss[2]}, Nat)
BY NatLessThanWellFounded DEF OpToRel

\* Induction over the natural numbers: S is the set of those that have the
\* property.  The induction theorems of the library take an operator; the least
\* number that is not in S needs none.
LEMMA Induction ==
    ASSUME NEW S, 0 \in S, \A n \in Nat : n \in S => n + 1 \in S
    PROVE  Nat \subseteq S
<1> DEFINE R == {ss \in Nat \X Nat : ss[1] < ss[2]}
<1> SUFFICES ASSUME Nat \ S # {} PROVE FALSE
  OBVIOUS
<1>1. IsWellFoundedOn(R, Nat)
  BY NatWellFounded
<1> HIDE DEF R
<1>2. PICK x \in Nat \ S : \A y \in Nat \ S : ~(<<y, x>> \in R)
  BY <1>1, WFMin
<1>3. x \in Nat \ {0} /\ x - 1 \in Nat /\ x - 1 \notin S
  <2>1. x \in Nat /\ x # 0
    BY <1>2
  <2>2. x - 1 \in Nat /\ (x - 1) + 1 = x
    BY <2>1
  <2> QED
    BY <1>2, <2>1, <2>2
<1>4. <<x - 1, x>> \in R
  BY <1>3 DEF R
<1> QED
  BY <1>2, <1>3, <1>4

Body(h, s, d, l) == IF s = {} THEN d ELSE Apply(h[s \ {Max(s)}], l[Max(s)])

IsIter(h, k, d, l) == h = [s \in SUBSET (1..k) |-> Body(h, s, d, l)]

\* The greatest of the first numbers.
LEMMA MaxOfPrefix ==
    ASSUME NEW k \in Nat, NEW s \in SUBSET (1..(k + 1)), k + 1 \in s
    PROVE  Max(s) = k + 1
<1>1. \A y \in s : k + 1 >= y
  OBVIOUS
<1>2. \A x \in s : (\A y \in s : x >= y) => x = k + 1
  OBVIOUS
<1> QED
  BY <1>1, <1>2 DEF Max

\* The function that folds a log exists: by induction over the length.
LEMMA IterExists ==
    ASSUME NEW d, NEW l, NEW n \in Nat
    PROVE  \E h : IsIter(h, n, d, l)
<1> DEFINE P(k) == \E h : IsIter(h, k, d, l)
<1> DEFINE S == {k \in Nat : P(k)}
<1>1. P(0)
  <2> DEFINE h == [s \in SUBSET (1..0) |-> d]
  <2>1. \A s \in SUBSET (1..0) : s = {}
    OBVIOUS
  <2>2. \A s \in SUBSET (1..0) : Body(h, s, d, l) = d
    BY <2>1 DEF Body
  <2>3. IsIter(h, 0, d, l)
    BY <2>2 DEF IsIter
  <2> QED
    BY <2>3
<1>2. ASSUME NEW k \in Nat, P(k) PROVE P(k + 1)
  <2>1. PICK h : IsIter(h, k, d, l)
    BY <1>2
  <2> DEFINE g == [s \in SUBSET (1..(k + 1)) |->
                     IF k + 1 \in s THEN Apply(h[s \ {k + 1}], l[k + 1]) ELSE h[s]]
  <2>2. ASSUME NEW s \in SUBSET (1..(k + 1)), k + 1 \in s
        PROVE  g[s] = Body(g, s, d, l)
    <3>1. Max(s) = k + 1 /\ s # {}
      BY <2>2, MaxOfPrefix
    <3>2. s \ {k + 1} \in SUBSET (1..(k + 1)) /\ k + 1 \notin s \ {k + 1}
      BY <2>2
    <3>3. g[s \ {k + 1}] = h[s \ {k + 1}]
      BY <3>2
    <3> QED
      BY <2>2, <3>1, <3>3 DEF Body
  <2>3. ASSUME NEW s \in SUBSET (1..(k + 1)), k + 1 \notin s
        PROVE  g[s] = Body(g, s, d, l)
    <3>1. s \in SUBSET (1..k)
      BY <2>3
    <3>2. g[s] = h[s] /\ h[s] = Body(h, s, d, l)
      BY <2>1, <2>3, <3>1 DEF IsIter
    <3>3. g[s \ {Max(s)}] = h[s \ {Max(s)}]
      <4>1. s \ {Max(s)} \in SUBSET (1..(k + 1)) /\ k + 1 \notin s \ {Max(s)}
        BY <2>3
      <4> QED
        BY <4>1
    <3> QED
      BY <3>2, <3>3 DEF Body
  <2>4. \A s \in SUBSET (1..(k + 1)) : g[s] = Body(g, s, d, l)
    BY <2>2, <2>3
  <2>5. IsIter(g, k + 1, d, l)
    BY <2>4 DEF IsIter
  <2> QED
    BY <2>5
<1> HIDE DEF P
<1>3. Nat \subseteq S
  <2>1. 0 \in S /\ \A k \in Nat : k \in S => k + 1 \in S
    BY <1>1, <1>2
  <2> HIDE DEF S
  <2> QED
    BY <2>1, Induction
<1>4. P(n)
  BY <1>3
<1> QED
  BY <1>4 DEF P

\* The databases that the operations of a log lead through.
IsRun(r, d, l) ==
    /\ DOMAIN r = 0..Len(l)
    /\ r[0] = d
    /\ \A i \in 1..Len(l) : r[i] = Apply(r[i - 1], l[i])

\* Replay is the value of that function.
LEMMA ReplayIter ==
    ASSUME NEW d, NEW l
    PROVE  Replay(d, l) = (CHOOSE h : h = [s \in SUBSET (DOMAIN l) |-> Body(h, s, d, l)])[DOMAIN l]
BY DEF Replay, FoldLeft, MapThenFoldSet, Body

\* Replay goes through the log step by step, from the first operation on.
LEMMA ReplayRuns ==
    ASSUME NEW S, NEW d, NEW l \in Seq(S)
    PROVE  \E r : IsRun(r, d, l) /\ Replay(d, l) = r[Len(l)]
<1>1. PICK n \in Nat : n = Len(l) /\ DOMAIN l = 1..n
  OBVIOUS
<1>2. PICK h : IsIter(h, n, d, l) /\ Replay(d, l) = h[1..n]
  <2> DEFINE h == CHOOSE h : IsIter(h, n, d, l)
  <2>1. IsIter(h, n, d, l)
    BY IterExists
  <2>2. Replay(d, l) = h[1..n]
    BY <1>1, ReplayIter DEF IsIter
  <2> QED
    BY <2>1, <2>2
<1> DEFINE r == [i \in 0..n |-> h[1..i]]
<1>3. r[0] = d
  <2>1. 1..0 = {} /\ {} \in SUBSET (1..n)
    OBVIOUS
  <2>2. h[{}] = Body(h, {}, d, l)
    BY <1>2, <2>1 DEF IsIter
  <2> QED
    BY <2>1, <2>2 DEF Body
<1>4. ASSUME NEW i \in 1..n PROVE r[i] = Apply(r[i - 1], l[i])
  <2>1. PICK j \in Nat : j = i - 1 /\ i = j + 1
    OBVIOUS
  <2>2. 1..i \in SUBSET (1..n) /\ i \in 1..i /\ 1..i = 1..(j + 1)
    BY <2>1
  <2>3. Max(1..i) = i
    BY <2>1, <2>2, MaxOfPrefix
  <2>4. (1..i) \ {i} = 1..(i - 1)
    OBVIOUS
  <2>5. h[1..i] = Body(h, 1..i, d, l)
    BY <1>2, <2>2 DEF IsIter
  <2>6. h[1..i] = Apply(h[1..(i - 1)], l[i])
    BY <2>2, <2>3, <2>4, <2>5 DEF Body
  <2>7. i \in 0..n /\ i - 1 \in 0..n
    OBVIOUS
  <2> QED
    BY <2>6, <2>7
<1>5. r[n] = h[1..n] /\ DOMAIN r = 0..n
  OBVIOUS
<1> HIDE DEF r
<1> QED
  BY <1>1, <1>2, <1>3, <1>4, <1>5 DEF IsRun

\* Induction up to a number.
LEMMA InductionTo ==
    ASSUME NEW n \in Nat, NEW S, 0 \in S, \A i \in 1..n : i - 1 \in S => i \in S
    PROVE  0..n \subseteq S
<1> DEFINE T == {i \in Nat : i <= n => i \in S}
<1>1. 0 \in T
  OBVIOUS
<1>2. ASSUME NEW i \in Nat, i \in T PROVE i + 1 \in T
  <2>1. CASE i + 1 <= n
    <3>1. i \in S /\ i + 1 \in 1..n /\ (i + 1) - 1 = i
      BY <1>2, <2>1
    <3>2. i + 1 \in S
      BY <3>1
    <3> QED
      BY <3>2
  <2> QED
    BY <2>1
<1> HIDE DEF T
<1>3. Nat \subseteq T
  BY <1>1, <1>2, Induction
<1> QED
  BY <1>3 DEF T

\* Runs of logs that begin alike lead through the same databases.
LEMMA RunsAgree ==
    ASSUME NEW d, NEW l, NEW m, NEW r, IsRun(r, d, l), NEW s, IsRun(s, d, m),
           NEW n \in Nat, Len(l) \in Nat, Len(m) \in Nat, n <= Len(l), n <= Len(m),
           \A i \in 1..n : l[i] = m[i]
    PROVE  r[n] = s[n]
<1> DEFINE S == {i \in 0..n : r[i] = s[i]}
<1>1. 0 \in S
  BY DEF IsRun
<1>2. ASSUME NEW i \in 1..n, i - 1 \in S PROVE i \in S
  <2>1. i \in 1..Len(l) /\ i \in 1..Len(m)
    OBVIOUS
  <2> QED
    BY <1>2, <2>1 DEF IsRun
<1> HIDE DEF S
<1>3. 0..n \subseteq S
  BY <1>1, <1>2, InductionTo
<1> QED
  BY <1>3 DEF S

\* No operation changes nothing.
LEMMA ReplayEmpty ==
    ASSUME NEW d
    PROVE  Replay(d, << >>) = d
<1>1. PICK l : l = << >>
  OBVIOUS
<1>2. l \in Seq({}) /\ Len(l) = 0
  BY <1>1
<1>3. PICK r : IsRun(r, d, l) /\ Replay(d, l) = r[Len(l)]
  BY <1>2, ReplayRuns
<1> QED
  BY <1>1, <1>2, <1>3 DEF IsRun

\* One more operation is applied to what the others have made.
LEMMA ReplayAppend ==
    ASSUME NEW S, NEW d, NEW l \in Seq(S), NEW op \in S
    PROVE  Replay(d, Append(l, op)) = Apply(Replay(d, l), op)
<1>1. PICK n \in Nat : n = Len(l)
  OBVIOUS
<1>2. PICK m : m = Append(l, op)
  OBVIOUS
<1>3. m \in Seq(S) /\ Len(m) = n + 1 /\ m[n + 1] = op /\ \A i \in 1..n : l[i] = m[i]
  BY <1>1, <1>2
<1>4. PICK r : IsRun(r, d, l) /\ Replay(d, l) = r[n]
  BY <1>1, ReplayRuns
<1>5. PICK s : IsRun(s, d, m) /\ Replay(d, m) = s[n + 1]
  BY <1>3, ReplayRuns
<1>6. r[n] = s[n]
  BY <1>1, <1>3, <1>4, <1>5, RunsAgree
<1>7. s[n + 1] = Apply(s[n], op)
  <2>1. n + 1 \in 1..Len(m) /\ (n + 1) - 1 = n
    BY <1>3
  <2> QED
    BY <1>3, <1>5, <2>1 DEF IsRun
<1> QED
  BY <1>2, <1>4, <1>5, <1>6, <1>7

-----------------------------------------------------------------------------
(***************************************************************************)
(* What an operation does to the tables.                                   *)
(***************************************************************************)
Table(M) == [made : BOOLEAN, seq : Nat, rows : SUBSET (Nat \X M)]

\* A table after an operation on it.
After(x, op) ==
    CASE op.kind = "createQueue" -> IF x.made THEN x ELSE EmptyTable
      [] op.kind = "deleteQueue" -> IF x.made THEN NoTable ELSE x
      [] op.kind = "putMessage" ->
            IF x.made /\ ~\E r \in x.rows : r[1] = op.id
            THEN [x EXCEPT !.rows = @ \cup {<<op.id, op.msg>>},
                           !.seq = IF op.id > @ THEN op.id ELSE @]
            ELSE x
      [] op.kind = "deleteMessage" ->
            IF x.made THEN [x EXCEPT !.rows = {r \in @ : r[1] # op.id}] ELSE x

\* The parts of an operation.
LEMMA OpFacts ==
    ASSUME NEW Q, NEW M, NEW op \in OpSet(Q, M)
    PROVE  /\ op.q \in Q /\ op.id \in Nat
           /\ op.kind \in {"createQueue", "deleteQueue", "putMessage", "deleteMessage"}
           /\ op.kind = "putMessage" => op.msg \in M
           /\ op.kind = "createQueue" => op = CreateOp(op.q)
           /\ op.kind = "deleteQueue" => op = DropOp(op.q)
<1>1. CASE op \in [kind : {"createQueue", "deleteQueue"}, q : Q, id : {0}, msg : {NoMsg}]
  BY <1>1 DEF CreateOp, DropOp
<1>2. CASE op \in [kind : {"putMessage"}, q : Q, id : Nat, msg : M]
  BY <1>2
<1>3. CASE op \in [kind : {"deleteMessage"}, q : Q, id : Nat, msg : {NoMsg}]
  BY <1>3
<1> QED
  BY <1>1, <1>2, <1>3 DEF OpSet

\* The operations of clients are operations.
LEMMA OpsAreOps ==
    ASSUME NEW Q, NEW M, NEW q \in Q
    PROVE  /\ CreateOp(q) \in OpSet(Q, M) /\ DropOp(q) \in OpSet(Q, M)
           /\ \A id \in Nat : RemoveOp(q, id) \in OpSet(Q, M)
           /\ \A id \in Nat, m \in M : PutOp(q, id, m) \in OpSet(Q, M)
<1>1. CreateOp(q) \in OpSet(Q, M) /\ DropOp(q) \in OpSet(Q, M)
  BY DEF CreateOp, DropOp, OpSet
<1>2. ASSUME NEW id \in Nat PROVE RemoveOp(q, id) \in OpSet(Q, M)
  BY DEF RemoveOp, OpSet
<1>3. ASSUME NEW id \in Nat, NEW m \in M PROVE PutOp(q, id, m) \in OpSet(Q, M)
  BY DEF PutOp, OpSet
<1> QED
  BY <1>1, <1>2, <1>3

\* What the store knows of a queue.
LEMMA NextIdTyped ==
    ASSUME NEW Q, NEW M, NEW d \in DbSet(Q, M), NEW q \in Q
    PROVE  d[q] \in Table(M) /\ d[q].seq \in Nat /\ NextId(d, q) \in Nat
<1>1. d[q] \in Table(M)
  BY DEF DbSet, Table
<1>2. d[q].seq \in Nat
  BY <1>1 DEF Table
<1> QED
  BY <1>1, <1>2 DEF NextId

\* An operation makes a table of a table; of a queue that is not there nothing
\* is left.
LEMMA AfterTyped ==
    ASSUME NEW Q, NEW M, NEW op \in OpSet(Q, M), NEW x \in Table(M)
    PROVE  /\ After(x, op) \in Table(M)
           /\ (~x.made => x = NoTable) => (~After(x, op).made => After(x, op) = NoTable)
<1>1. /\ op.id \in Nat
      /\ op.kind \in {"createQueue", "deleteQueue", "putMessage", "deleteMessage"}
      /\ op.kind = "putMessage" => op.msg \in M
  BY OpFacts
<1>2. x.seq \in Nat /\ x.made \in BOOLEAN /\ x.rows \in SUBSET (Nat \X M)
  BY DEF Table
<1>3. CASE op.kind = "createQueue"
  BY <1>3 DEF After, Table, EmptyTable, NoTable
<1>4. CASE op.kind = "deleteQueue"
  BY <1>4 DEF After, Table, NoTable
<1>5. CASE op.kind = "putMessage"
  <2>1. CASE x.made /\ ~\E r \in x.rows : r[1] = op.id
    <3>1. PICK rows : rows = x.rows \cup {<<op.id, op.msg>>}
      OBVIOUS
    <3>2. PICK seq : seq = IF op.id > x.seq THEN op.id ELSE x.seq
      OBVIOUS
    <3>3. After(x, op) = [x EXCEPT !.rows = rows, !.seq = seq]
      BY <1>5, <2>1, <3>1, <3>2 DEF After
    <3>4. rows \in SUBSET (Nat \X M) /\ seq \in Nat
      BY <1>1, <1>2, <1>5, <3>1, <3>2
    <3> QED
      BY <2>1, <3>3, <3>4 DEF Table
  <2>2. CASE ~(x.made /\ ~\E r \in x.rows : r[1] = op.id)
    <3>1. After(x, op) = x
      BY <1>5, <2>2 DEF After
    <3> QED
      BY <3>1
  <2> QED
    BY <2>1, <2>2
<1>6. CASE op.kind = "deleteMessage"
  <2>1. PICK rows : rows = {r \in x.rows : r[1] # op.id}
    OBVIOUS
  <2>2. After(x, op) = IF x.made THEN [x EXCEPT !.rows = rows] ELSE x
    BY <1>6, <2>1 DEF After
  <2>3. rows \in SUBSET (Nat \X M)
    BY <1>2, <2>1
  <2> QED
    BY <2>2, <2>3 DEF Table
<1> QED
  BY <1>1, <1>3, <1>4, <1>5, <1>6

\* An operation concerns the table of its queue and no other one.
LEMMA ApplyTables ==
    ASSUME NEW Q, NEW M, NEW op \in OpSet(Q, M), NEW d \in DbSet(Q, M)
    PROVE  /\ Apply(d, op) \in DbSet(Q, M)
           /\ \A q \in Q : Apply(d, op)[q] = IF q = op.q THEN After(d[q], op) ELSE d[q]
<1>1. /\ op.q \in Q
      /\ op.kind \in {"createQueue", "deleteQueue", "putMessage", "deleteMessage"}
  BY OpFacts
<1>2. PICK x \in Table(M) : x = d[op.q]
  BY <1>1 DEF DbSet, Table
<1>3. PICK y : y = After(x, op)
  OBVIOUS
<1>4. y \in Table(M)
  BY <1>3, AfterTyped
<1>5. Apply(d, op) = [d EXCEPT ![op.q] = y]
  <2>1. d = [q \in Q |-> d[q]]
    BY DEF DbSet
  <2>2. CASE ~Legal(d, op)
    <3>1. y = x
      BY <1>1, <1>2, <1>3, <2>2 DEF After, Legal, HasRow, Table
    <3> QED
      BY <1>2, <2>1, <2>2, <3>1 DEF Apply
  <2>3. CASE Legal(d, op)
    <3>1. Apply(d, op) = Changed(d, op)
      BY <2>3 DEF Apply
    <3>2. /\ x.made = (op.kind # "createQueue")
          /\ op.kind = "putMessage" => ~\E r \in x.rows : r[1] = op.id
      BY <1>2, <2>3 DEF Legal, HasRow
    <3>3. CASE op.kind = "createQueue"
      BY <1>3, <3>1, <3>2, <3>3 DEF Changed, After
    <3>4. CASE op.kind = "deleteQueue"
      BY <1>3, <3>1, <3>2, <3>4 DEF Changed, After
    <3>5. CASE op.kind = "putMessage"
      <4>1. y = [x EXCEPT !.rows = @ \cup {<<op.id, op.msg>>},
                          !.seq = IF op.id > @ THEN op.id ELSE @]
        BY <1>3, <3>2, <3>5 DEF After
      <4>2. Changed(d, op) = [d EXCEPT ![op.q].rows = @ \cup {<<op.id, op.msg>>},
                                       ![op.q].seq = IF op.id > @ THEN op.id ELSE @]
        BY <3>5 DEF Changed
      <4> QED
        BY <1>1, <1>2, <2>1, <3>1, <4>1, <4>2 DEF Table
    <3>6. CASE op.kind = "deleteMessage"
      <4>1. y = [x EXCEPT !.rows = {r \in @ : r[1] # op.id}]
        BY <1>3, <3>2, <3>6 DEF After
      <4>2. Changed(d, op) = [d EXCEPT ![op.q].rows = {r \in @ : r[1] # op.id}]
        BY <3>6 DEF Changed
      <4> QED
        BY <1>1, <1>2, <2>1, <3>1, <4>1, <4>2 DEF Table
    <3> QED
      BY <1>1, <3>3, <3>4, <3>5, <3>6
  <2> QED
    BY <2>2, <2>3
<1> QED
  BY <1>1, <1>2, <1>3, <1>4, <1>5 DEF DbSet, Table
-----------------------------------------------------------------------------
(***************************************************************************)
(* Two databases under the same log.                                       *)
(***************************************************************************)

\* A queue that was never made, or was deleted, is as if it had never been.
Neat(Q, d) == \A q \in Q : ~d[q].made => d[q] = NoTable

\* Every database on the way is a database.
LEMMA RunTyped ==
    ASSUME NEW Q, NEW M, NEW d \in DbSet(Q, M), NEW l \in Seq(OpSet(Q, M)),
           NEW r, IsRun(r, d, l)
    PROVE  \A i \in 0..Len(l) : /\ r[i] \in DbSet(Q, M)
                                /\ Neat(Q, d) => Neat(Q, r[i])
<1>1. PICK n \in Nat : n = Len(l) /\ \A i \in 1..n : l[i] \in OpSet(Q, M)
  OBVIOUS
<1> DEFINE S == {i \in 0..n : r[i] \in DbSet(Q, M) /\ (Neat(Q, d) => Neat(Q, r[i]))}
<1>2. 0 \in S
  BY DEF IsRun
<1>3. ASSUME NEW i \in 1..n, i - 1 \in S PROVE i \in S
  <2>1. PICK c \in DbSet(Q, M) : c = r[i - 1] /\ (Neat(Q, d) => Neat(Q, c))
    BY <1>3
  <2>2. r[i] = Apply(c, l[i])
    BY <1>1, <2>1 DEF IsRun
  <2>3. /\ Apply(c, l[i]) \in DbSet(Q, M)
        /\ \A q \in Q : Apply(c, l[i])[q] = IF q = l[i].q THEN After(c[q], l[i]) ELSE c[q]
    BY <1>1, ApplyTables
  <2>4. \A q \in Q : c[q] \in Table(M)
    BY DEF DbSet, Table
  <2>5. Neat(Q, c) => Neat(Q, Apply(c, l[i]))
    BY <1>1, <2>3, <2>4, AfterTyped DEF Neat
  <2> QED
    BY <2>1, <2>2, <2>3, <2>5
<1> HIDE DEF S
<1>4. 0..n \subseteq S
  BY <1>2, <1>3, InductionTo
<1> QED
  BY <1>1, <1>4 DEF S

\* And so is the last one.
LEMMA ReplayTyped ==
    ASSUME NEW Q, NEW M, NEW d \in DbSet(Q, M), NEW l \in Seq(OpSet(Q, M))
    PROVE  /\ Replay(d, l) \in DbSet(Q, M)
           /\ Neat(Q, d) => Neat(Q, Replay(d, l))
<1>1. PICK r : IsRun(r, d, l) /\ Replay(d, l) = r[Len(l)]
  BY ReplayRuns
<1>2. Len(l) \in 0..Len(l)
  OBVIOUS
<1> QED
  BY <1>1, <1>2, RunTyped

\* The tables of one queue, step by step.
LEMMA RunTables ==
    ASSUME NEW Q, NEW M, NEW d \in DbSet(Q, M), NEW l \in Seq(OpSet(Q, M)),
           NEW r, IsRun(r, d, l), NEW q \in Q, NEW i \in 1..Len(l)
    PROVE  /\ r[i - 1][q] \in Table(M) /\ r[i][q] \in Table(M)
           /\ r[i][q] = IF q = l[i].q THEN After(r[i - 1][q], l[i]) ELSE r[i - 1][q]
           /\ l[i] \in OpSet(Q, M)
<1>1. i - 1 \in 0..Len(l) /\ i \in 0..Len(l) /\ l[i] \in OpSet(Q, M)
  OBVIOUS
<1>2. r[i - 1] \in DbSet(Q, M) /\ r[i] \in DbSet(Q, M) /\ r[i] = Apply(r[i - 1], l[i])
  BY <1>1, RunTyped DEF IsRun
<1> QED
  BY <1>1, <1>2, ApplyTables DEF DbSet, Table

\* Tables that are equal once stay equal.
LEMMA EqualStay ==
    ASSUME NEW Q, NEW M, NEW d \in DbSet(Q, M), NEW e \in DbSet(Q, M),
           NEW l \in Seq(OpSet(Q, M)), NEW r, IsRun(r, d, l), NEW s, IsRun(s, e, l),
           NEW q \in Q, NEW k \in 0..Len(l), r[k][q] = s[k][q]
    PROVE  r[Len(l)][q] = s[Len(l)][q]
<1>1. PICK n \in Nat : n = Len(l)
  OBVIOUS
<1> DEFINE S == {i \in 0..n : k <= i => r[i][q] = s[i][q]}
<1>2. 0 \in S
  <2>1. k <= 0 => k = 0
    BY <1>1
  <2> QED
    BY <2>1
<1>3. ASSUME NEW i \in 1..n, i - 1 \in S PROVE i \in S
  <2>1. CASE k <= i - 1
    <3>1. r[i - 1][q] = s[i - 1][q]
      BY <1>3, <2>1
    <3>2. r[i][q] = s[i][q]
      BY <1>1, <3>1, RunTables
    <3> QED
      BY <3>2
  <2>2. CASE ~(k <= i - 1)
    <3>1. k <= i => k = i
      BY <1>1, <2>2
    <3> QED
      BY <3>1
  <2> QED
    BY <2>1, <2>2
<1> HIDE DEF S
<1>4. 0..n \subseteq S
  BY <1>2, <1>3, InductionTo
<1>5. n \in S
  BY <1>4
<1> QED
  BY <1>1, <1>5 DEF S

\* After the deletion of a queue nothing is left of what its table was.
LEMMA DropSettles ==
    ASSUME NEW Q, NEW M, NEW d \in DbSet(Q, M), NEW e \in DbSet(Q, M),
           Neat(Q, d), Neat(Q, e),
           NEW l \in Seq(OpSet(Q, M)), NEW q \in Q,
           NEW k \in 1..Len(l), l[k] = DropOp(q)
    PROVE  Replay(d, l)[q] = Replay(e, l)[q]
<1>1. PICK r : IsRun(r, d, l) /\ Replay(d, l) = r[Len(l)]
  BY ReplayRuns
<1>2. PICK s : IsRun(s, e, l) /\ Replay(e, l) = s[Len(l)]
  BY ReplayRuns
<1>3. k - 1 \in 0..Len(l) /\ k \in 0..Len(l)
  OBVIOUS
<1>4. l[k].q = q /\ l[k].kind = "deleteQueue"
  BY DEF DropOp
<1>5. r[k][q] = NoTable
  <2>1. Neat(Q, r[k - 1])
    BY <1>1, <1>3, RunTyped
  <2>2. r[k][q] = After(r[k - 1][q], l[k])
    BY <1>1, <1>4, RunTables
  <2> QED
    BY <1>4, <2>1, <2>2 DEF After, Neat
<1>6. s[k][q] = NoTable
  <2>1. Neat(Q, s[k - 1])
    BY <1>2, <1>3, RunTyped
  <2>2. s[k][q] = After(s[k - 1][q], l[k])
    BY <1>2, <1>4, RunTables
  <2> QED
    BY <1>4, <2>1, <2>2 DEF After, Neat
<1> QED
  BY <1>1, <1>2, <1>3, <1>5, <1>6, EqualStay
-----------------------------------------------------------------------------
(***************************************************************************)
(* Two tables that may differ in the rows of one id, under operations that *)
(* do not delete the queue: the other rows stay the same.                  *)
(***************************************************************************)
Alike(x, y, id, top, may) ==
    /\ x.made /\ y.made /\ y.seq = top
    /\ \A r : r[1] # id => (r \in x.rows <=> r \in y.rows)
    /\ \A r \in y.rows : r[1] = id => r \in may

\* The operations: they put no id above top, and of that one id what is allowed.
Harmless(op, id, top, may) ==
    /\ op.kind # "deleteQueue"
    /\ op.kind = "putMessage" =>
         op.id <= top /\ (op.id = id => <<op.id, op.msg>> \in may)

\* Tables that differ in one id only, still do after a harmless operation ...
LEMMA AlikeStep ==
    ASSUME NEW Q, NEW M, NEW x \in Table(M), NEW y \in Table(M), NEW op \in OpSet(Q, M),
           NEW id \in Nat, NEW top \in Nat, NEW may,
           Alike(x, y, id, top, may), Harmless(op, id, top, may)
    PROVE  Alike(After(x, op), After(y, op), id, top, may)
<1>1. /\ op.id \in Nat
      /\ op.kind \in {"createQueue", "putMessage", "deleteMessage"}
  BY OpFacts DEF Harmless
<1>2. /\ x.made /\ y.made /\ y.seq = top
      /\ \A r : r[1] # id => (r \in x.rows <=> r \in y.rows)
      /\ \A r \in y.rows : r[1] = id => r \in may
  BY DEF Alike
<1>3. CASE op.kind = "createQueue"
  BY <1>2, <1>3 DEF After, Alike
<1>4. CASE op.kind = "putMessage"
  <2>1. PICK row : row = <<op.id, op.msg>>
    OBVIOUS
  <2>2. row[1] = op.id /\ op.id <= top /\ (op.id = id => row \in may)
    BY <1>4, <2>1 DEF Harmless
  <2>3. ASSUME NEW z \in Table(M), z.made
        PROVE  LET w == After(z, op) IN
               /\ w.made
               /\ (\E r \in z.rows : r[1] = op.id) => w = z
               /\ ~(\E r \in z.rows : r[1] = op.id) => w.rows = z.rows \cup {row}
               /\ z.seq = top => w.seq = top
    <3>1. CASE \E r \in z.rows : r[1] = op.id
      BY <1>4, <2>3, <3>1 DEF After
    <3>2. CASE ~(\E r \in z.rows : r[1] = op.id)
      <4>1. PICK seq : seq = IF op.id > z.seq THEN op.id ELSE z.seq
        OBVIOUS
      <4>2. After(z, op) = [z EXCEPT !.rows = z.rows \cup {row}, !.seq = seq]
        BY <1>4, <2>1, <2>3, <3>2, <4>1 DEF After
      <4>3. z.seq = top => seq = top
        BY <1>1, <2>2, <4>1
      <4> QED
        BY <2>3, <3>2, <4>2, <4>3 DEF Table
    <3> QED
      BY <3>1, <3>2
  <2>4. CASE op.id # id
    <3>1. (\E r \in x.rows : r[1] = op.id) <=> (\E r \in y.rows : r[1] = op.id)
      BY <1>2, <2>4
    <3> QED
      BY <1>2, <2>2, <2>3, <2>4, <3>1 DEF Alike
  <2>5. CASE op.id = id
    BY <1>2, <2>2, <2>3, <2>5 DEF Alike
  <2> QED
    BY <2>4, <2>5
<1>5. CASE op.kind = "deleteMessage"
  <2>1. ASSUME NEW z \in Table(M), z.made
        PROVE  LET w == After(z, op) IN
               w.made /\ w.seq = z.seq /\ w.rows = {r \in z.rows : r[1] # op.id}
    BY <1>5, <2>1 DEF After, Table
  <2> QED
    BY <1>2, <2>1 DEF Alike
<1> QED
  BY <1>1, <1>3, <1>4, <1>5

\* ... and after any number of them.
LEMMA AlikeStay ==
    ASSUME NEW Q, NEW M, NEW d \in DbSet(Q, M), NEW e \in DbSet(Q, M),
           NEW l \in Seq(OpSet(Q, M)), NEW q \in Q,
           NEW id \in Nat, NEW top \in Nat, NEW may,
           Alike(d[q], e[q], id, top, may),
           \A i \in 1..Len(l) : l[i].q = q => Harmless(l[i], id, top, may)
    PROVE  Alike(Replay(d, l)[q], Replay(e, l)[q], id, top, may)
<1>1. PICK r : IsRun(r, d, l) /\ Replay(d, l) = r[Len(l)]
  BY ReplayRuns
<1>2. PICK s : IsRun(s, e, l) /\ Replay(e, l) = s[Len(l)]
  BY ReplayRuns
<1>3. PICK n \in Nat : n = Len(l)
  OBVIOUS
<1> DEFINE S == {i \in 0..n : Alike(r[i][q], s[i][q], id, top, may)}
<1>4. 0 \in S
  BY <1>1, <1>2 DEF IsRun
<1>5. ASSUME NEW i \in 1..n, i - 1 \in S PROVE i \in S
  <2>1. /\ r[i - 1][q] \in Table(M) /\ l[i] \in OpSet(Q, M)
        /\ r[i][q] = IF q = l[i].q THEN After(r[i - 1][q], l[i]) ELSE r[i - 1][q]
    BY <1>1, <1>3, RunTables
  <2>2. /\ s[i - 1][q] \in Table(M)
        /\ s[i][q] = IF q = l[i].q THEN After(s[i - 1][q], l[i]) ELSE s[i - 1][q]
    BY <1>2, <1>3, RunTables
  <2>3. Alike(r[i - 1][q], s[i - 1][q], id, top, may)
    BY <1>5
  <2>4. l[i].q = q => Harmless(l[i], id, top, may)
    BY <1>3
  <2>5. Alike(r[i][q], s[i][q], id, top, may)
    BY <2>1, <2>2, <2>3, <2>4, AlikeStep
  <2> QED
    BY <2>5
<1> HIDE DEF S
<1>6. 0..n \subseteq S
  BY <1>4, <1>5, InductionTo
<1>7. n \in S
  BY <1>6
<1> QED
  BY <1>1, <1>2, <1>3, <1>7 DEF S

\* The table of a queue that no operation names.
LEMMA Untouched ==
    ASSUME NEW Q, NEW M, NEW d \in DbSet(Q, M), NEW l \in Seq(OpSet(Q, M)), NEW q \in Q,
           \A i \in 1..Len(l) : l[i].q # q
    PROVE  Replay(d, l)[q] = d[q]
<1>1. PICK r : IsRun(r, d, l) /\ Replay(d, l) = r[Len(l)]
  BY ReplayRuns
<1>2. PICK n \in Nat : n = Len(l)
  OBVIOUS
<1> DEFINE S == {i \in 0..n : r[i][q] = d[q]}
<1>3. 0 \in S
  BY <1>1 DEF IsRun
<1>4. ASSUME NEW i \in 1..n, i - 1 \in S PROVE i \in S
  <2>1. r[i][q] = r[i - 1][q]
    BY <1>1, <1>2, RunTables
  <2> QED
    BY <1>4, <2>1
<1> HIDE DEF S
<1>5. 0..n \subseteq S
  BY <1>3, <1>4, InductionTo
<1>6. n \in S
  BY <1>5
<1> QED
  BY <1>1, <1>2, <1>6 DEF S

\* What becomes of a table depends on that table only.
LEMMA EqualReplay ==
    ASSUME NEW Q, NEW M, NEW d \in DbSet(Q, M), NEW e \in DbSet(Q, M),
           NEW l \in Seq(OpSet(Q, M)), NEW q \in Q, d[q] = e[q]
    PROVE  Replay(d, l)[q] = Replay(e, l)[q]
<1>1. PICK r : IsRun(r, d, l) /\ Replay(d, l) = r[Len(l)]
  BY ReplayRuns
<1>2. PICK s : IsRun(s, e, l) /\ Replay(e, l) = s[Len(l)]
  BY ReplayRuns
<1>3. r[0][q] = s[0][q] /\ 0 \in 0..Len(l)
  BY <1>1, <1>2 DEF IsRun
<1> QED
  BY <1>1, <1>2, <1>3, EqualStay

-----------------------------------------------------------------------------
(***************************************************************************)
(* A store and its log: what the log is good for, and why it stays so when *)
(* the store serves another operation and logs it.                         *)
(***************************************************************************)

\* The i-th operation of the log has been followed by a deletion of its queue.
Dropped(l, i) == \E k \in i..Len(l) : l[k] = DropOp(l[i].q)

\* Or else the queue is there, and its counter has passed the id.
Settled(d, l) ==
    \A i \in 1..Len(l) :
        \/ Dropped(l, i)
        \/ /\ d[l[i].q].made
           /\ l[i].kind = "putMessage" => l[i].id <= d[l[i].q].seq

NoneReused(l) ==
    \A i, j \in 1..Len(l) :
        /\ i < j
        /\ l[i].kind = "putMessage" /\ l[j].kind = "putMessage"
        /\ l[i].q = l[j].q /\ l[i].id = l[j].id
        => \E k \in i..j : l[k] = DropOp(l[i].q)

TailsDoNothing(d, l) ==
    \A k \in 1..(Len(l) + 1) : Replay(d, SubSeq(l, k, Len(l))) = d

Sound(Q, M, d, l) ==
    /\ d \in DbSet(Q, M) /\ l \in Seq(OpSet(Q, M)) /\ Neat(Q, d)
    /\ Replay(EmptyDb(Q), l) = d
    /\ Settled(d, l) /\ NoneReused(l) /\ TailsDoNothing(d, l)

\* What a store that can do an operation does: it chooses the id of a message.
Served(Q, M, d, op) ==
    /\ op \in OpSet(Q, M) /\ Legal(d, op)
    /\ op.kind = "putMessage" => op.id = NextId(d, op.q)

\* The store at the start, and the empty log.
LEMMA EmptySound ==
    ASSUME NEW Q, NEW M
    PROVE  Sound(Q, M, EmptyDb(Q), << >>)
<1>1. PICK d : d = EmptyDb(Q)
  OBVIOUS
<1>2. NoTable \in Table(M)
  BY DEF NoTable, Table
<1>3. d \in DbSet(Q, M) /\ Neat(Q, d)
  BY <1>1, <1>2 DEF EmptyDb, DbSet, Table, Neat
<1>4. PICK l : l = << >>
  OBVIOUS
<1>5. l \in Seq(OpSet(Q, M)) /\ Len(l) = 0 /\ SubSeq(l, 1, 0) = << >>
  BY <1>4
<1>6. TailsDoNothing(d, l)
  <2>1. ASSUME NEW k \in 1..(Len(l) + 1) PROVE SubSeq(l, k, Len(l)) = << >>
    <3>1. k = 1 /\ Len(l) = 0
      BY <1>5
    <3> QED
      BY <1>5, <3>1
  <2> QED
    BY <2>1, ReplayEmpty DEF TailsDoNothing
<1>7. Settled(d, l) /\ NoneReused(l)
  BY <1>5 DEF Settled, NoneReused
<1> QED
  BY <1>1, <1>3, <1>4, <1>5, <1>6, <1>7, ReplayEmpty DEF Sound

\* The one table that the operation concerns.
LEMMA ServedTable ==
    ASSUME NEW Q, NEW M, NEW d \in DbSet(Q, M), NEW op, Served(Q, M, d, op)
    PROVE  /\ op.q \in Q /\ d[op.q] \in Table(M)
           /\ Apply(d, op)[op.q] = After(d[op.q], op)
           /\ d[op.q].made = (op.kind # "createQueue")
           /\ op.kind = "putMessage" =>
                /\ op.id = d[op.q].seq + 1 /\ op.msg \in M
                /\ ~\E r \in d[op.q].rows : r[1] = op.id
                /\ After(d[op.q], op).made /\ After(d[op.q], op).seq = op.id
                /\ After(d[op.q], op).rows = d[op.q].rows \cup {<<op.id, op.msg>>}
           /\ op.kind = "deleteMessage" =>
                /\ After(d[op.q], op).made /\ After(d[op.q], op).seq = d[op.q].seq
                /\ After(d[op.q], op).rows = {r \in d[op.q].rows : r[1] # op.id}
<1>1. op \in OpSet(Q, M) /\ op.q \in Q /\ (op.kind = "putMessage" => op.msg \in M)
  BY OpFacts DEF Served
<1>2. PICK x \in Table(M) : x = d[op.q]
  BY <1>1 DEF DbSet, Table
<1>3. Apply(d, op)[op.q] = After(x, op)
  BY <1>1, <1>2, ApplyTables
<1>4. /\ x.made = (op.kind # "createQueue")
      /\ op.kind = "putMessage" =>
           op.id = x.seq + 1 /\ ~\E r \in x.rows : r[1] = op.id
  BY <1>2 DEF Served, Legal, HasRow, NextId
<1>5. ASSUME op.kind = "putMessage"
      PROVE  /\ After(x, op).made /\ After(x, op).seq = op.id
             /\ After(x, op).rows = x.rows \cup {<<op.id, op.msg>>}
  <2>1. After(x, op) = [x EXCEPT !.rows = @ \cup {<<op.id, op.msg>>},
                                 !.seq = IF op.id > @ THEN op.id ELSE @]
    BY <1>4, <1>5 DEF After
  <2>2. x.seq \in Nat /\ op.id > x.seq
    BY <1>4, <1>5 DEF Table
  <2> QED
    BY <1>4, <1>5, <2>1, <2>2 DEF Table
<1>6. ASSUME op.kind = "deleteMessage"
      PROVE  /\ After(x, op).made /\ After(x, op).seq = x.seq
             /\ After(x, op).rows = {r \in x.rows : r[1] # op.id}
  BY <1>4, <1>6 DEF After, Table
<1> QED
  BY <1>1, <1>2, <1>3, <1>4, <1>5, <1>6

\* One more operation settles what it names, and takes no id again.
LEMMA SettledGrows ==
    ASSUME NEW Q, NEW M, NEW d \in DbSet(Q, M), NEW l \in Seq(OpSet(Q, M)),
           Settled(d, l), NoneReused(l), NEW op, Served(Q, M, d, op)
    PROVE  Settled(Apply(d, op), Append(l, op)) /\ NoneReused(Append(l, op))
<1>1. op \in OpSet(Q, M)
  BY DEF Served
<1>2. PICK n \in Nat : n = Len(l) /\ \A i \in 1..n : l[i] \in OpSet(Q, M)
  OBVIOUS
<1>3. PICK m : m = Append(l, op)
  OBVIOUS
<1>4. Len(m) = n + 1 /\ m[n + 1] = op /\ \A i \in 1..n : m[i] = l[i]
  BY <1>1, <1>2, <1>3
<1>5. PICK e : e = Apply(d, op)
  OBVIOUS
<1>6. /\ op.q \in Q /\ d[op.q] \in Table(M) /\ e[op.q] = After(d[op.q], op)
      /\ d[op.q].made = (op.kind # "createQueue")
      /\ op.kind = "putMessage" =>
           op.id = d[op.q].seq + 1 /\ e[op.q].made /\ e[op.q].seq = op.id
      /\ op.kind = "deleteMessage" => e[op.q].made /\ e[op.q].seq = d[op.q].seq
  BY <1>5, ServedTable
<1>7. op.kind = "createQueue" => e[op.q].made
  BY <1>6 DEF After, EmptyTable, NoTable
<1>8. /\ op.kind = "deleteQueue" => op = DropOp(op.q)
      /\ op.kind \in {"createQueue", "deleteQueue", "putMessage", "deleteMessage"}
  BY <1>1, OpFacts
<1>9. \A q \in Q : q # op.q => e[q] = d[q]
  BY <1>1, <1>5, ApplyTables
<1>10. ASSUME NEW i \in 1..n
       PROVE  \/ \E k \in i..(n + 1) : m[k] = DropOp(m[i].q)
              \/ /\ e[m[i].q].made
                 /\ m[i].kind = "putMessage" => m[i].id <= e[m[i].q].seq
  <2>1. m[i] = l[i] /\ l[i].q \in Q /\ l[i].id \in Nat
    BY <1>2, <1>4, OpFacts
  <2>2. CASE Dropped(l, i)
    <3>1. PICK k \in i..n : l[k] = DropOp(l[i].q)
      BY <1>2, <2>2 DEF Dropped
    <3>2. k \in i..(n + 1) /\ k \in 1..n
      BY <3>1
    <3> QED
      BY <1>4, <2>1, <3>1, <3>2
  <2>3. CASE d[l[i].q].made /\ (l[i].kind = "putMessage" => l[i].id <= d[l[i].q].seq)
    <3>1. CASE l[i].q # op.q
      BY <1>9, <2>1, <2>3, <3>1
    <3>2. CASE l[i].q = op.q /\ op.kind = "deleteQueue"
      <4>1. m[n + 1] = DropOp(m[i].q) /\ n + 1 \in i..(n + 1)
        BY <1>4, <1>8, <2>1, <3>2
      <4> QED
        BY <4>1
    <3>3. CASE l[i].q = op.q /\ op.kind \in {"putMessage", "deleteMessage"}
      <4>1. d[op.q].seq \in Nat
        BY <1>6 DEF Table
      <4> QED
        BY <1>6, <2>1, <2>3, <3>3, <4>1
    <3> QED
      BY <1>6, <1>8, <2>3, <3>1, <3>2, <3>3
  <2> QED
    BY <1>2, <2>2, <2>3 DEF Settled
<1>11. Settled(e, m)
  <2>1. ASSUME op.kind # "deleteQueue"
        PROVE  e[op.q].made /\ (op.kind = "putMessage" => op.id <= e[op.q].seq)
    <3>1. d[op.q].seq \in Nat
      BY <1>6 DEF Table
    <3> QED
      BY <1>6, <1>7, <1>8, <2>1, <3>1
  <2>2. \/ \E k \in (n + 1)..(n + 1) : m[k] = DropOp(m[n + 1].q)
        \/ /\ e[m[n + 1].q].made
           /\ m[n + 1].kind = "putMessage" => m[n + 1].id <= e[m[n + 1].q].seq
    BY <1>4, <1>8, <2>1
  <2>3. \A i \in 1..(n + 1) : i \in 1..n \/ i = n + 1
    OBVIOUS
  <2> QED
    BY <1>4, <1>10, <2>2, <2>3 DEF Settled, Dropped
<1>12. NoneReused(m)
  <2> SUFFICES ASSUME NEW i \in 1..(n + 1), NEW j \in 1..(n + 1), i < j,
                      m[i].kind = "putMessage", m[j].kind = "putMessage",
                      m[i].q = m[j].q, m[i].id = m[j].id
               PROVE  \E k \in i..j : m[k] = DropOp(m[i].q)
    BY <1>4 DEF NoneReused
  <2>1. i \in 1..n /\ m[i] = l[i]
    BY <1>4
  <2>2. CASE j \in 1..n
    <3>1. PICK k \in i..j : l[k] = DropOp(l[i].q)
      BY <1>2, <1>4, <2>1, <2>2 DEF NoneReused
    <3>2. k \in 1..n
      BY <2>1, <2>2
    <3> QED
      BY <1>4, <2>1, <3>1, <3>2
  <2>3. CASE j = n + 1
    <3>1. op.kind = "putMessage" /\ op.q = l[i].q /\ op.id = l[i].id
      BY <1>4, <2>1, <2>3
    <3>2. d[op.q].seq \in Nat /\ op.id = d[op.q].seq + 1
      BY <1>6, <3>1 DEF Table
    <3>3. ~(l[i].id <= d[l[i].q].seq)
      BY <3>1, <3>2
    <3>4. PICK k \in i..n : l[k] = DropOp(l[i].q)
      BY <1>2, <2>1, <3>3, <3>1 DEF Settled, Dropped
    <3>5. k \in 1..n /\ k \in i..j
      BY <2>1, <2>3
    <3> QED
      BY <1>4, <2>1, <3>4, <3>5
  <2> QED
    BY <2>2, <2>3
<1> QED
  BY <1>3, <1>5, <1>11, <1>12

\* A part of the log in which the queue of op is not deleted: what the store
\* has become by op, this part and op make of it again.
LEMMA AgainAlive ==
    ASSUME NEW Q, NEW M, NEW d \in DbSet(Q, M), Neat(Q, d), NEW op, Served(Q, M, d, op),
           NEW e, e = Apply(d, op), NEW t \in Seq(OpSet(Q, M)), Replay(d, t) = d,
           \A j \in 1..Len(t) : t[j].q = op.q =>
              /\ t[j].kind # "deleteQueue" /\ d[op.q].made
              /\ t[j].kind = "putMessage" => t[j].id <= d[op.q].seq
    PROVE  After(Replay(e, t)[op.q], op) = e[op.q]
<1>1. /\ op \in OpSet(Q, M) /\ op.q \in Q /\ op.id \in Nat
      /\ op.kind \in {"createQueue", "deleteQueue", "putMessage", "deleteMessage"}
  BY OpFacts DEF Served
<1>2. e \in DbSet(Q, M) /\ Neat(Q, e)
  <2>1. e \in DbSet(Q, M)
        /\ \A q \in Q : e[q] = IF q = op.q THEN After(d[q], op) ELSE d[q]
    BY <1>1, ApplyTables
  <2>2. \A q \in Q : d[q] \in Table(M)
    BY DEF DbSet, Table
  <2> QED
    BY <1>1, <2>1, <2>2, AfterTyped DEF Neat
<1>3. PICK x \in Table(M) : x = d[op.q]
  BY ServedTable
<1>4. PICK y \in Table(M) : y = e[op.q]
  BY <1>1, <1>2 DEF DbSet, Table
<1>5. Replay(e, t) \in DbSet(Q, M) /\ Neat(Q, Replay(e, t))
  BY <1>2, ReplayTyped
<1>6. PICK z \in Table(M) : z = Replay(e, t)[op.q]
  BY <1>1, <1>5 DEF DbSet, Table
<1>7. /\ y = After(x, op) /\ x.made = (op.kind # "createQueue")
      /\ op.kind = "putMessage" =>
           /\ op.id = x.seq + 1 /\ op.msg \in M
           /\ ~\E r \in x.rows : r[1] = op.id
           /\ y.made /\ y.seq = op.id
           /\ y.rows = x.rows \cup {<<op.id, op.msg>>}
      /\ op.kind = "deleteMessage" =>
           /\ y.made /\ y.seq = x.seq
           /\ y.rows = {r \in x.rows : r[1] # op.id}
  BY <1>3, <1>4, ServedTable
<1>8. CASE op.kind = "createQueue"
  <2>1. \A j \in 1..Len(t) : t[j].q # op.q
    BY <1>3, <1>7, <1>8
  <2>2. z = y
    BY <1>1, <1>2, <1>4, <1>6, <2>1, Untouched
  <2> QED
    BY <1>4, <1>6, <1>7, <1>8, <2>2 DEF After, EmptyTable, NoTable
<1>9. CASE op.kind = "deleteQueue"
  <2>1. ~z.made => z = NoTable
    BY <1>1, <1>5, <1>6 DEF Neat
  <2>2. y = NoTable
    BY <1>7, <1>9 DEF After
  <2> QED
    BY <1>4, <1>6, <1>9, <2>1, <2>2 DEF After
<1>10. CASE op.kind = "putMessage"
  <2>1. PICK row : row = <<op.id, op.msg>>
    OBVIOUS
  <2>2. row[1] = op.id /\ x.seq \in Nat /\ x.made
    BY <1>7, <1>10, <2>1 DEF Table
  <2>3. Alike(x, y, op.id, op.id, {row})
    BY <1>7, <1>10, <2>1, <2>2 DEF Alike
  <2>4. \A j \in 1..Len(t) : t[j].q = op.q => Harmless(t[j], op.id, op.id, {row})
    <3> SUFFICES ASSUME NEW j \in 1..Len(t), t[j].q = op.q
                 PROVE  Harmless(t[j], op.id, op.id, {row})
      OBVIOUS
    <3>1. t[j].id \in Nat
      <4>1. t[j] \in OpSet(Q, M)
        OBVIOUS
      <4> QED
        BY <4>1, OpFacts
    <3> QED
      BY <1>3, <1>7, <1>10, <2>2, <3>1 DEF Harmless
  <2>5. Alike(x, z, op.id, op.id, {row})
    <3>1. Alike(Replay(d, t)[op.q], Replay(e, t)[op.q], op.id, op.id, {row})
      BY <1>1, <1>2, <1>3, <1>4, <2>3, <2>4, AlikeStay
    <3> QED
      BY <1>3, <1>6, <3>1
  <2>6. /\ z.made /\ z.seq = op.id
        /\ \A r : r[1] # op.id => (r \in x.rows <=> r \in z.rows)
        /\ \A r \in z.rows : r[1] = op.id => r = row
    BY <2>5 DEF Alike
  <2>7. CASE \E r \in z.rows : r[1] = op.id
    <3>1. z.rows = y.rows
      BY <1>7, <1>10, <2>1, <2>2, <2>6, <2>7
    <3>2. z = y
      BY <1>7, <1>10, <2>6, <3>1 DEF Table
    <3>3. After(z, op) = z
      BY <1>10, <2>7 DEF After
    <3> QED
      BY <1>4, <1>6, <3>2, <3>3
  <2>8. CASE ~\E r \in z.rows : r[1] = op.id
    <3>1. z.rows = x.rows
      BY <1>7, <1>10, <2>6, <2>8
    <3>2. After(z, op) = [z EXCEPT !.rows = @ \cup {row}, !.seq = op.id]
      BY <1>10, <2>1, <2>6, <2>8 DEF After
    <3>3. PICK rows : rows = x.rows \cup {row}
      OBVIOUS
    <3>4. After(z, op) = [z EXCEPT !.rows = rows, !.seq = op.id]
      BY <3>1, <3>2, <3>3
    <3>5. y.made = z.made /\ y.seq = op.id /\ y.rows = rows
      BY <1>7, <1>10, <2>1, <2>6, <3>3
    <3>6. [z EXCEPT !.rows = rows, !.seq = op.id] = y
      BY <3>5 DEF Table
    <3> QED
      BY <1>4, <1>6, <3>4, <3>6
  <2> QED
    BY <2>7, <2>8
<1>11. CASE op.kind = "deleteMessage"
  <2>1. Alike(x, y, op.id, x.seq, Nat \X M)
    BY <1>7, <1>11 DEF Alike, Table
  <2>2. \A j \in 1..Len(t) : t[j].q = op.q => Harmless(t[j], op.id, x.seq, Nat \X M)
    <3> SUFFICES ASSUME NEW j \in 1..Len(t), t[j].q = op.q
                 PROVE  Harmless(t[j], op.id, x.seq, Nat \X M)
      OBVIOUS
    <3>1. t[j].id \in Nat /\ (t[j].kind = "putMessage" => t[j].msg \in M)
      <4>1. t[j] \in OpSet(Q, M)
        OBVIOUS
      <4> QED
        BY <4>1, OpFacts
    <3> QED
      BY <1>3, <3>1 DEF Harmless
  <2>3. Alike(x, z, op.id, x.seq, Nat \X M)
    <3>1. Alike(Replay(d, t)[op.q], Replay(e, t)[op.q], op.id, x.seq, Nat \X M)
      <4>1. x.seq \in Nat
        BY DEF Table
      <4> QED
        BY <1>1, <1>2, <1>3, <1>4, <2>1, <2>2, <4>1, AlikeStay
    <3> QED
      BY <1>3, <1>6, <3>1
  <2>4. /\ z.made /\ z.seq = x.seq
        /\ {r \in z.rows : r[1] # op.id} = {r \in x.rows : r[1] # op.id}
    BY <2>3 DEF Alike
  <2>5. After(z, op) = [z EXCEPT !.rows = {r \in z.rows : r[1] # op.id}]
    BY <1>11, <2>4 DEF After
  <2>6. After(z, op) = y
    BY <1>7, <1>11, <2>4, <2>5 DEF Table
  <2> QED
    BY <1>4, <1>6, <2>6
<1> QED
  BY <1>1, <1>8, <1>9, <1>10, <1>11

\* The end of the log, done again, still does nothing when an operation has
\* been added.
LEMMA TailsGrow ==
    ASSUME NEW Q, NEW M, NEW d, NEW l, Sound(Q, M, d, l), NEW op, Served(Q, M, d, op)
    PROVE  TailsDoNothing(Apply(d, op), Append(l, op))
<1>1. /\ d \in DbSet(Q, M) /\ l \in Seq(OpSet(Q, M)) /\ Neat(Q, d)
      /\ Settled(d, l) /\ TailsDoNothing(d, l)
      /\ op \in OpSet(Q, M) /\ op.q \in Q
  BY OpFacts DEF Sound, Served
<1>2. PICK n \in Nat : n = Len(l)
  BY <1>1
<1>3. PICK m : m = Append(l, op)
  OBVIOUS
<1>4. m \in Seq(OpSet(Q, M)) /\ Len(m) = n + 1
  BY <1>1, <1>2, <1>3
<1>5. PICK e : e = Apply(d, op)
  OBVIOUS
<1>6. /\ e \in DbSet(Q, M)
      /\ \A q \in Q : e[q] = IF q = op.q THEN After(d[q], op) ELSE d[q]
  BY <1>1, <1>5, ApplyTables
<1>7. Neat(Q, e)
  <2>1. \A q \in Q : d[q] \in Table(M)
    BY <1>1 DEF DbSet, Table
  <2> QED
    BY <1>1, <1>6, <2>1, AfterTyped DEF Neat
<1>8. ASSUME NEW k \in 1..(n + 1)
      PROVE  Replay(e, SubSeq(m, k, n + 1)) = e
  <2>1. PICK t : t = SubSeq(l, k, n)
    OBVIOUS
  <2>2. /\ t \in Seq(OpSet(Q, M)) /\ Len(t) = n - k + 1
        /\ \A j \in 1..Len(t) : t[j] = l[k + j - 1]
    BY <1>1, <1>2, <2>1
  <2>3. SubSeq(m, k, n + 1) = Append(t, op)
    <3>1. PICK a : a = SubSeq(m, k, n + 1)
      OBVIOUS
    <3>2. PICK b : b = Append(t, op)
      OBVIOUS
    <3>3. /\ a \in Seq(OpSet(Q, M)) /\ Len(a) = n - k + 2
          /\ \A j \in 1..(n - k + 2) : a[j] = m[k + j - 1]
      BY <1>4, <3>1
    <3>4. /\ b \in Seq(OpSet(Q, M)) /\ Len(b) = n - k + 2 /\ b[n - k + 2] = op
          /\ \A j \in 1..(n - k + 1) : b[j] = t[j]
      BY <1>1, <2>2, <3>2
    <3>5. m[n + 1] = op /\ \A i \in 1..n : m[i] = l[i]
      BY <1>1, <1>2, <1>3
    <3>6. ASSUME NEW j \in 1..(n - k + 2) PROVE a[j] = b[j]
      <4>1. CASE j \in 1..(n - k + 1)
        <5>1. k + j - 1 \in 1..n
          BY <4>1
        <5> QED
          BY <2>2, <3>3, <3>4, <3>5, <4>1, <5>1
      <4>2. CASE j = n - k + 2
        <5>1. k + j - 1 = n + 1
          BY <4>2
        <5> QED
          BY <3>3, <3>4, <3>5, <4>2, <5>1
      <4> QED
        BY <4>1, <4>2
    <3>7. a = b
      BY <3>3, <3>4, <3>6, SeqEqual
    <3> QED
      BY <3>1, <3>2, <3>7
  <2>4. Replay(d, t) = d
    BY <1>1, <1>2, <2>1 DEF TailsDoNothing
  <2>5. PICK x : x = Replay(e, t)
    OBVIOUS
  <2>6. x \in DbSet(Q, M)
    BY <1>6, <1>7, <2>2, <2>5, ReplayTyped
  <2>7. Replay(e, SubSeq(m, k, n + 1)) = Apply(x, op)
    <3>1. Replay(e, Append(t, op)) = Apply(Replay(e, t), op)
      BY <1>1, <2>2, ReplayAppend
    <3> QED
      BY <2>3, <2>5, <3>1
  <2>8. /\ Apply(x, op) \in DbSet(Q, M)
        /\ \A q \in Q : Apply(x, op)[q] = IF q = op.q THEN After(x[q], op) ELSE x[q]
    BY <1>1, <2>6, ApplyTables
  <2>9. ASSUME NEW q \in Q, q # op.q PROVE x[q] = e[q]
    <3>1. d[q] = e[q]
      BY <1>6, <2>9
    <3>2. Replay(d, t)[q] = Replay(e, t)[q]
      BY <1>1, <1>6, <2>2, <3>1, EqualReplay
    <3> QED
      BY <2>4, <2>5, <3>1, <3>2
  <2>10. After(x[op.q], op) = e[op.q]
    <3>1. CASE \E j \in 1..Len(t) : t[j] = DropOp(op.q)
      <4>1. PICK j \in 1..Len(t) : t[j] = DropOp(op.q)
        BY <3>1
      <4>2. Replay(d, t)[op.q] = Replay(e, t)[op.q]
        <5>1. PICK q \in Q : q = op.q
          BY <1>1
        <5>2. d \in DbSet(Q, M) /\ e \in DbSet(Q, M) /\ Neat(Q, d) /\ Neat(Q, e)
          BY <1>1, <1>6, <1>7
        <5>3. t \in Seq(OpSet(Q, M)) /\ t[j] = DropOp(q)
          BY <2>2, <4>1, <5>1
        <5>4. Replay(d, t)[q] = Replay(e, t)[q]
          BY <5>2, <5>3, DropSettles
        <5> QED
          BY <5>1, <5>4
      <4> QED
        BY <1>1, <1>6, <2>4, <2>5, <4>2
    <3>2. CASE ~\E j \in 1..Len(t) : t[j] = DropOp(op.q)
      <4>1. ASSUME NEW j \in 1..Len(t), t[j].q = op.q
            PROVE  /\ t[j].kind # "deleteQueue" /\ d[op.q].made
                   /\ t[j].kind = "putMessage" => t[j].id <= d[op.q].seq
        <5>1. PICK i \in 1..n : i = k + j - 1 /\ t[j] = l[i]
          BY <2>2
        <5>2. t[j] \in OpSet(Q, M)
          BY <2>2
        <5>3. t[j].kind # "deleteQueue"
          BY <3>2, <4>1, <5>2, OpFacts
        <5>4. ~Dropped(l, i)
          <6> SUFFICES ASSUME NEW p \in i..n, l[p] = DropOp(l[i].q) PROVE FALSE
            BY <1>2 DEF Dropped
          <6>1. p - k + 1 \in 1..Len(t) /\ k + (p - k + 1) - 1 = p
            BY <2>2, <5>1
          <6>2. t[p - k + 1] = DropOp(op.q)
            BY <2>2, <4>1, <5>1, <6>1
          <6> QED
            BY <3>2, <6>1, <6>2
        <5> QED
          BY <1>1, <1>2, <4>1, <5>1, <5>3, <5>4 DEF Settled
      <4>2. d \in DbSet(Q, M) /\ Neat(Q, d) /\ t \in Seq(OpSet(Q, M)) /\ Replay(d, t) = d
        BY <1>1, <2>2, <2>4
      <4>3. After(Replay(e, t)[op.q], op) = e[op.q]
        BY <1>5, <4>1, <4>2, AgainAlive
      <4> QED
        BY <2>5, <4>3
    <3> QED
      BY <3>1, <3>2
  <2> QED
    BY <1>6, <2>7, <2>8, <2>9, <2>10 DEF DbSet
<1>9. Replay(e, SubSeq(m, n + 2, n + 1)) = e
  <2>1. SubSeq(m, n + 2, n + 1) = << >>
    BY <1>4
  <2> QED
    BY <2>1, ReplayEmpty
<1> QED
  BY <1>3, <1>4, <1>5, <1>8, <1>9 DEF TailsDoNothing

\* What the log promises it promises after one more operation.
LEMMA SoundGrows ==
    ASSUME NEW Q, NEW M, NEW d, NEW l, Sound(Q, M, d, l), NEW op, Served(Q, M, d, op)
    PROVE  Sound(Q, M, Apply(d, op), Append(l, op))
<1>1. /\ d \in DbSet(Q, M) /\ l \in Seq(OpSet(Q, M)) /\ Neat(Q, d)
      /\ op \in OpSet(Q, M) /\ Replay(EmptyDb(Q), l) = d
      /\ Settled(d, l) /\ NoneReused(l)
  BY DEF Sound, Served
<1>2. Apply(d, op) \in DbSet(Q, M) /\ Neat(Q, Apply(d, op))
  <2>1. /\ Apply(d, op) \in DbSet(Q, M)
        /\ \A q \in Q : Apply(d, op)[q] = IF q = op.q THEN After(d[q], op) ELSE d[q]
    BY <1>1, ApplyTables
  <2>2. \A q \in Q : d[q] \in Table(M)
    BY <1>1 DEF DbSet, Table
  <2> QED
    BY <1>1, <2>1, <2>2, AfterTyped DEF Neat
<1>3. Append(l, op) \in Seq(OpSet(Q, M))
  BY <1>1
<1>4. Replay(EmptyDb(Q), Append(l, op)) = Apply(d, op)
  BY <1>1, ReplayAppend
<1> QED
  BY <1>1, <1>2, <1>3, <1>4, SettledGrows, TailsGrow DEF Sound


===============================================================================
