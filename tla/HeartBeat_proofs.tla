--------------------------- MODULE HeartBeat_proofs ---------------------------
(***************************************************************************)
(* Proofs about HeartBeat, for any nodes, any cycle, any longer timeout,   *)
(* any number of misses and any number of entries.                         *)
(***************************************************************************)
EXTENDS HeartBeat, SequenceTheorems, TLAPS

-----------------------------------------------------------------------------
(***************************************************************************)
(* The entries.                                                            *)
(***************************************************************************)

\* A function on 1..n is a sequence.
LEMMA FunctionIsSeq ==
    ASSUME NEW S, NEW n \in Nat, NEW f \in [1..n -> S]
    PROVE  f \in Seq(S) /\ DOMAIN f = 1..n
BY DEF Seq

\* The entries are numbered.
LEMMA Numbered ==
    ASSUME TypeOK
    PROVE  /\ Len(entries) \in Nat
           /\ DOMAIN entries = 1..Len(entries)
           /\ \A k \in DOMAIN entries : entries[k] \in Entry
           /\ \A k \in DOMAIN entries : entries[k].node \in Nodes
           /\ clients \subseteq DOMAIN entries
<1>1. DOMAIN entries = 1..Len(entries) /\ \A k \in DOMAIN entries : entries[k] \in Entry
  BY DEF TypeOK
<1> QED
  BY <1>1 DEF TypeOK, Entry

\* A thread changes its entry and no other.
LEMMA OneEntry ==
    ASSUME TypeOK, NEW k \in DOMAIN entries, NEW x \in Entry,
           entries' = [entries EXCEPT ![k] = x]
    PROVE  /\ entries' \in Seq(Entry)
           /\ DOMAIN entries' = DOMAIN entries
           /\ entries'[k] = x
           /\ \A j \in DOMAIN entries : j # k => entries'[j] = entries[j]
<1>1. entries' \in [1..Len(entries) -> Entry]
  BY Numbered
<1> QED
  BY <1>1, Numbered, FunctionIsSeq

\* A marked entry keeps its fields.
LEMMA MarkedFields ==
    ASSUME NEW e \in Entry, NEW b \in BOOLEAN, NEW f,
           f = IF b THEN [e EXCEPT !.cancel = TRUE] ELSE e
    PROVE  /\ f \in Entry
           /\ f.node = e.node /\ f.cnt = e.cnt /\ f.age = e.age /\ f.nap = e.nap
           /\ f.pc = e.pc /\ f.cancel = IF b THEN TRUE ELSE e.cancel
BY DEF Entry

\* CancelDataNode marks the entries of n that are in the vector, as a sequence.
LEMMA CancelledEntries ==
    ASSUME TypeOK, NEW n
    PROVE  LET c == Cancelled(entries, n)
           IN /\ c \in Seq(Entry)
              /\ DOMAIN c = DOMAIN entries
              /\ Len(c) = Len(entries)
              /\ \A k \in DOMAIN entries :
                   /\ c[k] \in Entry
                   /\ c[k].node = entries[k].node /\ c[k].cnt = entries[k].cnt
                   /\ c[k].age = entries[k].age /\ c[k].nap = entries[k].nap
                   /\ c[k].pc = entries[k].pc
                   /\ c[k].cancel = IF k \in EntryOf(n) THEN TRUE
                                    ELSE entries[k].cancel
<1> DEFINE c == Cancelled(entries, n)
<1>1. ASSUME NEW k \in DOMAIN entries
      PROVE  /\ c[k] \in Entry
             /\ c[k].node = entries[k].node /\ c[k].cnt = entries[k].cnt
             /\ c[k].age = entries[k].age /\ c[k].nap = entries[k].nap
             /\ c[k].pc = entries[k].pc
             /\ c[k].cancel = IF k \in EntryOf(n) THEN TRUE ELSE entries[k].cancel
  <2> DEFINE b == k \in EntryOf(n)
             e == entries[k]
  <2>1. e \in Entry /\ b \in BOOLEAN
    BY Numbered
  <2>2. c[k] = IF b THEN [e EXCEPT !.cancel = TRUE] ELSE e
    BY DEF Cancelled
  <2> HIDE DEF b, e
  <2>3. /\ c[k] \in Entry
        /\ c[k].node = e.node /\ c[k].cnt = e.cnt /\ c[k].age = e.age
        /\ c[k].nap = e.nap /\ c[k].pc = e.pc
        /\ c[k].cancel = IF b THEN TRUE ELSE e.cancel
    BY <2>1, <2>2, MarkedFields
  <2> QED
    BY <2>3 DEF b, e
<1>2. c \in [1..Len(entries) -> Entry]
  BY <1>1, Numbered DEF Cancelled
<1>3. c \in Seq(Entry) /\ DOMAIN c = DOMAIN entries
  BY <1>2, Numbered, FunctionIsSeq
<1>4. Len(c) = Len(entries)
  BY <1>3, Numbered, LenProperties
<1> QED
  BY <1>1, <1>3, <1>4

-----------------------------------------------------------------------------
(***************************************************************************)
(* Every step on the entries, field by field.                              *)
(***************************************************************************)

LEMMA Constants ==
    /\ Cycle \in Nat /\ Misses \in Nat /\ MaxJoins \in Nat
    /\ Timeout \in Nat /\ Timeout > Cycle
BY HeartBeatAssumption

\* Entry k keeps node and cancel, and the others stay.
Alone(k) ==
    /\ DOMAIN entries' = DOMAIN entries
    /\ \A j \in DOMAIN entries : j # k => entries'[j] = entries[j]
    /\ entries'[k].node = entries[k].node
    /\ entries'[k].cancel = entries[k].cancel

\* Entry k gets these values.
Becomes(k, p, c, a, z) ==
    /\ Alone(k)
    /\ entries'[k].pc = p /\ entries'[k].cnt = c
    /\ entries'[k].age = a /\ entries'[k].nap = z

LEMMA OneThread ==
    ASSUME TypeOK, NEW k \in DOMAIN entries, NEW x \in Entry,
           x.node = entries[k].node, x.cancel = entries[k].cancel,
           entries' = [entries EXCEPT ![k] = x]
    PROVE  entries' \in Seq(Entry) /\ Becomes(k, x.pc, x.cnt, x.age, x.nap)
<1>1. /\ entries' \in Seq(Entry) /\ DOMAIN entries' = DOMAIN entries
      /\ entries'[k] = x
      /\ \A j \in DOMAIN entries : j # k => entries'[j] = entries[j]
  BY OneEntry
<1> QED
  BY <1>1 DEF Becomes, Alone

\* The labels and numbers that the steps write.
LEMMA Values ==
    /\ 0 \in 0..(Misses + 1) /\ 0 \in 0..Timeout /\ 0 \in 0..Cycle
    /\ Cycle \in 0..Cycle
    /\ \A l \in {"ask", "asked", "lost", "judge", "sleep", "gone"} : l \in ThreadPC
BY Constants DEF ThreadPC

LEMMA AskStep ==
    ASSUME TypeOK, NEW k \in DOMAIN entries, Ask(k)
    PROVE  /\ entries' \in Seq(Entry)
           /\ Becomes(k, IF node[entries[k].node] = "down" THEN "lost" ELSE "asked",
                      entries[k].cnt, entries[k].age, entries[k].nap)
<1> DEFINE p == IF node[entries[k].node] = "down" THEN "lost" ELSE "asked"
           x == [entries[k] EXCEPT !.pc = p]
<1>1. entries[k] \in Entry /\ p \in ThreadPC
  BY Numbered DEF ThreadPC
<1>2. /\ x \in Entry /\ x.node = entries[k].node /\ x.cancel = entries[k].cancel
      /\ x.pc = p /\ x.cnt = entries[k].cnt /\ x.age = entries[k].age
      /\ x.nap = entries[k].nap
  BY <1>1 DEF Entry
<1>3. entries' = [entries EXCEPT ![k] = x]
  BY DEF Ask
<1> HIDE DEF p, x
<1>4. entries' \in Seq(Entry)
      /\ Becomes(k, p, entries[k].cnt, entries[k].age, entries[k].nap)
  BY <1>2, <1>3, OneThread
<1> QED
  BY <1>4 DEF p

LEMMA AnsweredStep ==
    ASSUME TypeOK, NEW k \in DOMAIN entries, Answered(k)
    PROVE  /\ entries' \in Seq(Entry)
           /\ Becomes(k, "judge", 0, entries[k].age, entries[k].nap)
<1> DEFINE x == [entries[k] EXCEPT !.pc = "judge", !.cnt = 0]
<1>1. entries[k] \in Entry
  BY Numbered
<1>2. /\ x \in Entry /\ x.node = entries[k].node /\ x.cancel = entries[k].cancel
      /\ x.pc = "judge" /\ x.cnt = 0 /\ x.age = entries[k].age
      /\ x.nap = entries[k].nap
  BY <1>1, Values, Zenon DEF Entry
<1>3. entries' = [entries EXCEPT ![k] = x]
  BY DEF Answered
<1> HIDE DEF x
<1> QED
  BY <1>2, <1>3, OneThread

LEMMA NotAnsweredStep ==
    ASSUME TypeOK, NEW k \in DOMAIN entries, entries[k].cnt <= Misses, NotAnswered(k)
    PROVE  /\ entries' \in Seq(Entry)
           /\ Becomes(k, "judge", entries[k].cnt + 1, entries[k].age, entries[k].nap)
<1> DEFINE c == entries[k].cnt + 1
           x == [entries[k] EXCEPT !.pc = "judge", !.cnt = c]
<1>1. entries[k] \in Entry
  BY Numbered
<1>2. c \in 0..(Misses + 1)
  BY <1>1, Constants DEF Entry
<1>3. entries' = [entries EXCEPT ![k] = x]
  BY DEF NotAnswered
<1> HIDE DEF c
<1>4. /\ x \in Entry /\ x.node = entries[k].node /\ x.cancel = entries[k].cancel
      /\ x.pc = "judge" /\ x.cnt = c /\ x.age = entries[k].age
      /\ x.nap = entries[k].nap
  BY <1>1, <1>2, Values, Zenon DEF Entry
<1> HIDE DEF x
<1>5. entries' \in Seq(Entry) /\ Becomes(k, "judge", c, entries[k].age, entries[k].nap)
  BY <1>3, <1>4, OneThread
<1> QED
  BY <1>5 DEF c

LEMMA GoOnStep ==
    ASSUME TypeOK, NEW k \in DOMAIN entries, GoOn(k)
    PROVE  /\ entries' \in Seq(Entry)
           /\ IF entries[k].cancel
              THEN Becomes(k, "gone", entries[k].cnt, entries[k].age, entries[k].nap)
              ELSE Becomes(k, "sleep", entries[k].cnt,
                           IF entries[k].cnt = 0 THEN 0 ELSE entries[k].age, Cycle)
<1> DEFINE a == IF entries[k].cnt = 0 THEN 0 ELSE entries[k].age
           x == [entries[k] EXCEPT !.pc = "gone"]
           y == [entries[k] EXCEPT !.pc = "sleep", !.nap = Cycle, !.age = a]
<1>1. entries[k] \in Entry
  BY Numbered
<1>2. a \in 0..Timeout
  BY <1>1, Values DEF Entry
<1>3. CASE entries[k].cancel
  <2>1. entries' = [entries EXCEPT ![k] = x]
    BY <1>3 DEF GoOn
  <2>2. /\ x \in Entry /\ x.node = entries[k].node /\ x.cancel = entries[k].cancel
        /\ x.pc = "gone" /\ x.cnt = entries[k].cnt /\ x.age = entries[k].age
        /\ x.nap = entries[k].nap
    BY <1>1, Values DEF Entry
  <2> HIDE DEF x
  <2> QED
    BY <1>3, <2>1, <2>2, OneThread
<1>4. CASE ~entries[k].cancel
  <2>1. entries' = [entries EXCEPT ![k] = y]
    BY <1>4 DEF GoOn
  <2> HIDE DEF a
  <2>2. /\ y \in Entry /\ y.node = entries[k].node /\ y.cancel = entries[k].cancel
        /\ y.pc = "sleep" /\ y.cnt = entries[k].cnt /\ y.age = a /\ y.nap = Cycle
    BY <1>1, <1>2, Values, Zenon DEF Entry
  <2> HIDE DEF y
  <2>3. entries' \in Seq(Entry) /\ Becomes(k, "sleep", entries[k].cnt, a, Cycle)
    BY <2>1, <2>2, OneThread
  <2> QED
    BY <1>4, <2>3 DEF a
<1> QED
  BY <1>3, <1>4

LEMMA AwakeStep ==
    ASSUME TypeOK, NEW k \in DOMAIN entries, Awake(k)
    PROVE  /\ entries' \in Seq(Entry)
           /\ Becomes(k, "ask", entries[k].cnt, entries[k].age, entries[k].nap)
<1> DEFINE x == [entries[k] EXCEPT !.pc = "ask"]
<1>1. entries[k] \in Entry
  BY Numbered
<1>2. /\ x \in Entry /\ x.node = entries[k].node /\ x.cancel = entries[k].cancel
      /\ x.pc = "ask" /\ x.cnt = entries[k].cnt /\ x.age = entries[k].age
      /\ x.nap = entries[k].nap
  BY <1>1, Values DEF Entry
<1>3. entries' = [entries EXCEPT ![k] = x]
  BY DEF Awake
<1> HIDE DEF x
<1> QED
  BY <1>2, <1>3, OneThread

\* Entry k keeps all but cancel and its label.
Keeps(k) ==
    /\ entries'[k].node = entries[k].node
    /\ entries'[k].cnt = entries[k].cnt
    /\ entries'[k].age = entries[k].age
    /\ entries'[k].nap = entries[k].nap

\* CancelDataNode(n) on entry k.
Marks(k, n) ==
    /\ Keeps(k)
    /\ entries'[k].cancel = IF k \in EntryOf(n) THEN TRUE ELSE entries[k].cancel

LEMMA FindDeadStep ==
    ASSUME TypeOK, NEW n, FindDead(n)
    PROVE  /\ entries' \in Seq(Entry) /\ DOMAIN entries' = DOMAIN entries
           /\ \A k \in DOMAIN entries :
                Marks(k, n) /\ entries'[k].pc = entries[k].pc
<1>1. entries' = Cancelled(entries, n)
  BY DEF FindDead
<1> QED
  BY <1>1, CancelledEntries DEF Marks, Keeps

LEMMA AddStep ==
    ASSUME TypeOK, NEW n \in Nodes, AddDataNode(n)
    PROVE  /\ entries' \in Seq(Entry)
           /\ Len(entries) + 1 \notin DOMAIN entries
           /\ DOMAIN entries' = DOMAIN entries \cup {Len(entries) + 1}
           /\ \A k \in DOMAIN entries :
                Marks(k, n) /\ entries'[k].pc = entries[k].pc
           /\ LET e == entries'[Len(entries) + 1]
              IN /\ e.node = n /\ e.cancel = FALSE /\ e.pc = "ask"
                 /\ e.age = 0 /\ e.cnt = 0 /\ e.nap = 0
<1> DEFINE e == Fresh(n)
           c == Cancelled(entries, n)
<1>1. /\ e \in Entry
      /\ e.node = n /\ e.cancel = FALSE /\ e.pc = "ask"
      /\ e.age = 0 /\ e.cnt = 0 /\ e.nap = 0
  BY Values DEF Entry, Fresh
<1>2. entries' = Append(c, e)
  BY DEF AddDataNode
<1> HIDE DEF e
<1>3. /\ c \in Seq(Entry) /\ Len(c) = Len(entries) /\ DOMAIN c = DOMAIN entries
      /\ \A k \in DOMAIN entries :
           /\ c[k].node = entries[k].node /\ c[k].cnt = entries[k].cnt
           /\ c[k].age = entries[k].age /\ c[k].nap = entries[k].nap
           /\ c[k].pc = entries[k].pc
           /\ c[k].cancel = IF k \in EntryOf(n) THEN TRUE ELSE entries[k].cancel
  BY CancelledEntries
<1> HIDE DEF c
<1>4. \A k \in DOMAIN entries : entries'[k] = c[k]
  BY <1>1, <1>2, <1>3, Numbered, AppendProperties
<1>5. /\ entries' \in Seq(Entry) /\ Len(entries') = Len(entries) + 1
      /\ entries'[Len(entries) + 1] = e
  BY <1>1, <1>2, <1>3, AppendProperties
<1>6. DOMAIN entries' = 1..(Len(entries) + 1)
  BY <1>5, LenProperties
<1>7. \A k \in DOMAIN entries : Marks(k, n) /\ entries'[k].pc = entries[k].pc
  BY <1>3, <1>4 DEF Marks, Keeps
<1> QED
  BY <1>1, <1>5, <1>6, <1>7, Numbered

LEMMA GiveUpStep ==
    ASSUME TypeOK, NEW k \in DOMAIN entries, GiveUp(k)
    PROVE  /\ entries' \in Seq(Entry) /\ DOMAIN entries' = DOMAIN entries
           /\ entries'[k].pc = "gone" /\ Keeps(k)
           /\ \A j \in DOMAIN entries : j # k =>
                Marks(j, entries[k].node) /\ entries'[j].pc = entries[j].pc
<1> DEFINE n == entries[k].node
           c == Cancelled(entries, n)
           x == [c[k] EXCEPT !.pc = "gone"]
<1>1. entries' = [c EXCEPT ![k] = x]
  BY DEF GiveUp
<1>2. /\ c \in Seq(Entry) /\ DOMAIN c = DOMAIN entries
      /\ \A j \in DOMAIN entries :
           /\ c[j] \in Entry
           /\ c[j].node = entries[j].node /\ c[j].cnt = entries[j].cnt
           /\ c[j].age = entries[j].age /\ c[j].nap = entries[j].nap
           /\ c[j].pc = entries[j].pc
           /\ c[j].cancel = IF j \in EntryOf(n) THEN TRUE ELSE entries[j].cancel
  BY CancelledEntries
<1> HIDE DEF c
<1>3. /\ x \in Entry /\ x.node = c[k].node /\ x.cnt = c[k].cnt
      /\ x.age = c[k].age /\ x.nap = c[k].nap /\ x.pc = "gone"
  <2>1. c[k] \in Entry
    BY <1>2
  <2> QED
    BY <2>1, Values DEF Entry
<1> HIDE DEF x
<1>4. entries' \in [1..Len(entries) -> Entry]
  BY <1>1, <1>2, <1>3, Numbered
<1>5. entries' \in Seq(Entry) /\ DOMAIN entries' = DOMAIN entries
  BY <1>4, Numbered, FunctionIsSeq
<1>6. entries'[k] = x /\ \A j \in DOMAIN entries : j # k => entries'[j] = c[j]
  BY <1>1, <1>2
<1> QED
  BY <1>2, <1>3, <1>5, <1>6 DEF Marks, Keeps

LEMMA GoDownStep ==
    ASSUME TypeOK, NEW n, GoDown(n)
    PROVE  /\ entries' \in Seq(Entry) /\ DOMAIN entries' = DOMAIN entries
           /\ \A k \in DOMAIN entries :
                /\ Keeps(k) /\ entries'[k].cancel = entries[k].cancel
                /\ \/ entries'[k].pc = entries[k].pc
                   \/ /\ entries[k].node = n /\ entries[k].pc = "asked"
                      /\ entries'[k].pc = "lost"
<1>1. ASSUME NEW k \in DOMAIN entries
      PROVE  /\ entries'[k] \in Entry
             /\ Keeps(k) /\ entries'[k].cancel = entries[k].cancel
             /\ \/ entries'[k].pc = entries[k].pc
                \/ /\ entries[k].node = n /\ entries[k].pc = "asked"
                   /\ entries'[k].pc = "lost"
  <2>1. entries[k] \in Entry
    BY Numbered
  <2>2. CASE entries[k].node = n /\ entries[k].pc = "asked"
    <3>1. entries'[k] = [entries[k] EXCEPT !.pc = "lost"]
      BY <2>2 DEF GoDown
    <3> QED
      BY <2>1, <2>2, <3>1, Values DEF Entry, Keeps
  <2>3. CASE ~(entries[k].node = n /\ entries[k].pc = "asked")
    <3>1. entries'[k] = entries[k]
      BY <2>3 DEF GoDown
    <3> QED
      BY <2>1, <3>1 DEF Keeps
  <2> QED
    BY <2>2, <2>3
<1>2. entries' \in [1..Len(entries) -> Entry]
  BY <1>1, Numbered DEF GoDown
<1> QED
  BY <1>1, <1>2, Numbered, FunctionIsSeq

\* What a second does to the age of an entry.
Older(a) == IF a < Timeout THEN a + 1 ELSE a

LEMMA TickStep ==
    ASSUME TypeOK, Tick
    PROVE  /\ entries' \in Seq(Entry) /\ DOMAIN entries' = DOMAIN entries
           /\ \A k \in DOMAIN entries :
                /\ Waits(k)
                /\ entries'[k].node = entries[k].node
                /\ entries'[k].cancel = entries[k].cancel
                /\ entries'[k].pc = entries[k].pc
                /\ entries'[k].cnt = entries[k].cnt
                /\ entries'[k].age = Older(entries[k].age)
                /\ entries'[k].nap = IF entries[k].pc = "sleep"
                                     THEN entries[k].nap - 1 ELSE entries[k].nap
<1>1. ASSUME NEW k \in DOMAIN entries
      PROVE  /\ entries'[k] \in Entry
             /\ entries'[k].node = entries[k].node
             /\ entries'[k].cancel = entries[k].cancel
             /\ entries'[k].pc = entries[k].pc
             /\ entries'[k].cnt = entries[k].cnt
             /\ entries'[k].age = Older(entries[k].age)
             /\ entries'[k].nap = IF entries[k].pc = "sleep"
                                  THEN entries[k].nap - 1 ELSE entries[k].nap
  <2> DEFINE e == entries[k]
             a == Older(e.age)
             z == IF e.pc = "sleep" THEN e.nap - 1 ELSE e.nap
  <2>1. e \in Entry
    BY Numbered
  <2>2. Waits(k)
    BY DEF Tick
  <2>3. a \in 0..Timeout /\ z \in 0..Cycle
    BY <2>1, <2>2, Constants DEF Entry, Older, Waits
  <2>4. entries'[k] = [e EXCEPT !.age = a, !.nap = z]
    BY DEF Tick, Older
  <2> HIDE DEF e, a, z
  <2>5. /\ entries'[k] \in Entry
        /\ entries'[k].node = e.node /\ entries'[k].cancel = e.cancel
        /\ entries'[k].pc = e.pc /\ entries'[k].cnt = e.cnt
        /\ entries'[k].age = a /\ entries'[k].nap = z
    BY <2>1, <2>3, <2>4, Zenon DEF Entry
  <2> QED
    BY <2>5 DEF e, a, z
<1>2. entries' \in [1..Len(entries) -> Entry]
  BY <1>1, Numbered DEF Tick
<1> QED
  BY <1>1, <1>2, Numbered, FunctionIsSeq DEF Tick

-----------------------------------------------------------------------------
(***************************************************************************)
(* Types.                                                                  *)
(***************************************************************************)

\* A thread counts up to one miss too many, and then ends.
CntFits ==
    \A k \in DOMAIN entries :
        entries[k].pc \in {"judge", "gone"} \/ entries[k].cnt <= Misses

Typed == TypeOK /\ CntFits

LEMMA TypedInit == Init => Typed
<1> SUFFICES ASSUME Init PROVE Typed
  OBVIOUS
<1>1. entries \in Seq(Entry) /\ DOMAIN entries = {}
  BY EmptySeq DEF Init
<1>2. joins \in [Nodes -> 0..MaxJoins]
  BY Constants DEF Init
<1>3. TypeOK
  BY <1>1, <1>2, Values DEF Init, TypeOK
<1> QED
  BY <1>1, <1>3 DEF Typed, CntFits

\* A step of a thread keeps the number of entries.
LEMMA ThreadTyped ==
    ASSUME Typed, NEW k \in DOMAIN entries, RegularCheck(k)
    PROVE  Typed'
<1> USE DEF Typed
<1>1. TypeOK /\ CntFits /\ entries[k] \in Entry
  BY Numbered
<1>2. ASSUME entries' \in Seq(Entry), DOMAIN entries' = DOMAIN entries,
             clients' \subseteq clients, robbed' \subseteq Nodes,
             UNCHANGED <<node, joins, steady, silent>>
      PROVE  TypeOK'
  BY <1>1, <1>2 DEF TypeOK
<1>3. ASSUME NEW p, NEW c, NEW a, NEW z, Becomes(k, p, c, a, z),
             p \in {"judge", "gone"} \/ c <= Misses
      PROVE  CntFits'
  BY <1>1, <1>3 DEF CntFits, Becomes, Alone
<1>4. CASE Ask(k)
  BY <1>1, <1>2, <1>3, <1>4, AskStep DEF Ask, Becomes, Alone, CntFits, TypeOK
<1>5. CASE Answered(k)
  BY <1>1, <1>2, <1>3, <1>5, AnsweredStep DEF Answered, Becomes, Alone, TypeOK
<1>6. CASE NotAnswered(k)
  <2>1. entries[k].cnt <= Misses
    BY <1>1, <1>6 DEF NotAnswered, CntFits
  <2> QED
    BY <1>1, <1>2, <1>3, <1>6, <2>1, NotAnsweredStep DEF NotAnswered, Becomes, Alone, TypeOK
<1>7. CASE GiveUp(k)
  <2>1. /\ entries' \in Seq(Entry) /\ DOMAIN entries' = DOMAIN entries
        /\ entries'[k].pc = "gone"
        /\ \A j \in DOMAIN entries : j # k =>
             entries'[j].pc = entries[j].pc /\ entries'[j].cnt = entries[j].cnt
    BY <1>1, <1>7, GiveUpStep DEF Marks, Keeps
  <2>2. robbed' \subseteq Nodes /\ clients' \subseteq clients
    BY <1>1, <1>7, Numbered DEF GiveUp, TypeOK, Equal
  <2>3. CntFits'
    BY <1>1, <2>1 DEF CntFits
  <2> QED
    BY <1>2, <1>7, <2>1, <2>2, <2>3 DEF GiveUp
<1>8. CASE GoOn(k)
  BY <1>1, <1>2, <1>3, <1>8, GoOnStep DEF GoOn, Becomes, Alone, TypeOK
<1>9. CASE Awake(k)
  BY <1>1, <1>2, <1>3, <1>9, AwakeStep DEF Awake, Becomes, Alone, CntFits, TypeOK
<1> QED
  BY <1>4, <1>5, <1>6, <1>7, <1>8, <1>9 DEF RegularCheck

LEMMA NodeTyped ==
    ASSUME Typed, NEW n \in Nodes,
           Start(n) \/ AddDataNode(n) \/ FindDead(n) \/ GoDown(n) \/ Block(n)
             \/ Unblock(n)
    PROVE  Typed'
<1>1. TypeOK /\ CntFits
  BY DEF Typed
<1>2. CASE Start(n) \/ Block(n) \/ Unblock(n)
  <2>1. joins' \in [Nodes -> 0..MaxJoins]
    <3>1. joins \in [Nodes -> 0..MaxJoins]
      BY <1>1 DEF TypeOK
    <3>2. joins' = joins \/ (joins[n] < MaxJoins /\ joins' = [joins EXCEPT ![n] = @ + 1])
      BY <1>2 DEF Start, Block, Unblock
    <3> QED
      BY <3>1, <3>2, Constants
  <2>2. TypeOK'
    BY <1>1, <1>2, <2>1, Values DEF Start, Block, Unblock, TypeOK
  <2>3. CntFits'
    BY <1>1, <1>2 DEF Start, Block, Unblock, CntFits
  <2> QED
    BY <2>2, <2>3 DEF Typed
<1>3. CASE AddDataNode(n)
  <2> DEFINE m == Len(entries) + 1
  <2>1. /\ entries' \in Seq(Entry) /\ DOMAIN entries' = DOMAIN entries \cup {m}
        /\ \A k \in DOMAIN entries :
             Marks(k, n) /\ entries'[k].pc = entries[k].pc
        /\ entries'[m].cnt = 0
    BY <1>1, <1>3, AddStep
  <2>2. /\ clients' = (clients \ EntryOf(n)) \cup {m}
        /\ steady' \in {steady, steady \cup {n}} /\ robbed' = robbed \ {n}
        /\ silent' = [silent EXCEPT ![n] = 0] /\ UNCHANGED node
    BY <1>3 DEF AddDataNode
  <2>5. joins' \in [Nodes -> 0..MaxJoins]
    BY <1>1, <1>3, Constants DEF AddDataNode, ReadJoin, TypeOK
  <2> HIDE DEF m
  <2>3. TypeOK'
    BY <1>1, <2>1, <2>2, <2>5, Values DEF TypeOK
  <2>4. CntFits'
    <3>1. \A k \in DOMAIN entries :
            entries'[k].pc = entries[k].pc /\ entries'[k].cnt = entries[k].cnt
      BY <2>1 DEF Marks, Keeps
    <3>2. entries'[m].cnt <= Misses
      BY <2>1, Constants
    <3> QED
      BY <1>1, <2>1, <3>1, <3>2 DEF CntFits
  <2> QED
    BY <2>3, <2>4 DEF Typed
<1>4. CASE FindDead(n)
  <2>1. /\ entries' \in Seq(Entry) /\ DOMAIN entries' = DOMAIN entries
        /\ \A k \in DOMAIN entries :
             entries'[k].pc = entries[k].pc /\ entries'[k].cnt = entries[k].cnt
    BY <1>1, <1>4, FindDeadStep DEF Marks, Keeps
  <2>2. TypeOK'
    BY <1>1, <1>4, <2>1 DEF FindDead, TypeOK
  <2>3. CntFits'
    BY <1>1, <2>1 DEF CntFits
  <2> QED
    BY <2>2, <2>3 DEF Typed
<1>5. CASE GoDown(n)
  <2>1. /\ entries' \in Seq(Entry) /\ DOMAIN entries' = DOMAIN entries
        /\ \A k \in DOMAIN entries :
             /\ entries'[k].cnt = entries[k].cnt
             /\ \/ entries'[k].pc = entries[k].pc
                \/ entries[k].pc = "asked"
    BY <1>1, <1>5, GoDownStep DEF Keeps
  <2>4. joins' \in [Nodes -> 0..MaxJoins]
    BY <1>1, <1>5, Constants DEF GoDown, TypeOK
  <2>2. TypeOK'
    BY <1>1, <1>5, <2>1, <2>4 DEF GoDown, TypeOK
  <2>3. CntFits'
    BY <1>1, <2>1 DEF CntFits
  <2> QED
    BY <2>2, <2>3 DEF Typed
<1> QED
  BY <1>2, <1>3, <1>4, <1>5

LEMMA TickTyped ==
    ASSUME Typed, Tick
    PROVE  Typed'
<1>1. TypeOK /\ CntFits
  BY DEF Typed
<1>2. /\ entries' \in Seq(Entry) /\ DOMAIN entries' = DOMAIN entries
      /\ \A k \in DOMAIN entries :
           entries'[k].pc = entries[k].pc /\ entries'[k].cnt = entries[k].cnt
  BY <1>1, TickStep
<1>3. silent' \in [Nodes -> 0..Timeout]
  <2>1. ASSUME NEW n \in Nodes
        PROVE  (IF Answers(n) THEN 0
                ELSE IF silent[n] < Timeout THEN silent[n] + 1 ELSE Timeout)
                 \in 0..Timeout
    BY <1>1, Constants DEF TypeOK
  <2> QED
    BY <2>1 DEF Tick
<1>4. TypeOK'
  BY <1>1, <1>2, <1>3 DEF Tick, TypeOK
<1>5. CntFits'
  BY <1>1, <1>2 DEF CntFits
<1> QED
  BY <1>4, <1>5 DEF Typed

LEMMA TypedStep == Typed /\ [Next]_vars => Typed'
<1>1. ASSUME Typed, UNCHANGED vars PROVE Typed'
  BY <1>1 DEF Typed, TypeOK, CntFits, vars
<1> QED
  BY <1>1, ThreadTyped, NodeTyped, TickTyped DEF Next

\* Every reachable state of the failure detector is well typed: the seconds and
\* misses stay in their bounds, and the vector names entries that there are.
THEOREM TypeCorrect == Spec => []TypeOK
<1>1. Typed => TypeOK
  BY DEF Typed
<1> QED
  BY <1>1, TypedInit, TypedStep, PTL DEF Spec

-----------------------------------------------------------------------------
(***************************************************************************)
(* Every entry is watched.                                                 *)
(***************************************************************************)

LEMMA WatchedThread ==
    ASSUME Typed, ClientsWatched, NEW k \in DOMAIN entries, RegularCheck(k)
    PROVE  ClientsWatched'
<1>1. TypeOK /\ clients \subseteq DOMAIN entries
  BY Numbered DEF Typed
<1>2. ASSUME clients' = clients, Alone(k),
             k \in clients => entries'[k].pc # "gone"
      PROVE  ClientsWatched'
  BY <1>1, <1>2 DEF ClientsWatched, EntryOf, Alone
<1>3. CASE Ask(k)
  <2>1. Alone(k) /\ entries'[k].pc # "gone"
    BY <1>1, <1>3, AskStep DEF Becomes
  <2> QED
    BY <1>2, <1>3, <2>1 DEF Ask
<1>4. CASE Answered(k)
  <2>1. Alone(k) /\ entries'[k].pc # "gone"
    BY <1>1, <1>4, AnsweredStep DEF Becomes
  <2> QED
    BY <1>2, <1>4, <2>1 DEF Answered
<1>5. CASE NotAnswered(k)
  <2>1. entries[k].cnt <= Misses
    BY <1>5 DEF NotAnswered, Typed, CntFits
  <2>2. Alone(k) /\ entries'[k].pc # "gone"
    BY <1>1, <1>5, <2>1, NotAnsweredStep DEF Becomes
  <2> QED
    BY <1>2, <1>5, <2>2 DEF NotAnswered
<1>6. CASE GiveUp(k)
  <2> DEFINE n == entries[k].node
  <2>1. clients' = clients \ EntryOf(n)
    BY <1>6 DEF GiveUp, Equal, EntryOf
  <2>2. ASSUME NEW j \in clients, entries[j].node # n
        PROVE  /\ entries'[j].node = entries[j].node
               /\ entries'[j].pc = entries[j].pc
               /\ entries'[j].cancel = entries[j].cancel
    <3>1. j \in DOMAIN entries /\ j # k /\ j \notin EntryOf(n)
      BY <1>1, <2>2 DEF EntryOf
    <3> QED
      BY <1>1, <1>6, <3>1, GiveUpStep DEF Marks, Keeps
  <2>3. clients' = {j \in clients : entries[j].node # n}
    BY <2>1 DEF EntryOf
  <2> HIDE DEF n
  <2> QED
    BY <2>2, <2>3 DEF ClientsWatched, EntryOf
<1>7. CASE GoOn(k)
  <2>1. k \in clients => ~entries[k].cancel
    BY DEF ClientsWatched
  <2>2. Alone(k) /\ (~entries[k].cancel => entries'[k].pc # "gone")
    BY <1>1, <1>7, GoOnStep DEF Becomes
  <2> QED
    BY <1>2, <1>7, <2>1, <2>2 DEF GoOn
<1>8. CASE Awake(k)
  <2>1. Alone(k) /\ entries'[k].pc # "gone"
    BY <1>1, <1>8, AwakeStep DEF Becomes
  <2> QED
    BY <1>2, <1>8, <2>1 DEF Awake
<1> QED
  BY <1>3, <1>4, <1>5, <1>6, <1>7, <1>8 DEF RegularCheck

LEMMA WatchedNode ==
    ASSUME Typed, ClientsWatched, NEW n \in Nodes,
           Start(n) \/ AddDataNode(n) \/ FindDead(n) \/ GoDown(n) \/ Block(n)
             \/ Unblock(n)
    PROVE  ClientsWatched'
<1>1. TypeOK /\ clients \subseteq DOMAIN entries
  BY Numbered DEF Typed
<1>2. CASE Start(n) \/ Block(n) \/ Unblock(n)
  BY <1>2 DEF Start, Block, Unblock, ClientsWatched, EntryOf
\* CancelDataNode leaves the entries of other nodes alone.
<1>3. ASSUME \A k \in DOMAIN entries : Marks(k, n) /\ entries'[k].pc = entries[k].pc
      PROVE  \A j \in {i \in clients : entries[i].node # n} :
               /\ entries'[j].node = entries[j].node
               /\ entries'[j].pc = entries[j].pc
               /\ entries'[j].cancel = entries[j].cancel
  BY <1>1, <1>3 DEF Marks, Keeps, EntryOf
<1>4. CASE AddDataNode(n)
  <2> DEFINE m == Len(entries) + 1
  <2>1. /\ m \notin DOMAIN entries
        /\ entries'[m].node = n /\ entries'[m].cancel = FALSE
        /\ entries'[m].pc = "ask"
        /\ \A k \in DOMAIN entries : Marks(k, n) /\ entries'[k].pc = entries[k].pc
    BY <1>1, <1>4, AddStep
  <2>2. clients' = {i \in clients : entries[i].node # n} \cup {m}
    BY <1>4 DEF AddDataNode, EntryOf
  <2> HIDE DEF m
  <2>3. \A j \in {i \in clients : entries[i].node # n} :
          /\ j # m
          /\ entries'[j].node = entries[j].node
          /\ entries'[j].pc = entries[j].pc
          /\ entries'[j].cancel = entries[j].cancel
    BY <1>1, <1>3, <2>1
  <2> QED
    BY <2>1, <2>2, <2>3 DEF ClientsWatched, EntryOf
<1>5. CASE FindDead(n)
  <2>1. \A k \in DOMAIN entries : Marks(k, n) /\ entries'[k].pc = entries[k].pc
    BY <1>1, <1>5, FindDeadStep
  <2>2. clients' = {i \in clients : entries[i].node # n}
    BY <1>5 DEF FindDead, EntryOf
  <2> QED
    BY <1>3, <2>1, <2>2 DEF ClientsWatched, EntryOf
<1>6. CASE GoDown(n)
  <2>1. \A k \in clients :
          /\ entries'[k].node = entries[k].node
          /\ entries'[k].cancel = entries[k].cancel
          /\ entries'[k].pc \in {entries[k].pc, "lost"}
    BY <1>1, <1>6, GoDownStep DEF Keeps
  <2>2. clients' = clients
    BY <1>6 DEF GoDown
  <2> QED
    BY <2>1, <2>2 DEF ClientsWatched, EntryOf
<1> QED
  BY <1>2, <1>4, <1>5, <1>6

LEMMA WatchedStep == Typed /\ ClientsWatched /\ [Next]_vars => ClientsWatched'
<1>1. ASSUME ClientsWatched, UNCHANGED vars PROVE ClientsWatched'
  BY <1>1 DEF ClientsWatched, EntryOf, vars
<1>2. ASSUME Typed, ClientsWatched, Tick PROVE ClientsWatched'
  <2>1. \A k \in clients :
          /\ entries'[k].node = entries[k].node
          /\ entries'[k].cancel = entries[k].cancel
          /\ entries'[k].pc = entries[k].pc
    BY <1>2, TickStep, Numbered DEF Typed
  <2>2. clients' = clients
    BY <1>2 DEF Tick
  <2> QED
    BY <1>2, <2>1, <2>2 DEF ClientsWatched, EntryOf
<1> QED
  BY <1>1, <1>2, WatchedThread, WatchedNode DEF Next

\* However many incarnations a node has had, and whichever of their threads
\* cancels an entry, a node has at most one entry in the vector, which has not
\* been cancelled and whose thread has not ended.
THEOREM ClientsWatchedAlways == Spec => []ClientsWatched
<1>1. Init => ClientsWatched
  BY DEF Init, ClientsWatched
<1> QED
  BY <1>1, TypedInit, TypedStep, WatchedStep, PTL DEF Spec

-----------------------------------------------------------------------------
(***************************************************************************)
(* The clock of an entry and the silence of its node.                      *)
(***************************************************************************)

\* A node that answers has not been silent, nor has one whose answer a thread
\* is about to judge; an entry is at least as old as the silence of its node.
Silence ==
    /\ \A n \in Nodes : Answers(n) => silent[n] = 0
    /\ \A k \in DOMAIN entries :
        /\ entries[k].pc = "judge" /\ entries[k].cnt = 0 =>
             silent[entries[k].node] = 0
        /\ silent[entries[k].node] <= entries[k].age

LEMMA SilentType ==
    ASSUME Typed
    PROVE  /\ \A n \in Nodes : silent[n] \in Nat
           /\ \A k \in DOMAIN entries : entries[k].age \in Nat
           /\ \A k \in DOMAIN entries : entries[k].node \in Nodes
<1>1. \A n \in Nodes : silent[n] \in 0..Timeout
  BY DEF Typed, TypeOK
<1>2. \A k \in DOMAIN entries : entries[k] \in Entry
  BY Numbered DEF Typed
<1> QED
  BY <1>1, <1>2, Constants DEF Entry

LEMMA SilenceThread ==
    ASSUME Typed, Silence, NEW k \in DOMAIN entries, RegularCheck(k)
    PROVE  Silence'
<1>1. TypeOK
  BY DEF Typed
<1>2. UNCHANGED <<node, silent>>
  BY DEF RegularCheck, Ask, Answered, NotAnswered, GiveUp, GoOn, Awake
<1>3. ASSUME Alone(k), entries'[k].age = entries[k].age,
             entries'[k].pc = "judge" /\ entries'[k].cnt = 0 =>
                silent[entries[k].node] = 0
      PROVE  Silence'
  BY <1>2, <1>3 DEF Silence, Alone, Answers
<1>4. CASE Ask(k)
  BY <1>1, <1>3, <1>4, AskStep DEF Becomes
<1>5. CASE Answered(k)
  <2>1. silent[entries[k].node] = 0
    BY <1>1, <1>5, Numbered DEF Answered, Silence
  <2> QED
    BY <1>1, <1>3, <1>5, <2>1, AnsweredStep DEF Becomes
<1>6. CASE NotAnswered(k)
  <2>1. entries[k].cnt <= Misses
    BY <1>6 DEF NotAnswered, Typed, CntFits
  <2>2. entries[k].cnt + 1 # 0
    BY <1>1, Numbered, Constants DEF Entry
  <2> QED
    BY <1>1, <1>3, <1>6, <2>1, <2>2, NotAnsweredStep DEF Becomes
<1>7. CASE GiveUp(k)
  <2>1. /\ DOMAIN entries' = DOMAIN entries
        /\ entries'[k].pc = "gone"
        /\ entries'[k].node = entries[k].node /\ entries'[k].age = entries[k].age
        /\ \A j \in DOMAIN entries : j # k =>
             /\ entries'[j].node = entries[j].node
             /\ entries'[j].age = entries[j].age
             /\ entries'[j].cnt = entries[j].cnt
             /\ entries'[j].pc = entries[j].pc
    BY <1>1, <1>7, GiveUpStep DEF Marks, Keeps
  <2> QED
    BY <1>2, <2>1 DEF Silence, Answers
<1>8. CASE GoOn(k)
  <2>1. CASE entries[k].cnt = 0 /\ ~entries[k].cancel
    <3>1. Alone(k) /\ entries'[k].age = 0 /\ entries'[k].pc = "sleep"
      BY <1>1, <1>8, <2>1, GoOnStep DEF Becomes
    <3>2. silent[entries[k].node] = 0
      BY <1>8, <2>1 DEF GoOn, Silence
    <3> QED
      BY <1>2, <3>1, <3>2 DEF Silence, Alone, Answers
  <2>2. CASE ~(entries[k].cnt = 0 /\ ~entries[k].cancel)
    <3>1. /\ Alone(k) /\ entries'[k].age = entries[k].age
          /\ entries'[k].pc \in {"gone", "sleep"}
      BY <1>1, <1>8, <2>2, GoOnStep DEF Becomes
    <3> QED
      BY <1>3, <3>1
  <2> QED
    BY <2>1, <2>2
<1>9. CASE Awake(k)
  BY <1>1, <1>3, <1>9, AwakeStep DEF Becomes
<1> QED
  BY <1>4, <1>5, <1>6, <1>7, <1>8, <1>9 DEF RegularCheck

LEMMA SilenceNode ==
    ASSUME Typed, Silence, NEW n \in Nodes,
           Start(n) \/ AddDataNode(n) \/ FindDead(n) \/ GoDown(n) \/ Block(n)
             \/ Unblock(n)
    PROVE  Silence'
<1>1. TypeOK
  BY DEF Typed
<1>2. ASSUME UNCHANGED silent, \A m \in Nodes : Answers(m)' => Answers(m),
             DOMAIN entries' = DOMAIN entries,
             \A k \in DOMAIN entries : Keeps(k) /\ entries'[k].pc \in {entries[k].pc, "lost"}
      PROVE  Silence'
  BY <1>2 DEF Silence, Keeps
<1>3. CASE Start(n) \/ Unblock(n)
  <2>1. /\ silent' = [silent EXCEPT ![n] = 0]
        /\ entries' = entries
        /\ \A m \in Nodes : m # n => node'[m] = node[m]
    BY <1>1, <1>3 DEF Start, Unblock, TypeOK
  <2>2. \A m \in Nodes : silent'[m] = IF m = n THEN 0 ELSE silent[m]
    BY <1>1, <2>1 DEF TypeOK
  <2> QED
    BY <2>1, <2>2, SilentType DEF Silence, Answers
<1>4. CASE AddDataNode(n)
  <2> DEFINE m == Len(entries) + 1
  <2>1. /\ DOMAIN entries' = DOMAIN entries \cup {m}
        /\ entries'[m].node = n /\ entries'[m].pc = "ask" /\ entries'[m].age = 0
        /\ \A k \in DOMAIN entries : Marks(k, n) /\ entries'[k].pc = entries[k].pc
    BY <1>1, <1>4, AddStep
  <2> HIDE DEF m
  <2>2. \A k \in DOMAIN entries : Keeps(k) /\ entries'[k].pc = entries[k].pc
    BY <2>1 DEF Marks
  <2>3. silent' = [silent EXCEPT ![n] = 0] /\ node' = node
    BY <1>4 DEF AddDataNode
  <2>4. \A i \in Nodes : silent'[i] = IF i = n THEN 0 ELSE silent[i]
    BY <1>1, <2>3 DEF TypeOK
  <2>5. \A k \in DOMAIN entries : silent'[entries[k].node] <= entries[k].age
    BY <2>4, SilentType DEF Silence
  <2>6. \A k \in DOMAIN entries' :
          silent'[entries'[k].node] <= entries'[k].age
    BY <2>1, <2>2, <2>4, <2>5 DEF Keeps
  <2> QED
    BY <2>1, <2>2, <2>3, <2>4, <2>6, SilentType DEF Silence, Keeps, Answers
<1>5. CASE FindDead(n)
  BY <1>1, <1>2, <1>5, FindDeadStep DEF FindDead, Marks, Answers
<1>6. CASE GoDown(n)
  <2>1. UNCHANGED silent /\ \A m \in Nodes : Answers(m)' => Answers(m)
    BY <1>1, <1>6 DEF GoDown, Answers, TypeOK
  <2> QED
    BY <1>1, <1>2, <1>6, <2>1, GoDownStep
<1>7. CASE Block(n)
  <2>1. /\ UNCHANGED <<silent, entries>>
        /\ \A m \in Nodes : Answers(m)' => Answers(m)
    BY <1>1, <1>7 DEF Block, Answers, TypeOK
  <2> QED
    BY <1>2, <2>1 DEF Keeps
<1> QED
  BY <1>3, <1>4, <1>5, <1>6, <1>7

LEMMA SilenceTick ==
    ASSUME Typed, Silence, Tick
    PROVE  Silence'
<1>1. /\ DOMAIN entries' = DOMAIN entries
      /\ \A k \in DOMAIN entries :
           /\ Waits(k)
           /\ entries'[k].node = entries[k].node /\ entries'[k].pc = entries[k].pc
           /\ entries'[k].age = Older(entries[k].age)
  BY TickStep DEF Typed
<1>2. \A n \in Nodes :
        silent'[n] = IF Answers(n) THEN 0
                     ELSE IF silent[n] < Timeout THEN silent[n] + 1 ELSE Timeout
  BY DEF Tick
<1>3. \A n \in Nodes : Answers(n)' = Answers(n)
  BY DEF Tick, Answers
<1>4. \A k \in DOMAIN entries : entries'[k].pc # "judge"
  BY <1>1 DEF Waits
<1>5. \A k \in DOMAIN entries : silent'[entries'[k].node] <= entries'[k].age
  <2> TAKE k \in DOMAIN entries
  <2> DEFINE n == entries[k].node
             a == entries[k].age
  <2>1. n \in Nodes /\ silent[n] \in Nat /\ a \in Nat /\ silent[n] <= a
    BY SilentType DEF Silence
  <2>2. /\ entries'[k].node = n /\ entries'[k].age = Older(a)
        /\ silent'[n] = IF Answers(n) THEN 0
                        ELSE IF silent[n] < Timeout THEN silent[n] + 1 ELSE Timeout
    BY <1>1, <1>2, <2>1
  <2>3. a <= Timeout
    BY Numbered DEF Typed, Entry
  <2> HIDE DEF n, a
  <2> QED
    BY <2>1, <2>2, <2>3, Constants DEF Older
<1> QED
  BY <1>1, <1>2, <1>3, <1>4, <1>5 DEF Silence

LEMMA SilenceStep == Typed /\ Silence /\ [Next]_vars => Silence'
<1>1. ASSUME Silence, UNCHANGED vars PROVE Silence'
  BY <1>1 DEF Silence, Answers, vars
<1> QED
  BY <1>1, SilenceThread, SilenceNode, SilenceTick DEF Next

\* A node that has not answered for the length of the timeout is not found
\* alive, for any cycle and any number of misses: whatever requests were under
\* way, no thread sets the clock of an entry back after its node fell silent.
THEOREM SilentNodesDeadAlways == Spec => []SilentNodesDead
<1>1. Init => Silence
  <2>1. Init => DOMAIN entries = {}
    BY EmptySeq DEF Init
  <2> QED
    BY <2>1 DEF Init, Silence
<1>2. Typed /\ Silence => SilentNodesDead
  <2> SUFFICES ASSUME Typed, Silence, NEW n \in Nodes, silent[n] >= Timeout,
                      NEW k \in EntryOf(n)
               PROVE  ~IsAlive(k)
    BY DEF SilentNodesDead, NodeAlive
  <2>1. k \in DOMAIN entries /\ entries[k].node = n
    BY Numbered DEF Typed, EntryOf
  <2> QED
    BY <2>1, SilentType, Constants DEF Silence, IsAlive
<1> QED
  BY <1>1, <1>2, TypedInit, TypedStep, SilenceStep, PTL DEF Spec

-----------------------------------------------------------------------------
(***************************************************************************)
(* Nodes that answer.                                                      *)
(***************************************************************************)

\* The entry of a node that answers: no miss, and asked again within a cycle
\* of the last time its clock was set back.
Recent(k) ==
    /\ entries[k].pc \in {"ask", "asked", "judge", "sleep"}
    /\ entries[k].cnt = 0
    /\ entries[k].age <= Cycle
    /\ entries[k].pc = "sleep" => entries[k].age + entries[k].nap <= Cycle

\* A node that has answered ever since it joined runs; its entry is recent, and
\* is there unless a thread of an earlier incarnation has taken it.
Steadiness ==
    /\ \A n \in steady : node[n] = "up"
    /\ \A n \in steady \ robbed : EntryOf(n) # {}
    /\ \A k \in clients : entries[k].node \in steady => Recent(k)

\* Numbers of an entry.
LEMMA EntryNumbers ==
    ASSUME Typed, NEW k \in DOMAIN entries
    PROVE  entries[k].age \in Nat /\ entries[k].nap \in Nat /\ entries[k].cnt \in Nat
<1>1. entries[k] \in Entry
  BY Numbered DEF Typed
<1> QED
  BY <1>1, Constants DEF Entry

LEMMA SteadyThread ==
    ASSUME Typed, ClientsWatched, Steadiness, NEW k \in DOMAIN entries, RegularCheck(k)
    PROVE  Steadiness'
<1> DEFINE n == entries[k].node
           mine == k \in clients /\ n \in steady
<1>1. TypeOK /\ clients \subseteq DOMAIN entries /\ steady \subseteq Nodes
  BY Numbered DEF Typed, TypeOK
<1>2. mine => Recent(k) /\ node[n] = "up" /\ ~entries[k].cancel
  BY DEF Steadiness, ClientsWatched
<1>3. ASSUME UNCHANGED <<node, clients, steady, robbed>>, Alone(k), mine => Recent(k)'
      PROVE  Steadiness'
  <2>1. \A j \in clients : j # k => (Recent(j)' <=> Recent(j))
    BY <1>1, <1>3 DEF Recent, Alone
  <2>2. \A m : EntryOf(m)' = EntryOf(m)
    BY <1>1, <1>3 DEF EntryOf, Alone
  <2>3. \A j \in clients : entries'[j].node = entries[j].node
    BY <1>1, <1>3 DEF Alone
  <2> QED
    BY <1>3, <2>1, <2>2, <2>3 DEF Steadiness
<1>4. entries[k].age \in Nat /\ entries[k].nap \in Nat /\ entries[k].cnt \in Nat
  BY EntryNumbers
<1>5. CASE Ask(k)
  <2>1. Alone(k) /\ (mine => Recent(k)')
    BY <1>1, <1>2, <1>5, AskStep DEF Becomes, Recent
  <2> QED
    BY <1>3, <1>5, <2>1 DEF Ask
<1>6. CASE Answered(k)
  <2>1. Alone(k) /\ (mine => Recent(k)')
    BY <1>1, <1>2, <1>6, AnsweredStep DEF Becomes, Recent
  <2> QED
    BY <1>3, <1>6, <2>1 DEF Answered
<1>7. CASE NotAnswered(k)
  <2>1. ~mine
    BY <1>2, <1>7 DEF NotAnswered, Recent, Answers
  <2>2. entries[k].cnt <= Misses
    BY <1>7 DEF NotAnswered, Typed, CntFits
  <2>3. Alone(k)
    BY <1>1, <1>7, <2>2, NotAnsweredStep DEF Becomes
  <2> QED
    BY <1>3, <1>7, <2>1, <2>3 DEF NotAnswered
<1>8. CASE GiveUp(k)
  <2>1. ~mine
    BY <1>2, <1>8, Constants DEF GiveUp, Recent
  <2>2. /\ clients' = clients \ EntryOf(n)
        /\ robbed' = robbed \cup {entries[j].node : j \in EntryOf(n) \ {k}}
        /\ UNCHANGED <<node, steady>>
    BY <1>8 DEF GiveUp, Equal, EntryOf
  <2>3. \A j \in clients' :
          /\ entries'[j].node = entries[j].node
          /\ entries'[j].pc = entries[j].pc /\ entries'[j].cnt = entries[j].cnt
          /\ entries'[j].age = entries[j].age /\ entries'[j].nap = entries[j].nap
    <3> SUFFICES ASSUME NEW j \in clients' PROVE
          /\ entries'[j].node = entries[j].node
          /\ entries'[j].pc = entries[j].pc /\ entries'[j].cnt = entries[j].cnt
          /\ entries'[j].age = entries[j].age /\ entries'[j].nap = entries[j].nap
      OBVIOUS
    <3>1. j \in clients /\ j \in DOMAIN entries /\ j # k
      BY <1>1, <2>2 DEF EntryOf
    <3> QED
      BY <1>1, <1>8, <3>1, GiveUpStep DEF Marks, Keeps
  <2>4. \A j \in clients' : entries'[j].node \in steady' => Recent(j)'
    BY <2>2, <2>3 DEF Steadiness, Recent
  <2>5. n \in steady' \ robbed' => FALSE
    <3> SUFFICES ASSUME n \in steady, n \notin robbed' PROVE FALSE
      BY <2>2
    <3>1. PICK j \in EntryOf(n) : TRUE
      BY <2>2 DEF Steadiness
    <3>2. j # k /\ entries[j].node = n
      BY <2>1, <3>1 DEF EntryOf
    <3> QED
      BY <2>2, <3>1, <3>2
  <2>6. ASSUME NEW m \in steady' \ robbed' PROVE EntryOf(m)' # {}
    <3>1. m # n
      BY <2>5, <2>6
    <3>2. PICK j \in EntryOf(m) : TRUE
      BY <2>2, <2>6 DEF Steadiness
    <3> HIDE DEF n
    <3>3. j \in clients'
      BY <2>2, <3>1, <3>2 DEF EntryOf
    <3>4. entries'[j].node = m
      BY <2>3, <3>2, <3>3 DEF EntryOf
    <3> QED
      BY <3>3, <3>4 DEF EntryOf
  <2> QED
    BY <2>2, <2>4, <2>6 DEF Steadiness
<1>9. CASE GoOn(k)
  <2>1. CASE entries[k].cancel
    <3>1. Alone(k)
      BY <1>1, <1>9, <2>1, GoOnStep DEF Becomes
    <3> QED
      BY <1>2, <1>3, <1>9, <2>1, <3>1 DEF GoOn
  <2>2. CASE ~entries[k].cancel
    <3>1. Becomes(k, "sleep", entries[k].cnt,
                  IF entries[k].cnt = 0 THEN 0 ELSE entries[k].age, Cycle)
      BY <1>1, <1>9, <2>2, GoOnStep
    <3>2. mine => Recent(k)'
      BY <1>2, <3>1, Constants DEF Becomes, Recent
    <3>3. Alone(k)
      BY <3>1 DEF Becomes
    <3> QED
      BY <1>3, <1>9, <3>2, <3>3 DEF GoOn
  <2> QED
    BY <2>1, <2>2
<1>10. CASE Awake(k)
  <2>1. Alone(k) /\ (mine => Recent(k)')
    BY <1>1, <1>2, <1>10, AwakeStep DEF Becomes, Recent
  <2> QED
    BY <1>3, <1>10, <2>1 DEF Awake
<1> QED
  BY <1>5, <1>6, <1>7, <1>8, <1>9, <1>10 DEF RegularCheck

\* Entries of nodes that stay steady keep all that Recent looks at.
LEMMA SteadyKept ==
    ASSUME Typed, Steadiness, NEW n \in Nodes,
           steady' \subseteq steady, robbed' = robbed, clients' = clients,
           DOMAIN entries' = DOMAIN entries,
           \A m \in steady' : node'[m] = "up",
           \A k \in clients :
             /\ Keeps(k)
             /\ entries[k].node \in steady' => entries'[k].pc = entries[k].pc
    PROVE  Steadiness'
<1>1. \A k \in clients : entries'[k].node = entries[k].node
  BY DEF Keeps
<1>2. \A m : EntryOf(m)' = EntryOf(m)
  BY <1>1 DEF EntryOf
<1>3. \A k \in clients : entries'[k].node \in steady' => Recent(k)'
  BY <1>1 DEF Steadiness, Recent, Keeps
<1> QED
  BY <1>2, <1>3 DEF Steadiness

LEMMA SteadyNode ==
    ASSUME Typed, Steadiness, NEW n \in Nodes,
           Start(n) \/ AddDataNode(n) \/ FindDead(n) \/ GoDown(n) \/ Block(n)
             \/ Unblock(n)
    PROVE  Steadiness'
<1>1. TypeOK /\ clients \subseteq DOMAIN entries /\ steady \subseteq Nodes
  BY Numbered DEF Typed, TypeOK
<1>2. CASE Start(n) \/ Unblock(n)
  <2>1. /\ UNCHANGED <<entries, clients, steady, robbed>>
        /\ node[n] # "up"
        /\ \A m \in Nodes : m # n => node'[m] = node[m]
    BY <1>1, <1>2 DEF Start, Unblock, TypeOK
  <2>2. \A m \in steady' : node'[m] = "up"
    BY <1>1, <2>1 DEF Steadiness
  <2> QED
    BY <2>1, <2>2, SteadyKept DEF Keeps
<1>3. CASE Block(n)
  <2>1. /\ UNCHANGED <<entries, clients, robbed>> /\ steady' = steady \ {n}
        /\ \A m \in Nodes : m # n => node'[m] = node[m]
    BY <1>1, <1>3 DEF Block, TypeOK
  <2>2. \A m \in steady' : node'[m] = "up"
    BY <1>1, <2>1 DEF Steadiness
  <2> QED
    BY <2>1, <2>2, SteadyKept DEF Keeps
<1>4. CASE GoDown(n)
  <2>1. /\ UNCHANGED <<clients, robbed>> /\ steady' = steady \ {n}
        /\ \A m \in Nodes : m # n => node'[m] = node[m]
    BY <1>1, <1>4 DEF GoDown, TypeOK
  <2>2. \A m \in steady' : node'[m] = "up"
    BY <1>1, <2>1 DEF Steadiness
  <2>3. /\ DOMAIN entries' = DOMAIN entries
        /\ \A k \in DOMAIN entries :
             Keeps(k) /\ (entries[k].node # n => entries'[k].pc = entries[k].pc)
    BY <1>1, <1>4, GoDownStep
  <2> QED
    BY <1>1, <2>1, <2>2, <2>3, SteadyKept
<1>5. ASSUME NEW j \in clients, entries[j].node # n,
             Marks(j, n), entries'[j].pc = entries[j].pc
      PROVE  entries'[j].node = entries[j].node /\ (Recent(j)' <=> Recent(j))
  BY <1>5 DEF Marks, Keeps, Recent
<1>6. CASE AddDataNode(n)
  <2>0. PICK m : m = Len(entries) + 1
    OBVIOUS
  <2>1. /\ DOMAIN entries' = DOMAIN entries \cup {m} /\ m \notin DOMAIN entries
        /\ entries'[m].node = n /\ entries'[m].pc = "ask"
        /\ entries'[m].age = 0 /\ entries'[m].cnt = 0
        /\ \A k \in DOMAIN entries : Marks(k, n) /\ entries'[k].pc = entries[k].pc
    BY <1>1, <1>6, <2>0, AddStep
  <2>2. /\ clients' = (clients \ EntryOf(n)) \cup {m}
        /\ steady' = (IF Answers(n) THEN steady \cup {n} ELSE steady)
        /\ robbed' = robbed \ {n} /\ node' = node
    BY <1>6, <2>0 DEF AddDataNode
  <2>3. \A i \in steady' : node'[i] = "up"
    BY <2>2 DEF Steadiness, Answers
  <2>4. \A j \in clients \ EntryOf(n) :
          /\ entries[j].node # n
          /\ entries'[j].node = entries[j].node /\ (Recent(j)' <=> Recent(j))
    BY <1>1, <1>5, <2>1 DEF EntryOf
  <2>5. Recent(m)'
    BY <2>1, Constants DEF Recent
  <2>6. \A j \in clients' : entries'[j].node \in steady' => Recent(j)'
    BY <2>2, <2>4, <2>5 DEF Steadiness
  <2>7. ASSUME NEW i \in steady' \ robbed' PROVE EntryOf(i)' # {}
    <3>1. CASE i = n
      BY <2>1, <2>2, <3>1 DEF EntryOf
    <3>2. CASE i # n
      <4>1. PICK j \in EntryOf(i) : TRUE
        BY <2>2, <2>7, <3>2 DEF Steadiness
      <4>2. j \in clients \ EntryOf(n)
        BY <3>2, <4>1 DEF EntryOf
      <4>3. entries'[j].node = i
        BY <2>4, <4>1, <4>2 DEF EntryOf
      <4> QED
        BY <2>2, <4>2, <4>3 DEF EntryOf
    <3> QED
      BY <3>1, <3>2
  <2> QED
    BY <2>3, <2>6, <2>7 DEF Steadiness
<1>7. CASE FindDead(n)
  <2>1. n \notin steady
    <3>1. PICK k \in EntryOf(n) : ~IsAlive(k)
      BY <1>7 DEF FindDead
    <3>2. k \in clients /\ k \in DOMAIN entries /\ entries[k].node = n
      BY <1>1, <3>1 DEF EntryOf
    <3>3. entries[k].age \in Nat
      BY <3>2, EntryNumbers
    <3> QED
      BY <3>1, <3>2, <3>3, Constants DEF Steadiness, Recent, IsAlive
  <2>2. clients' = clients \ EntryOf(n) /\ UNCHANGED <<node, steady, robbed>>
    BY <1>7 DEF FindDead
  <2>3. \A k \in DOMAIN entries : Marks(k, n) /\ entries'[k].pc = entries[k].pc
    BY <1>1, <1>7, FindDeadStep
  <2>4. \A j \in clients \ EntryOf(n) :
          entries'[j].node = entries[j].node /\ (Recent(j)' <=> Recent(j))
    BY <1>1, <1>5, <2>3 DEF EntryOf
  <2>5. ASSUME NEW i \in steady' \ robbed' PROVE EntryOf(i)' # {}
    <3>1. PICK j \in EntryOf(i) : i # n
      BY <2>1, <2>2, <2>5 DEF Steadiness
    <3>2. j \in clients \ EntryOf(n) /\ entries[j].node = i
      BY <3>1 DEF EntryOf
    <3>3. entries'[j].node = i
      BY <2>4, <3>2
    <3> QED
      BY <2>2, <3>2, <3>3 DEF EntryOf
  <2> QED
    BY <2>2, <2>4, <2>5 DEF Steadiness
<1> QED
  BY <1>2, <1>3, <1>4, <1>6, <1>7

\* While a second passes, the thread of a steady node sleeps.
LEMMA SteadyTick ==
    ASSUME Typed, Steadiness, Tick
    PROVE  Steadiness'
<1>1. /\ DOMAIN entries' = DOMAIN entries
      /\ \A k \in DOMAIN entries :
           /\ Waits(k)
           /\ entries'[k].node = entries[k].node /\ entries'[k].pc = entries[k].pc
           /\ entries'[k].cnt = entries[k].cnt
           /\ entries'[k].age = Older(entries[k].age)
           /\ entries'[k].nap = IF entries[k].pc = "sleep"
                                THEN entries[k].nap - 1 ELSE entries[k].nap
  BY TickStep DEF Typed
<1>2. UNCHANGED <<node, clients, steady, robbed>>
  BY DEF Tick
<1>3. clients \subseteq DOMAIN entries
  BY Numbered DEF Typed
<1>4. ASSUME NEW k \in clients, entries[k].node \in steady PROVE Recent(k)'
  <2>1. k \in DOMAIN entries /\ Recent(k) /\ node[entries[k].node] = "up"
    BY <1>3, <1>4 DEF Steadiness
  <2>2. entries[k].pc = "sleep" /\ entries[k].nap > 0
    BY <1>1, <2>1 DEF Waits, Recent, Answers
  <2>3. entries[k].age \in Nat /\ entries[k].nap \in Nat
    BY <2>1, EntryNumbers
  <2>4. entries'[k].age = entries[k].age + 1
    BY <1>1, <2>1, <2>3, Constants DEF Older, Recent
  <2> QED
    BY <1>1, <2>1, <2>2, <2>3, <2>4, Constants DEF Recent
<1>5. \A m : EntryOf(m)' = EntryOf(m)
  BY <1>1, <1>2, <1>3 DEF EntryOf
<1> QED
  BY <1>1, <1>2, <1>3, <1>4, <1>5 DEF Steadiness

LEMMA SteadyStep == Typed /\ ClientsWatched /\ Steadiness /\ [Next]_vars => Steadiness'
<1>1. ASSUME Steadiness, UNCHANGED vars PROVE Steadiness'
  BY <1>1 DEF Steadiness, Recent, EntryOf, vars
<1> QED
  BY <1>1, SteadyThread, SteadyNode, SteadyTick DEF Next

\* A node that has answered every request since it joined is found alive, if
\* the timeout is longer than the cycle, unless a thread of its earlier
\* incarnation has taken its entry: no node that works is erased from the team.
THEOREM SteadyNodesAliveAlways == Spec => []SteadyNodesAlive
<1>1. Init => ClientsWatched /\ Steadiness
  BY DEF Init, ClientsWatched, Steadiness
<1>2. Typed /\ Steadiness => SteadyNodesAlive
  <2> SUFFICES ASSUME Typed, Steadiness, NEW n \in steady \ robbed
               PROVE  NodeAlive(n)
    BY DEF SteadyNodesAlive
  <2>1. PICK k \in EntryOf(n) : TRUE
    BY DEF Steadiness
  <2>2. Recent(k) /\ k \in DOMAIN entries
    BY <2>1, Numbered DEF Steadiness, EntryOf, Typed
  <2>3. entries[k].age < Timeout
    BY <2>2, EntryNumbers, Constants DEF Recent
  <2> QED
    BY <2>1, <2>3 DEF NodeAlive, IsAlive
<1> QED
  BY <1>1, <1>2, TypedInit, TypedStep, WatchedStep, SteadyStep, PTL DEF Spec

===============================================================================
