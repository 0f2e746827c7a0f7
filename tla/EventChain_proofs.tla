-------------------------- MODULE EventChain_proofs --------------------------
(***************************************************************************)
(* Proofs about EventChain, for events of any queues, ids and durations    *)
(* and chains of any length.                                               *)
(***************************************************************************)
EXTENDS EventChain, WellFoundedInduction, TLAPS

\* Min of a non-empty set of positions is its least member.
LEMMA MinIsLeast ==
    ASSUME NEW S \in SUBSET Nat, S # {}
    PROVE  Min(S) \in S /\ \A x \in S : Min(S) <= x
<1>1. PICK x \in S : \A y \in S : ~(<<y, x>> \in OpToRel(<, Nat))
  BY NatLessThanWellFounded, WFMin
<1>2. \A y \in S : x =< y
  <2>1. \A y \in S : y < x => <<y, x>> \in OpToRel(<, Nat)
    BY DEF OpToRel
  <2>2. \A y \in S : ~(y < x)
    BY <1>1, <2>1, Zenon
  <2> QED
    BY <2>2
<1> QED
  BY <1>2 DEF Min

-----------------------------------------------------------------------------
(***************************************************************************)
(* The operations keep the order.                                          *)
(***************************************************************************)

\* What is scheduled goes behind links with no more, and before links with
\* more time left.
LEMMA ScheduleSorted ==
    ASSUME NEW c \in Seq(Event), Sorted(c), NEW e \in Event, e.left = e.sched
    PROVE  Schedule(c, e) \in Seq(Event) /\ Sorted(Schedule(c, e))
<1>0. e.left \in Nat /\ \A i \in DOMAIN c : c[i].left \in Nat
  <2>1. \A f \in Event : f.left \in Nat
    BY DEF Event, EventSet
  <2>2. \A i \in DOMAIN c : c[i] \in Event
    OBVIOUS
  <2> QED
    BY <2>1, <2>2
<1>1. CASE Later(c, e) = {}
  <2>1. Schedule(c, e) = Append(c, e)
    BY <1>1 DEF Schedule
  <2>2. \A i \in DOMAIN c : c[i].left <= e.left
    BY <1>0, <1>1 DEF Later
  <2> HIDE DEF Event
  <2>3. /\ Append(c, e) \in Seq(Event) /\ Len(Append(c, e)) = Len(c) + 1
        /\ Append(c, e)[Len(c) + 1] = e
        /\ \A i \in 1..Len(c) : Append(c, e)[i] = c[i]
    OBVIOUS
  <2> QED
    BY <1>0, <2>1, <2>2, <2>3 DEF Sorted
<1>2. CASE Later(c, e) # {}
  <2> DEFINE k == Min(Later(c, e))
             d == SubSeq(c, 1, k-1) \o <<e>> \o SubSeq(c, k, Len(c))
  <2>3. k \in Later(c, e) /\ \A i \in Later(c, e) : k <= i
    <3>1. Later(c, e) \in SUBSET Nat
      BY DEF Later
    <3> QED
      BY <1>2, <3>1, MinIsLeast
  <2>5. Schedule(c, e) = d
    BY <1>2 DEF Schedule, InsertAt
  <2> HIDE DEF k
  <2>4. /\ k \in 1..Len(c) /\ c[k].left > e.left
        /\ \A i \in 1..Len(c) : i < k => c[i].left <= e.left
    BY <1>0, <2>3 DEF Later
  <2>6. /\ d \in Seq(Event) /\ Len(d) = Len(c) + 1 /\ d[k] = e
        /\ \A i \in 1..Len(c) : i < k => d[i] = c[i]
        /\ \A i \in 1..Len(c) : i >= k => d[i+1] = c[i]
    BY <2>4
  <2> HIDE DEF d
  <2>7. \A j \in DOMAIN d : j > k => j - 1 \in 1..Len(c) /\ d[j] = c[j-1]
    <3> SUFFICES ASSUME NEW j \in DOMAIN d, j > k
                 PROVE  j - 1 \in 1..Len(c) /\ d[j] = c[j-1]
      OBVIOUS
    <3>1. j - 1 \in 1..Len(c) /\ j - 1 >= k /\ (j - 1) + 1 = j
      BY <2>4, <2>6
    <3> QED
      BY <2>6, <3>1
  <2>8. \A j \in 1..Len(c) : j >= k => c[j].left > e.left
    BY <1>0, <2>4 DEF Sorted
  <2>9. Sorted(d)
    <3> SUFFICES ASSUME NEW i \in DOMAIN d, NEW j \in DOMAIN d, i < j
                 PROVE  d[i].left <= d[j].left
      BY DEF Sorted
    <3>0. i \in 1..(Len(c) + 1) /\ j \in 1..(Len(c) + 1)
      BY <2>6
    <3>1. CASE j < k
      <4>1. i \in 1..Len(c) /\ j \in 1..Len(c) /\ d[i] = c[i] /\ d[j] = c[j]
        BY <2>4, <2>6, <3>0, <3>1
      <4> QED
        BY <4>1 DEF Sorted
    <3>2. CASE j = k
      BY <2>4, <2>6, <3>0, <3>2
    <3>3. CASE j > k
      <4>1. j - 1 \in 1..Len(c) /\ d[j] = c[j-1] /\ j - 1 >= k
        BY <2>4, <2>7, <3>0, <3>3
      <4>2. d[j].left > e.left
        BY <2>8, <4>1
      <4>3. CASE i < k
        <5>1. d[i].left <= e.left /\ d[i].left \in Nat
          BY <1>0, <2>4, <2>6, <3>0, <4>3
        <5> QED
          BY <1>0, <4>1, <4>2, <5>1
      <4>4. CASE i = k
        BY <1>0, <2>6, <4>1, <4>2, <4>4
      <4>5. CASE i > k
        <5>1. i - 1 \in 1..Len(c) /\ d[i] = c[i-1] /\ i - 1 < j - 1
          BY <2>4, <2>7, <3>0, <4>5
        <5> QED
          BY <4>1, <5>1 DEF Sorted
      <4> QED
        BY <2>4, <3>0, <4>3, <4>4, <4>5
    <3> QED
      BY <2>4, <3>0, <3>1, <3>2, <3>3
  <2> QED
    BY <2>5, <2>6, <2>9
<1> QED
  BY <1>1, <1>2

\* What is left of a chain keeps its order.
LEMMA CancelSorted ==
    ASSUME NEW c \in Seq(Event), Sorted(c), NEW e
    PROVE  Cancel(c, e) \in Seq(Event) /\ Sorted(Cancel(c, e))
<1>1. CASE Matches(c, e) = {}
  BY <1>1 DEF Cancel
<1>2. CASE Matches(c, e) # {}
  <2>1. PICK k : k = Min(Matches(c, e))
    OBVIOUS
  <2>2. PICK p, q : p = SubSeq(c, 1, k-1) /\ q = SubSeq(c, k+1, Len(c))
    OBVIOUS
  <2>3. k \in 1..Len(c)
    <3>1. Matches(c, e) \in SUBSET Nat /\ Matches(c, e) \subseteq 1..Len(c)
      BY DEF Matches
    <3> QED
      BY <1>2, <2>1, <3>1, MinIsLeast
  <2>4. Cancel(c, e) = p \o q
    BY <1>2, <2>1, <2>2 DEF Cancel, RemoveAt
  <2>5. p \in Seq(Event) /\ Len(p) = k - 1 /\ \A i \in 1..(k-1) : p[i] = c[i]
    BY <2>2, <2>3
  <2>6. /\ q \in Seq(Event) /\ Len(q) = Len(c) - k
        /\ \A i \in 1..(Len(c) - k) : q[i] = c[k + i]
    BY <2>2, <2>3
  <2>7. /\ p \o q \in Seq(Event) /\ Len(p \o q) = Len(c) - 1
        /\ DOMAIN (p \o q) = 1..(Len(c) - 1)
        /\ \A i \in 1..(Len(c) - 1) :
             (p \o q)[i] = IF i < k THEN p[i] ELSE q[i - (k - 1)]
    <3>1. p \in Seq(Event) /\ q \in Seq(Event) /\ Len(p) + Len(q) = Len(c) - 1
      BY <2>3, <2>5, <2>6
    <3>2. p \o q \in Seq(Event) /\ Len(p \o q) = Len(p) + Len(q)
      BY <3>1
    <3>3. \A i \in 1..(Len(p) + Len(q)) :
            (p \o q)[i] = IF i <= Len(p) THEN p[i] ELSE q[i - Len(p)]
      BY <3>1
    <3> QED
      BY <2>3, <2>5, <3>1, <3>2, <3>3
  \* Where the link at i comes from.
  <2>8. \A i \in DOMAIN (p \o q) :
          (p \o q)[i] = c[IF i < k THEN i ELSE i + 1]
    <3> SUFFICES ASSUME NEW i \in 1..(Len(c) - 1)
                 PROVE  (p \o q)[i] = c[IF i < k THEN i ELSE i + 1]
      BY <2>7
    <3>1. CASE i < k
      BY <2>3, <2>5, <2>7, <3>1
    <3>2. CASE ~(i < k)
      <4>1. i - (k - 1) \in 1..(Len(c) - k) /\ k + (i - (k - 1)) = i + 1
        BY <2>3, <3>2
      <4>2. q[i - (k - 1)] = c[i + 1]
        BY <2>6, <4>1
      <4> QED
        BY <2>7, <3>2, <4>2
    <3> QED
      BY <3>1, <3>2
  <2>9. Sorted(p \o q)
    <3> SUFFICES ASSUME NEW i \in DOMAIN (p \o q), NEW j \in DOMAIN (p \o q), i < j
                 PROVE  (p \o q)[i].left <= (p \o q)[j].left
      BY DEF Sorted
    <3>1. PICK a, b : /\ a = (IF i < k THEN i ELSE i + 1)
                      /\ b = (IF j < k THEN j ELSE j + 1)
      OBVIOUS
    <3>2. a \in 1..Len(c) /\ b \in 1..Len(c) /\ a < b
      BY <2>3, <2>7, <3>1
    <3>3. (p \o q)[i] = c[a] /\ (p \o q)[j] = c[b]
      BY <2>8, <3>1
    <3> QED
      BY <3>2, <3>3 DEF Sorted
  <2> QED
    BY <2>4, <2>7, <2>9
<1> QED
  BY <1>1, <1>2

\* Time passes for all links alike.
LEMMA ElapseSorted ==
    ASSUME NEW c \in Seq(Event), Sorted(c)
    PROVE  Elapse(c) \in Seq(Event) /\ Sorted(Elapse(c))
<1> DEFINE less(n) == IF n = 0 THEN 0 ELSE n - 1
<1>1. \A r \in Event, n \in Nat :
        [r EXCEPT !.left = n] \in Event /\ [r EXCEPT !.left = n].left = n
  BY DEF Event, EventSet
<1>2. Elapse(c) = [i \in 1..Len(c) |-> [c[i] EXCEPT !.left = less(c[i].left)]]
  BY DEF Elapse
<1>3. \A i \in 1..Len(c) : c[i] \in Event
  OBVIOUS
<1>4. \A i \in 1..Len(c) : c[i].left \in Nat
  BY <1>3 DEF Event, EventSet
<1>5. \A n \in Nat : less(n) \in Nat
  OBVIOUS
<1>6. \A m, n \in Nat : m <= n => less(m) <= less(n)
  OBVIOUS
<1> HIDE DEF less
<1>7. \A i \in 1..Len(c) :
        Elapse(c)[i] \in Event /\ Elapse(c)[i].left = less(c[i].left)
  <2> TAKE i \in 1..Len(c)
  <2>1. Elapse(c)[i] = [c[i] EXCEPT !.left = less(c[i].left)]
    BY <1>2
  <2>2. c[i] \in Event /\ less(c[i].left) \in Nat
    BY <1>3, <1>4, <1>5
  <2> QED
    BY <1>1, <2>1, <2>2
<1>8. Elapse(c) \in [1..Len(c) -> Event]
  BY <1>2, <1>7
<1>9. Elapse(c) \in Seq(Event) /\ DOMAIN Elapse(c) = 1..Len(c)
  BY <1>8
<1>10. Sorted(Elapse(c))
  BY <1>4, <1>6, <1>7, <1>9 DEF Sorted
<1> QED
  BY <1>9, <1>10

-----------------------------------------------------------------------------
(***************************************************************************)
(* The theorems.                                                           *)
(***************************************************************************)
Links == chain \in Seq(Event)

LEMMA NewEventTyped ==
    ASSUME NEW q \in Queues, NEW m \in MsgIds, NEW t \in Times
    PROVE  NewEvent(q, m, t) \in Event /\ NewEvent(q, m, t).left = NewEvent(q, m, t).sched
BY EventChainAssumption DEF NewEvent, Event, EventSet

LEMMA InvAlways == Spec => [](Links /\ ChainSorted)
<1>1. Init => Links /\ ChainSorted
  BY DEF Init, Links, ChainSorted, Sorted
<1>2. Links /\ ChainSorted /\ [Next]_vars => (Links /\ ChainSorted)'
  <2> SUFFICES ASSUME Links, ChainSorted, [Next]_vars
               PROVE  Links' /\ ChainSorted'
    OBVIOUS
  <2>1. ASSUME NEW q \in Queues, NEW m \in MsgIds, NEW t \in Times,
               ScheduleEvent(NewEvent(q, m, t))
        PROVE  Links' /\ ChainSorted'
    BY <2>1, NewEventTyped, ScheduleSorted DEF ScheduleEvent, Links, ChainSorted
  <2>2. ASSUME NEW e, CancelEvent(e)
        PROVE  Links' /\ ChainSorted'
    BY <2>2, CancelSorted DEF CancelEvent, Links, ChainSorted
  <2>3. CASE Fire
    BY <2>3, CancelSorted DEF Fire, Links, ChainSorted
  <2>4. CASE Tick
    BY <2>4, ElapseSorted DEF Tick, Links, ChainSorted
  <2>5. CASE UNCHANGED vars
    BY <2>5 DEF vars, Links, ChainSorted
  <2> QED
    BY <2>1, <2>2, <2>3, <2>4, <2>5 DEF Next
<1> QED
  BY <1>1, <1>2, PTL DEF Spec

\* No link runs out before the head, however many there are.
THEOREM ChainSortedAlways == Spec => []ChainSorted
BY InvAlways, PTL

\* The link that goes when the head fires is the head.
THEOREM FiredLeavesAlways == Spec => FiredLeaves
<1>1. ASSUME Links, Fire PROVE chain' = Tail(chain)
  <2>1. chain \in Seq(Event) /\ chain # << >>
    BY <1>1 DEF Links, Fire
  <2>2. PICK e : e = Head(chain)
    OBVIOUS
  <2>3. 1 \in Matches(chain, e) /\ Matches(chain, e) \in SUBSET Nat
    BY <2>1, <2>2 DEF Matches, SameEvent
  <2>4. \A i \in Matches(chain, e) : 1 <= i
    BY <2>1 DEF Matches
  <2>5. Min(Matches(chain, e)) = 1
    BY <2>3, <2>4, MinIsLeast
  <2>6. Matches(chain, e) # {}
    BY <2>3
  <2>7. Cancel(chain, e) = SubSeq(chain, 1, 0) \o SubSeq(chain, 2, Len(chain))
    BY <2>5, <2>6 DEF Cancel, RemoveAt
  <2>8. SubSeq(chain, 1, 0) \o SubSeq(chain, 2, Len(chain)) = Tail(chain)
    BY <2>1
  <2> QED
    BY <1>1, <2>2, <2>7, <2>8 DEF Fire
<1>2. Links => [Fire => chain' = Tail(chain)]_vars
  BY <1>1
<1> QED
  BY <1>2, InvAlways, PTL DEF FiredLeaves

===============================================================================
