------------------------------ MODULE LockTable ------------------------------
(***************************************************************************)
(* MsgLock::mDatas, the multimap from queue name to locked message ids, as *)
(* a set of <<queue, id>> pairs.  Insert is only called after IsExist has  *)
(* failed, so the multimap never holds a pair twice.                       *)
(*                                                                         *)
(* IsExist and Del start at mDatas.find(queue) and run on to mDatas.end(): *)
(* they do not stop where the entries of the queue end.  A multimap is     *)
(* ordered by key, so what they can meet there are the queues that come    *)
(* later in the order of names.  Queue names are therefore numbers here,   *)
(* in that order.                                                          *)
(***************************************************************************)
EXTENDS Naturals, FiniteSetsExt

\* mDatas.find(q) # mDatas.end(): the queue has a locked message.
Found(locked, q) == \E k \in locked : k[1] = q

\* What the loop from find(q) to end() visits that has the id looked for.
Reached(locked, q, m) ==
    {k \in locked : Found(locked, q) /\ k[1] >= q /\ k[2] = m}

\* MsgLock::IsExist.
IsExist(locked, q, m) == Reached(locked, q, m) # {}

\* MsgLock::Del: the entry it erases is the first the loop reaches.
Erased(locked, q, m) ==
    {k \in Reached(locked, q, m) :
        \A l \in Reached(locked, q, m) : k[1] <= l[1]}

\* Mutant: the loop does not return after the first entry it erases.
DelEvery(locked, q, m) == locked \ Reached(locked, q, m)

Del(locked, q, m) == locked \ Erased(locked, q, m)

=============================================================================
