---------------------------- MODULE MessageLease -----------------------------
(***************************************************************************)
(* What MsgLock promises its caller: a message is locked by one reader at  *)
(* a time, for a lease of Timeout seconds.  A lock ends when its lease has *)
(* run out or when somebody who may releases it, and for no other reason.  *)
(***************************************************************************)
EXTENDS Naturals

CONSTANTS Message, Timeout, Releasable

VARIABLES
    held,       \* the locked messages
    lease       \* seconds until the lock may expire
vars == <<held, lease>>

Init == held = {} /\ lease = [m \in Message |-> 0]

Acquire(m) ==
    /\ m \notin held
    /\ held' = held \cup {m}
    /\ lease' = [lease EXCEPT ![m] = Timeout]

Expire(m) ==
    /\ m \in held
    /\ lease[m] = 0
    /\ held' = held \ {m}
    /\ UNCHANGED lease

Release(m) ==
    /\ m \in held \cap Releasable
    /\ held' = held \ {m}
    /\ UNCHANGED lease

Tick ==
    /\ lease' = [m \in Message |-> IF lease[m] = 0 THEN 0 ELSE lease[m] - 1]
    /\ UNCHANGED held

Next ==
    \/ \E m \in Message : Acquire(m) \/ Expire(m) \/ Release(m)
    \/ Tick

Spec == Init /\ [][Next]_vars

=============================================================================
