------------------------------ MODULE MCMsgLock ------------------------------
(***************************************************************************)
(* MsgLock for TLC, and the abstraction it is checked against.             *)
(***************************************************************************)
EXTENDS MsgLock

\* Values of Gettable and Deletable.
Nothing == {}
AllMessages == Queues \X MsgIds

\* The first queue has two messages, the second one, with an equal id.
ThreeMessages == AllMessages \ {<<2, 2>>}

Lease == INSTANCE MessageLease
    WITH Releasable <- Deletable, held <- mDatas

\* What the caller of MsgLock may rely on: exclusive leases that end in time.
ImplementsLease == Lease!Spec
=============================================================================
