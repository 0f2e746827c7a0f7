---------------------------- MODULE MCReplication ----------------------------
(***************************************************************************)
(* Replication for TLC: teams and addresses.                               *)
(***************************************************************************)
EXTENDS Replication

\* Teams at the start.
TeamAB == <<"A", "B">>
TeamABC == <<"A", "B", "C">>

\* A queue that everybody has; nothing yet.
OneQueue == <<CreateOp("q")>>
Nothing == << >>

\* Every node has a machine and a port of its own.
HostOf == [n \in Nodes |-> n]
PortOf == [n \in Nodes |->
    CASE n = "A" -> 1301 [] n = "B" -> 1302 [] OTHER -> 1303]
=============================================================================
