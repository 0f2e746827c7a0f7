----------------------------- MODULE MCDelivery ------------------------------
(***************************************************************************)
(* Delivery for TLC: addresses of the nodes, and clients that are alike.   *)
(***************************************************************************)
EXTENDS Delivery, TLC

\* Every node has a machine and a port of its own.
HostOf == [n \in Nodes |-> n]
PortOf == [n \in Nodes |-> IF n = "A" THEN 1301 ELSE 1302]

\* Sound because nothing but safety is checked.
AnyClient == Permutations(Clients)
=============================================================================
