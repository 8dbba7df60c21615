------------------------ MODULE MCBroadcastManager ------------------------
(***************************************************************************)
(* Instances of BroadcastManager for TLC: some addresses are on an         *)
(* interface, the others in no subnet of ours.                             *)
(***************************************************************************)
EXTENDS BroadcastManager

CONSTANT Local    \* the addresses that are on an interface

MCIfOf == [a \in Addrs |-> IF a \in Local THEN CHOOSE i \in Ifs : TRUE ELSE None]
=============================================================================
