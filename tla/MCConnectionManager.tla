------------------------ MODULE MCConnectionManager ------------------------
(***************************************************************************)
(* Instances of ConnectionManager for TLC.                                 *)
(***************************************************************************)
EXTENDS ConnectionManager, TLC

(* Descriptor numbers and nodes are interchangeable.                       *)
MCSymmetry == Permutations(Fds) \cup Permutations(Peers)
=============================================================================
