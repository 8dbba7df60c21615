----------------------------- MODULE MCAsyncFd -----------------------------
(***************************************************************************)
(* Instances of AsyncFd for TLC: two nodes that have dialled each other.   *)
(* Both may send a message on the socket they accepted, whose stream holds *)
(* less than a length, and a sends two on the one it dialled.              *)
(***************************************************************************)
EXTENDS AsyncFd

CONSTANTS a, b

MCDialled == {<<a, b>>, <<b, a>>}
MCPlan ==
    [s \in Streams |-> IF s = <<a, b, a>> THEN <<{2}, {1}>>
                       ELSE IF NonBlocking(s) THEN <<>> ELSE <<{1}>>]
MCCapacity == [s \in Streams |-> IF NonBlocking(s) THEN 2 ELSE 1]
=============================================================================
