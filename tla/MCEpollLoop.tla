---------------------------- MODULE MCEpollLoop ----------------------------
(***************************************************************************)
(* Instances of EpollLoop for TLC.                                         *)
(***************************************************************************)
EXTENDS EpollLoop
=============================================================================
