------------------------- MODULE MCExperimentStats -------------------------
(***************************************************************************)
(* Instances of ExperimentStats for TLC.                                   *)
(***************************************************************************)
EXTENDS ExperimentStats, TLC

(* The numbers of the nodes are interchangeable.                           *)
MCSymmetry == Permutations(Vertices)
=============================================================================
