---------------------------- MODULE MCExperiment ----------------------------
(***************************************************************************)
(* Instances of Experiment for TLC: three nodes, a link that goes and      *)
(* comes back, one that is added and goes, and one that only has a shape.  *)
(***************************************************************************)
EXTENDS Experiment

MCInitEdges == {<<1, 2>>}
MCCustom == {<<2, 3>>}
MCMods ==
    << [add |-> {<<1, 3>>}, erase |-> {<<1, 2>>}],
       [add |-> {<<1, 2>>}, erase |-> {<<1, 3>>}] >>
=============================================================================
