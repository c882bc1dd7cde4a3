--------------------------- MODULE MCPhyPipeline ---------------------------
(* PhyPipeline for TLC: the sizes of the instances. *)
EXTENDS PhyPipeline
=============================================================================
