----------------------------- MODULE MCRtE2Loop -----------------------------
(* RtE2Loop for TLC: the sizes of the instances. *)
EXTENDS RtE2Loop
=============================================================================
