---------------------------- MODULE MCRbgAlloc ----------------------------
(***************************************************************************)
(* RbgAlloc on small instances. RNTIs are spread so that the order of the  *)
(* database (by slot) is not the order of the RNTIs, as for 127 and 128.   *)
(***************************************************************************)
EXTENDS RbgAlloc

TwoRntis == {7, 8}
=============================================================================
