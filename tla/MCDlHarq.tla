----------------------------- MODULE MCDlHarq -----------------------------
(* DlHarq for TLC: which processes may have their DCIs missed. *)
EXTENDS DlHarq

OneAtMost == {{}} \cup {{p} : p \in Pid}
None == {{}}
=============================================================================
