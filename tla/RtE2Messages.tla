--------------------------- MODULE RtE2Messages ---------------------------
(***************************************************************************)
(* The two messages of the RT-E2 interface (edgeric/metrics.proto and      *)
(* edgeric/control_actions.proto) and the arithmetic of the TTI counter    *)
(* they carry.                                                             *)
(*                                                                         *)
(* A report lists one UeMetrics per UE and a policy carries a flat list of *)
(* floats. What the loop does with them depends on the TTI indices and on  *)
(* the length of the lists only, so a message keeps the indices and the    *)
(* length. The contents of the lists are the subject of RbgAlloc.          *)
(***************************************************************************)
EXTENDS Integers

CONSTANTS
  TtiMod,    \* tti_cnt is a uint32_t: 2^32 in the code
  MaxUes     \* bound on the UEs that ever report a CQI

ASSUME TtiModAssumption == TtiMod \in Nat /\ TtiMod >= 4
ASSUME MaxUesAssumption == MaxUes \in Nat

Tti == 0 .. TtiMod - 1

NextTti(t) == IF t + 1 = TtiMod THEN 0 ELSE t + 1
PrevTti(t) == IF t = 0 THEN TtiMod - 1 ELSE t - 1

\* message Metrics { tti_cnt; ue_metrics; ric_cnt }
Report == [tti : Tti, ric : Tti, ues : 0 .. MaxUes]

\* message SchedulingWeights { ran_index; weights }
Policy == [ran : Tti, size : 0 .. 2 * MaxUes]

NoReport == [tti |-> 0, ric |-> 0, ues |-> -1]   \* an empty conflated socket
=============================================================================
