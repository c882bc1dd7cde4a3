------------------------------ MODULE RtAgent ------------------------------
(***************************************************************************)
(* The RT agent inside the eNB: the static state of class edgeric          *)
(* (srsenb/rtagent/edgeric.cpp) and the hooks of the MAC that drive it     *)
(* once per TTI (get_dl_sched and ric_comm in srsenb/src/stack/mac/mac.cc).*)
(*                                                                         *)
(* get_dl_sched() first reads one policy without blocking and then, for    *)
(* each carrier, schedules with the weights and publishes a report. Other  *)
(* threads run between those calls, so they are separate actions, ordered  *)
(* by nextCc. This module owns the agent's variables; the sockets belong   *)
(* to RtE2Loop, which supplies the message that is read and takes the      *)
(* report that is published.                                               *)
(***************************************************************************)
EXTENDS RtE2Messages

CONSTANTS
  NofCarriers,   \* cell_config.size()
  MaxTti         \* bound on tti_cnt; TtiMod lifts it (the counter then wraps)

ASSUME NofCarriersAssumption == NofCarriers \in Nat \ {0}
ASSUME MaxTtiAssumption == MaxTti \in 0 .. TtiMod

VARIABLES
  started,    \* mac::started
  nextCc,     \* 0: between two calls of get_dl_sched; c: carrier c is next
  ttiCnt,     \* edgeric::tti_cnt, the copy of the MAC's tti_ran_index
  erIndex,    \* er_index: ran_index of the last policy read
  staleFlag,  \* stale_flag
  weights,    \* edgeric::weights_recved: position -> TTI of the report
              \*   the weight at that position was computed from
  nofCqiUes   \* number of keys of cqi_dl_ues, the UEs a report lists

agentVars == <<started, nextCc, ttiCnt, erIndex, staleFlag, weights, nofCqiUes>>

NoWeights == [i \in {} |-> 0]

AgentTypeOK ==
  /\ started \in BOOLEAN
  /\ nextCc \in 0 .. NofCarriers
  /\ ttiCnt \in Tti
  /\ erIndex \in Tti
  /\ staleFlag \in {0, 1}
  /\ DOMAIN weights \subseteq 0 .. 2 * MaxUes - 1
  /\ weights \in [DOMAIN weights -> Tti]
  /\ nofCqiUes \in 0 .. MaxUes

AgentInit ==
  /\ started = TRUE
  /\ nextCc = 0
  /\ ttiCnt = 0
  /\ erIndex = 0
  /\ staleFlag = 0
  /\ weights = NoWeights
  /\ nofCqiUes = 0

-----------------------------------------------------------------------------
(* receive_from_er_protobuf, called first in get_dl_sched                  *)

\* get_dl_sched may be entered; the bound stops a running eNB, never a
\* stopped one.
CanEnterTti ==
  /\ nextCc = 0
  /\ started => ttiCnt < MaxTti

\* After the read, get_dl_sched goes on to the carriers, or returns at once
\* when the MAC is stopped.
EnterTti ==
  /\ CanEnterTti
  /\ nextCc' = IF started THEN 1 ELSE 0
  /\ UNCHANGED <<started, ttiCnt, nofCqiUes>>

\* Mutations of the window: no test at all, and the test of the text variant
\* of the agent (receive_from_er), which accepts the previous TTI only.
WithoutWindow(p) == TRUE
TextWindow(p) == p.ran = PrevTti(ttiCnt)

InWindow(p) == p.ran = PrevTti(ttiCnt) \/ p.ran = ttiCnt

\* weights_recved[i] = msg.weights(i): positions beyond the message keep what
\* they hold.
Overlay(p) ==
  [i \in DOMAIN weights \cup 0 .. p.size - 1 |->
     IF i < p.size THEN p.ran ELSE weights[i]]

\* Mutations of the empty read: the weights are kept, or er_index is cleared
\* along with them.
ReceiveNothingKeeping ==
  /\ EnterTti
  /\ staleFlag' = 0
  /\ UNCHANGED <<weights, erIndex>>

ReceiveNothingResetting ==
  /\ EnterTti
  /\ staleFlag' = 0
  /\ weights' = NoWeights
  /\ erIndex' = 0

ReceiveNothing ==
  /\ EnterTti
  /\ staleFlag' = 0
  /\ weights' = NoWeights
  /\ UNCHANGED erIndex

ReceivePolicy(p) ==
  /\ EnterTti
  /\ erIndex' = p.ran
  /\ \/ /\ InWindow(p)
        /\ staleFlag' = 0
        /\ weights' = Overlay(p)
     \/ /\ ~ InWindow(p)
        /\ staleFlag' = 1
        /\ UNCHANGED weights

-----------------------------------------------------------------------------
(* ric_comm and the other entry points                                     *)

\* Mutation: the report is sent before setTTI.
ReportEarly == [tti |-> ttiCnt, ric |-> erIndex, ues |-> nofCqiUes]

\* The report ric_comm publishes, once it has advanced the counter.
ReportNow == [tti |-> NextTti(ttiCnt), ric |-> erIndex, ues |-> nofCqiUes]

RicComm ==
  /\ nextCc > 0
  /\ ttiCnt' = NextTti(ttiCnt)
  /\ nextCc' = IF nextCc = NofCarriers THEN 0 ELSE nextCc + 1
  /\ UNCHANGED <<started, erIndex, staleFlag, weights, nofCqiUes>>

\* Mutation: ue_rem clears the UE's metrics.
CqiOrRemoval ==
  /\ started
  /\ nofCqiUes' \in {nofCqiUes - 1, nofCqiUes + 1} \cap 0 .. MaxUes
  /\ UNCHANGED <<started, nextCc, ttiCnt, erIndex, staleFlag, weights>>

\* The first CQI of a UE adds its key to cqi_dl_ues. No code removes a key.
FirstCqi ==
  /\ started
  /\ nofCqiUes < MaxUes
  /\ nofCqiUes' = nofCqiUes + 1
  /\ UNCHANGED <<started, nextCc, ttiCnt, erIndex, staleFlag, weights>>

\* stop() takes the write lock, so no get_dl_sched is past its read lock; one
\* that has tested "started" and is about to take it (nextCc = 1) runs on.
Stop ==
  /\ started
  /\ nextCc \in {0, 1}
  /\ started' = FALSE
  /\ UNCHANGED <<nextCc, ttiCnt, erIndex, staleFlag, weights, nofCqiUes>>
=============================================================================
