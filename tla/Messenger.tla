----------------------------- MODULE Messenger -----------------------------
(***************************************************************************)
(* A scheduling muApp: the globals of edgeric/edgeric_messenger.py and the *)
(* loop of muApp1_run_DL_scheduling.py that calls it. One turn of the loop *)
(* waits for a report (get_metrics_multi), computes the weights and sends  *)
(* them (send_scheduling_weight). The process may die and be started again *)
(* at any point; RtE2Loop says what that does to the sockets.              *)
(***************************************************************************)
EXTENDS RtE2Messages

VARIABLES
  pc,         \* "down": no process; "recv": blocked in recv; "send": computing
  ranIndex,   \* ran_index
  numUes,     \* len(ue_dict)
  verdict     \* which of the counters "correct", "incorrect" went up last

messengerVars == <<pc, ranIndex, numUes, verdict>>

MessengerTypeOK ==
  /\ pc \in {"down", "recv", "send"}
  /\ ranIndex \in Tti
  /\ numUes \in 0 .. MaxUes
  /\ verdict \in {"none", "correct", "incorrect"}

MessengerInit ==
  /\ pc = "down"
  /\ ranIndex = 0
  /\ numUes = 0
  /\ verdict = "none"

\* Python integers do not wrap: the difference is the plain one.
InStep(ran, ric) == ran - ric \in {1, 2}

GetMetrics(r) ==
  /\ pc = "recv"
  /\ pc' = "send"
  /\ ranIndex' = r.tti
  /\ numUes' = r.ues
  /\ verdict' = IF InStep(r.tti, r.ric) THEN "correct" ELSE "incorrect"

\* Every algorithm allocates np.zeros(numues * 2).
PolicyNow == [ran |-> ranIndex, size |-> 2 * numUes]

SendWeights ==
  /\ pc = "send"
  /\ pc' = "recv"
  /\ UNCHANGED <<ranIndex, numUes, verdict>>

\* With no UE, min([]) and rr_cnt % 0 raise; Proportional Fair and the RL
\* model are built for exactly two UEs. The main loop catches the exception
\* and starts over: this report is not answered.
AlgorithmRaises ==
  /\ pc = "send"
  /\ numUes # 2
  /\ pc' = "recv"
  /\ UNCHANGED <<ranIndex, numUes, verdict>>

\* The process dies; its globals are lost.
Die ==
  /\ pc # "down"
  /\ pc' = "down"
  /\ ranIndex' = 0
  /\ numUes' = 0
  /\ verdict' = "none"

StartUp ==
  /\ pc = "down"
  /\ pc' = "recv"
  /\ UNCHANGED <<ranIndex, numUes, verdict>>
=============================================================================
