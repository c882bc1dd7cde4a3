------------------------------ MODULE RtE2Loop ------------------------------
(***************************************************************************)
(* The RT-E2 control loop: the RT agent of the eNB and a scheduling muApp, *)
(* joined by two ZeroMQ PUB/SUB connections.                               *)
(*                                                                         *)
(*   report   eNB -> muApp, a SUB socket that edgeric_messenger.py sets to *)
(*            CONFLATE before it connects: one slot, the latest report.    *)
(*   wire     muApp -> eNB, policies sent and not yet delivered.           *)
(*   inbox    policies delivered to the agent's SUB socket and not read.   *)
(*                                                                         *)
(* edgeric::init() connects the policy socket first and sets CONFLATE      *)
(* afterwards; ZeroMQ applies that option to later connections only, so    *)
(* the inbox is a FIFO queue.                                              *)
(***************************************************************************)
EXTENDS RtAgent, Messenger, Sequences

CONSTANTS
  InboxDepth,       \* receive high-water mark of that socket (1000)
  WireDepth,        \* send high-water mark of the muApp's socket (1000)
  MaxCrashes        \* bound on the deaths of the muApp

ASSUME LoopAssumption ==
  /\ InboxDepth \in Nat \ {0}
  /\ WireDepth \in Nat \ {0}
  /\ MaxCrashes \in Nat

VARIABLES
  report,    \* the report the muApp's socket holds, or NoReport
  wire,
  inbox,
  linked,    \* is the agent's socket connected to this muApp process?
  crashes    \* deaths of the muApp so far

netVars == <<report, wire, inbox, linked, crashes>>
vars == <<agentVars, messengerVars, netVars>>

TypeOK ==
  /\ AgentTypeOK
  /\ MessengerTypeOK
  /\ report \in Report \cup {NoReport}
  /\ wire \in Seq(Policy)
  /\ Len(wire) <= WireDepth
  /\ inbox \in Seq(Policy)
  /\ Len(inbox) <= InboxDepth
  /\ linked \in BOOLEAN
  /\ crashes \in 0 .. MaxCrashes

Init ==
  /\ AgentInit
  /\ MessengerInit
  /\ report = NoReport
  /\ wire = << >>
  /\ inbox = << >>
  /\ linked = FALSE
  /\ crashes = 0

-----------------------------------------------------------------------------
(* The eNB                                                                 *)

TtiWithoutPolicy ==
  /\ inbox = << >>
  /\ ReceiveNothing
  /\ UNCHANGED <<messengerVars, netVars>>

TtiWithPolicy ==
  /\ inbox # << >>
  /\ ReceivePolicy(Head(inbox))
  /\ inbox' = Tail(inbox)
  /\ UNCHANGED <<messengerVars, report, wire, linked, crashes>>

\* A report published while no muApp is subscribed is lost; otherwise it
\* replaces the one the muApp has not read yet.
PublishReport ==
  /\ RicComm
  /\ report' = IF pc = "down" THEN NoReport ELSE ReportNow
  /\ UNCHANGED <<messengerVars, wire, inbox, linked, crashes>>

CqiInfo == FirstCqi /\ UNCHANGED <<messengerVars, netVars>>

StopMac == Stop /\ UNCHANGED <<messengerVars, netVars>>

-----------------------------------------------------------------------------
(* The muApp                                                               *)

ReadReport ==
  /\ report # NoReport
  /\ GetMetrics(report)
  /\ report' = NoReport
  /\ UNCHANGED <<agentVars, wire, inbox, linked, crashes>>

\* Mutation: the send high-water mark is ignored.
SendUnbounded ==
  /\ SendWeights
  /\ wire' = IF linked THEN Append(wire, PolicyNow) ELSE wire
  /\ UNCHANGED <<agentVars, report, inbox, linked, crashes>>

\* PUB drops what it cannot queue: no subscriber yet, or high-water mark.
SendPolicy ==
  /\ SendWeights
  /\ wire' = IF linked /\ Len(wire) < WireDepth
             THEN Append(wire, PolicyNow) ELSE wire
  /\ UNCHANGED <<agentVars, report, inbox, linked, crashes>>

SkipReport == AlgorithmRaises /\ UNCHANGED <<agentVars, netVars>>

\* What the process had not yet delivered dies with its sockets.
CrashMuApp ==
  /\ crashes < MaxCrashes
  /\ Die
  /\ crashes' = crashes + 1
  /\ report' = NoReport
  /\ wire' = << >>
  /\ linked' = FALSE
  /\ UNCHANGED <<agentVars, inbox>>

StartMuApp == StartUp /\ UNCHANGED <<agentVars, netVars>>

-----------------------------------------------------------------------------
(* ZeroMQ                                                                  *)

\* The agent's socket (re)connects to the endpoint the muApp has bound.
Link ==
  /\ pc # "down"
  /\ ~ linked
  /\ linked' = TRUE
  /\ UNCHANGED <<agentVars, messengerVars, report, wire, inbox, crashes>>

\* Mutation: the receive high-water mark is ignored.
DeliverUnbounded ==
  /\ wire # << >>
  /\ inbox' = Append(inbox, Head(wire))
  /\ wire' = Tail(wire)
  /\ UNCHANGED <<agentVars, messengerVars, report, linked, crashes>>

Deliver ==
  /\ wire # << >>
  /\ Len(inbox) < InboxDepth
  /\ inbox' = Append(inbox, Head(wire))
  /\ wire' = Tail(wire)
  /\ UNCHANGED <<agentVars, messengerVars, report, linked, crashes>>

-----------------------------------------------------------------------------
EnbTti == TtiWithoutPolicy \/ TtiWithPolicy \/ PublishReport

Next ==
  \/ TtiWithoutPolicy
  \/ TtiWithPolicy
  \/ PublishReport
  \/ CqiInfo
  \/ StopMac
  \/ ReadReport
  \/ SendPolicy
  \/ SkipReport
  \/ CrashMuApp
  \/ StartMuApp
  \/ Link
  \/ Deliver

Spec == Init /\ [][Next]_vars

\* The PHY workers call get_dl_sched every subframe and ZeroMQ's I/O threads
\* keep moving messages. Nothing is assumed of the muApp.
Fairness == WF_vars(EnbTti) /\ WF_vars(Deliver)

FairSpec == Spec /\ Fairness

-----------------------------------------------------------------------------
(* Properties                                                              *)

\* The policies on their way to the agent, the next one to be read first.
Pending == inbox \o wire

\* Index numbers respect causality along the whole loop: what the agent has
\* read is older than everything queued, the queue is in strictly increasing
\* order, the report being answered or waiting is newer still, and nothing is
\* from the future. The acceptance window of receive_from_er_protobuf and the
\* counters of get_metrics_multi both compare such numbers across processes.
PoliciesInOrder ==
  /\ erIndex <= ttiCnt
  /\ \A i \in 1 .. Len(Pending) :
        /\ erIndex < Pending[i].ran
        /\ Pending[i].ran <= ttiCnt
        /\ \A j \in 1 .. i - 1 : Pending[j].ran < Pending[i].ran
        /\ pc = "send" => Pending[i].ran < ranIndex
        /\ report # NoReport => Pending[i].ran < report.tti
  /\ pc = "send" => erIndex < ranIndex /\ ranIndex <= ttiCnt
  /\ report # NoReport => erIndex < report.tti /\ report.tti <= ttiCnt
  /\ report # NoReport /\ pc = "send" => ranIndex < report.tti

\* receive_from_er_protobuf overlays a message on the weights it holds without
\* clearing them, so a message shorter than the last would leave a mix of two
\* policies. It never does: messages only grow, because the agent's CQI map
\* only grows and the queue keeps its order.
SinglePolicy == \A i, j \in DOMAIN weights : weights[i] = weights[j]

\* Reports published since the last policy was read or found missing.
Published == IF nextCc = 0 THEN NofCarriers ELSE nextCc - 1

\* Old weights survive only under stale_flag: without it, the weights in use
\* come from one of the last two reports before this TTI.
OldOnlyIfStale ==
  staleFlag = 0 =>
    \A i \in DOMAIN weights : weights[i] + 1 + Published >= ttiCnt

\* The two sides agree on lateness: while weights are in use, the first report
\* of a TTI shows the muApp of a running eNB a gap of one or two exactly when
\* the agent found its last policy in the window.
VerdictAgrees ==
  ( /\ started
    /\ weights # NoWeights
    /\ report # NoReport
    /\ report.tti = ttiCnt
    /\ Published = 1 )
    => (InStep(report.tti, report.ric) <=> staleFlag = 0)

\* ric_cnt never goes back: a policy is never followed by an older one.
RicCntAdvances == [][erIndex' >= erIndex]_erIndex

\* A muApp that has died for good leaves the scheduler on its default weights,
\* whatever was still queued for it.
FallsBackToDefaults == <>[](pc = "down") => <>[](weights = NoWeights)

AppliedPolicy == IF weights = NoWeights THEN -1 ELSE weights[0]

Feed == INSTANCE PolicyFeed
          WITH now <- ttiCnt, newest <- erIndex, applied <- AppliedPolicy

\* The loop keeps the promise of PolicyFeed.
ImplementsPolicyFeed == Feed!FeedSpec
=============================================================================
