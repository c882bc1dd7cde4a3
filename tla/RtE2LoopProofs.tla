--------------------------- MODULE RtE2LoopProofs ---------------------------
(***************************************************************************)
(* Proofs about RtE2Loop, for every number of UEs and carriers and every   *)
(* queue depth: types, the order of the indices along the loop, and what   *)
(* follows from it: one policy at a time in the weights, no old ones       *)
(* without stale_flag, two sides that agree on lateness, and the promise   *)
(* of PolicyFeed.                                                          *)
(***************************************************************************)
EXTENDS RtE2Loop, TLAPS

USE TtiModAssumption, MaxUesAssumption, NofCarriersAssumption,
    MaxTtiAssumption, LoopAssumption

-----------------------------------------------------------------------------
(* Type correctness                                                        *)

LEMMA TtiArithmetic ==
  ASSUME NEW t \in Tti
  PROVE  NextTti(t) \in Tti /\ PrevTti(t) \in Tti
BY DEF Tti, NextTti, PrevTti

LEMMA TypeInit == Init => TypeOK
<1> SUFFICES ASSUME Init PROVE TypeOK
  OBVIOUS
<1>1. AgentTypeOK
  BY DEF Init, AgentInit, AgentTypeOK, NoWeights, Tti
<1>2. MessengerTypeOK
  BY DEF Init, MessengerInit, MessengerTypeOK, Tti
<1>3. linked \in BOOLEAN
  BY DEF Init
<1>4. /\ wire \in Seq(Policy) /\ Len(wire) <= WireDepth
      /\ inbox \in Seq(Policy) /\ Len(inbox) <= InboxDepth
      /\ crashes \in 0 .. MaxCrashes
      /\ report \in Report \cup {NoReport}
  BY DEF Init
<1> QED
  BY <1>1, <1>2, <1>3, <1>4 DEF TypeOK

\* What an overlay leaves in the weights is well typed.
LEMMA OverlayType ==
  ASSUME AgentTypeOK, NEW p \in Policy
  PROVE  /\ DOMAIN Overlay(p) \subseteq 0 .. 2 * MaxUes - 1
         /\ Overlay(p) \in [DOMAIN Overlay(p) -> Tti]
BY DEF AgentTypeOK, Policy, Overlay

LEMMA TypeStep == TypeOK /\ [Next]_vars => TypeOK'
<1> SUFFICES ASSUME TypeOK, [Next]_vars PROVE TypeOK'
  OBVIOUS
<1>t. NextTti(ttiCnt) \in Tti
  BY TtiArithmetic DEF TypeOK, AgentTypeOK
<1>1. CASE TtiWithoutPolicy
  <2>1. AgentTypeOK'
    BY <1>1 DEF TtiWithoutPolicy, ReceiveNothing, EnterTti, CanEnterTti,
                NoWeights, TypeOK, AgentTypeOK
  <2> QED
    BY <1>1, <2>1 DEF TtiWithoutPolicy, messengerVars, netVars, TypeOK, MessengerTypeOK
<1>2. CASE TtiWithPolicy
  <2>p. /\ Head(inbox) \in Policy
        /\ inbox' \in Seq(Policy)
        /\ Len(inbox') <= InboxDepth
    BY <1>2 DEF TtiWithPolicy, TypeOK
  <2>1. weights' = weights \/ weights' = Overlay(Head(inbox))
    BY <1>2 DEF TtiWithPolicy, ReceivePolicy
  <2>2. /\ DOMAIN weights' \subseteq 0 .. 2 * MaxUes - 1
        /\ weights' \in [DOMAIN weights' -> Tti]
    BY <2>1, <2>p, OverlayType DEF TypeOK, AgentTypeOK
  <2>3. started' \in BOOLEAN
    BY <1>2 DEF TtiWithPolicy, ReceivePolicy, EnterTti, TypeOK, AgentTypeOK
  <2>4. nextCc' \in 0 .. NofCarriers
    BY <1>2 DEF TtiWithPolicy, ReceivePolicy, EnterTti, CanEnterTti, TypeOK, AgentTypeOK
  <2>5. /\ ttiCnt' \in Tti /\ erIndex' \in Tti
        /\ staleFlag' \in {0, 1} /\ nofCqiUes' \in 0 .. MaxUes
    BY <1>2, <2>p DEF TtiWithPolicy, ReceivePolicy, EnterTti, Policy, TypeOK, AgentTypeOK
  <2>6. AgentTypeOK'
    BY <2>2, <2>3, <2>4, <2>5 DEF AgentTypeOK
  <2>7. MessengerTypeOK'
    BY <1>2 DEF TtiWithPolicy, messengerVars, TypeOK, MessengerTypeOK
  <2>8. linked' \in BOOLEAN /\ UNCHANGED <<report, wire, crashes>>
    BY <1>2 DEF TtiWithPolicy, TypeOK
  <2> QED
    BY <2>p, <2>6, <2>7, <2>8 DEF TypeOK
<1>3. CASE PublishReport
  <2>0. nextCc' \in 0 .. NofCarriers
    BY SMTT(30), <1>3 DEF PublishReport, RicComm, TypeOK, AgentTypeOK
  <2>1. AgentTypeOK'
    BY <1>3, <1>t, <2>0 DEF PublishReport, RicComm, TypeOK, AgentTypeOK
  <2>2. report' \in Report \cup {NoReport}
    BY <1>3, <1>t DEF PublishReport, ReportNow, Report, TypeOK, AgentTypeOK
  <2>3. MessengerTypeOK'
    BY <1>3 DEF PublishReport, messengerVars, TypeOK, MessengerTypeOK
  <2>4. UNCHANGED <<wire, inbox, linked, crashes>>
    BY <1>3 DEF PublishReport
  <2> QED
    BY <2>1, <2>2, <2>3, <2>4 DEF TypeOK
<1>4. CASE CqiInfo
  <2>0. nofCqiUes' \in 0 .. MaxUes
    BY SMTT(30), <1>4 DEF CqiInfo, FirstCqi, TypeOK, AgentTypeOK
  <2>u. UNCHANGED <<started, nextCc, ttiCnt, erIndex, staleFlag, weights>>
    BY <1>4 DEF CqiInfo, FirstCqi
  <2>1. AgentTypeOK'
    BY <2>0, <2>u DEF TypeOK, AgentTypeOK
  <2>2. MessengerTypeOK'
    BY <1>4 DEF CqiInfo, messengerVars, TypeOK, MessengerTypeOK
  <2>3. UNCHANGED <<report, wire, inbox, linked, crashes>>
    BY <1>4 DEF CqiInfo, netVars
  <2> QED
    BY <2>1, <2>2, <2>3 DEF TypeOK
<1>5. CASE StopMac
  BY <1>5 DEF StopMac, Stop, messengerVars, netVars, TypeOK, AgentTypeOK, MessengerTypeOK
<1>6. CASE ReadReport
  <2>1. report \in Report
    BY <1>6 DEF ReadReport, TypeOK
  <2>2. MessengerTypeOK'
    BY <1>6, <2>1 DEF ReadReport, GetMetrics, Report, TypeOK, MessengerTypeOK
  <2> QED
    BY <1>6, <2>2 DEF ReadReport, agentVars, TypeOK, AgentTypeOK
<1>7. CASE SendPolicy
  <2>1. PolicyNow \in Policy
    BY DEF PolicyNow, Policy, TypeOK, MessengerTypeOK
  <2>2. wire' \in Seq(Policy) /\ Len(wire') <= WireDepth
    BY <1>7, <2>1 DEF SendPolicy, TypeOK
  <2> QED
    BY <1>7, <2>2 DEF SendPolicy, SendWeights, agentVars, TypeOK, AgentTypeOK, MessengerTypeOK
<1>8. CASE SkipReport
  BY <1>8 DEF SkipReport, AlgorithmRaises, agentVars, netVars, TypeOK, AgentTypeOK, MessengerTypeOK
<1>9. CASE CrashMuApp
  <2>1. AgentTypeOK'
    BY <1>9 DEF CrashMuApp, agentVars, TypeOK, AgentTypeOK
  <2>2. MessengerTypeOK'
    BY <1>9 DEF CrashMuApp, Die, Tti, MessengerTypeOK
  <2>3. linked' \in BOOLEAN
    BY <1>9 DEF CrashMuApp
  <2>4. /\ report' = NoReport /\ wire' = << >> /\ inbox' = inbox
        /\ crashes' \in 0 .. MaxCrashes
    BY <1>9 DEF CrashMuApp, agentVars, TypeOK
  <2>5. /\ inbox \in Seq(Policy) /\ Len(inbox) <= InboxDepth
        /\ << >> \in Seq(Policy) /\ Len(<< >>) <= WireDepth
    BY DEF TypeOK
  <2> QED
    BY <2>1, <2>2, <2>3, <2>4, <2>5 DEF TypeOK
<1>10. CASE StartMuApp
  BY <1>10 DEF StartMuApp, StartUp, agentVars, netVars, TypeOK, AgentTypeOK, MessengerTypeOK
<1>11. CASE Link
  BY <1>11 DEF Link, agentVars, messengerVars, TypeOK, AgentTypeOK, MessengerTypeOK
<1>12. CASE Deliver
  <2>1. Head(wire) \in Policy /\ wire' \in Seq(Policy) /\ Len(wire') <= WireDepth
    BY <1>12 DEF Deliver, TypeOK
  <2>2. inbox' \in Seq(Policy) /\ Len(inbox') <= InboxDepth
    BY <1>12, <2>1 DEF Deliver, TypeOK
  <2> QED
    BY <1>12, <2>1, <2>2 DEF Deliver, agentVars, messengerVars, TypeOK, AgentTypeOK, MessengerTypeOK
<1>13. CASE UNCHANGED vars
  BY <1>13 DEF vars, agentVars, messengerVars, netVars, TypeOK, AgentTypeOK, MessengerTypeOK
<1> QED
  BY <1>1, <1>2, <1>3, <1>4, <1>5, <1>6, <1>7, <1>8, <1>9, <1>10, <1>11, <1>12, <1>13 DEF Next

\* Every variable of the loop keeps its type; in particular the queues keep to
\* their high-water marks.
THEOREM TypeCorrect == Spec => []TypeOK
<1> QED
  BY TypeInit, TypeStep, PTL DEF Spec

-----------------------------------------------------------------------------
(* The counter does not wrap below its bound                               *)

\* The run stops before tti_cnt reaches 2^32 (49 days of 1 ms TTIs).
NoWrap == MaxTti + NofCarriers <= TtiMod

BoundInv == ttiCnt < MaxTti + Published

LEMMA BoundInit == Init => BoundInv
BY DEF Init, AgentInit, BoundInv, Published

LEMMA BoundStep == TypeOK /\ BoundInv /\ NoWrap /\ [Next]_vars => BoundInv'
<1> SUFFICES ASSUME TypeOK, BoundInv, NoWrap, [Next]_vars PROVE BoundInv'
  OBVIOUS
<1> USE DEF BoundInv, Published
<1>t. ttiCnt \in Nat /\ nextCc \in 0 .. NofCarriers
  BY DEF TypeOK, AgentTypeOK, Tti
<1>1. ASSUME EnterTti PROVE BoundInv'
  BY <1>1, <1>t DEF EnterTti, CanEnterTti
<1>2. CASE TtiWithoutPolicy
  BY <1>1, <1>2 DEF TtiWithoutPolicy, ReceiveNothing
<1>3. CASE TtiWithPolicy
  BY <1>1, <1>3 DEF TtiWithPolicy, ReceivePolicy
<1>4. CASE PublishReport
  <2>1. ttiCnt' = ttiCnt + 1
    BY <1>4, <1>t DEF PublishReport, RicComm, NextTti, NoWrap
  <2> QED
    BY <1>4, <1>t, <2>1 DEF PublishReport, RicComm
<1>5. ASSUME UNCHANGED <<ttiCnt, nextCc>> PROVE BoundInv'
  BY <1>5
<1> QED
  BY <1>2, <1>3, <1>4, <1>5
     DEF Next, CqiInfo, FirstCqi, StopMac, Stop, ReadReport, SendPolicy, SkipReport,
         CrashMuApp, StartMuApp, Link, Deliver, agentVars, vars

-----------------------------------------------------------------------------
(* Queues of policies, ordered by the report they answer                   *)

Increasing(q) == \A i, j \in 1 .. Len(q) : i < j => q[i].ran < q[j].ran
Above(n, q) == \A i \in 1 .. Len(q) : n < q[i].ran
Below(q, n) == \A i \in 1 .. Len(q) : q[i].ran < n
Before(q, r) == \A i \in 1 .. Len(q), j \in 1 .. Len(r) : q[i].ran < r[j].ran

\* Taking the first policy off a queue.
LEMMA TailOrder ==
  ASSUME NEW q \in Seq(Policy), q # << >>
  PROVE  /\ Tail(q) \in Seq(Policy)
         /\ Head(q) \in Policy
         /\ Increasing(q) => Increasing(Tail(q)) /\ Above(Head(q).ran, Tail(q))
         /\ \A n \in Nat : Above(n, q) => Above(n, Tail(q)) /\ n < Head(q).ran
         /\ \A n \in Nat : Below(q, n) => Below(Tail(q), n) /\ Head(q).ran < n
<1>1. /\ Tail(q) \in Seq(Policy) /\ Len(Tail(q)) = Len(q) - 1
      /\ Head(q) = q[1] /\ Len(q) \in Nat \ {0} /\ q[1] \in Policy
      /\ \A i \in 1 .. Len(Tail(q)) : Tail(q)[i] = q[i + 1]
  OBVIOUS
<1> QED
  BY <1>1 DEF Increasing, Above, Below

\* Putting a policy behind a queue.
LEMMA AppendOrder ==
  ASSUME NEW q \in Seq(Policy), NEW p \in Policy
  PROVE  /\ Append(q, p) \in Seq(Policy)
         /\ Increasing(q) /\ Below(q, p.ran) => Increasing(Append(q, p))
         /\ \A n \in Nat : Above(n, q) /\ n < p.ran => Above(n, Append(q, p))
         /\ \A n \in Nat : Below(q, n) /\ p.ran < n => Below(Append(q, p), n)
<1>1. /\ Append(q, p) \in Seq(Policy) /\ Len(Append(q, p)) = Len(q) + 1
      /\ Append(q, p)[Len(q) + 1] = p /\ Len(q) \in Nat
      /\ \A i \in 1 .. Len(q) : Append(q, p)[i] = q[i]
  OBVIOUS
<1>2. \A i \in 1 .. Len(Append(q, p)) : i \in 1 .. Len(q) \/ i = Len(q) + 1
  BY <1>1
<1> QED
  BY <1>1, <1>2 DEF Increasing, Above, Below

LEMMA AppendElements ==
  ASSUME NEW q \in Seq(Policy), NEW p \in Policy,
         NEW i \in 1 .. Len(Append(q, p))
  PROVE  \/ i \in 1 .. Len(q) /\ Append(q, p)[i] = q[i]
         \/ Append(q, p)[i] = p
<1>1. /\ Len(Append(q, p)) = Len(q) + 1 /\ Len(q) \in Nat
      /\ Append(q, p)[Len(q) + 1] = p
      /\ \A k \in 1 .. Len(q) : Append(q, p)[k] = q[k]
  OBVIOUS
<1>2. i \in 1 .. Len(q) \/ i = Len(q) + 1
  BY <1>1
<1> QED
  BY <1>1, <1>2

LEMMA BelowMore ==
  ASSUME NEW q \in Seq(Policy), NEW n \in Nat, Below(q, n + 1)
  PROVE  Below(q, n + 2)
<1>1. SUFFICES ASSUME NEW i \in 1 .. Len(q) PROVE q[i].ran < n + 2
  BY DEF Below
<1>2. q[i] \in Policy
  OBVIOUS
<1>3. q[i].ran \in Nat
  BY <1>2 DEF Policy, Tti
<1>4. q[i].ran < n + 1
  BY DEF Below
<1> QED
  BY <1>3, <1>4

-----------------------------------------------------------------------------
(* PoliciesInOrder                                                         *)

\* A number newer than everything read or queued.
Newer(n) == erIndex < n /\ n <= ttiCnt /\ Below(inbox, n) /\ Below(wire, n)

\* PoliciesInOrder with the queue cut where it is cut: at the agent's socket.
OrderInv ==
  /\ erIndex <= ttiCnt
  /\ Increasing(inbox) /\ Increasing(wire) /\ Before(inbox, wire)
  /\ Above(erIndex, inbox) /\ Above(erIndex, wire)
  /\ Below(inbox, ttiCnt + 1) /\ Below(wire, ttiCnt + 1)
  /\ pc = "send" => Newer(ranIndex)
  /\ report # NoReport => Newer(report.tti)
  /\ report # NoReport /\ pc = "send" => ranIndex < report.tti

LEMMA OrderInit == Init => OrderInv
BY DEF Init, AgentInit, MessengerInit, OrderInv, Increasing, Before, Above, Below

\* The facts about the state that the order proofs need from TypeOK.
LEMMA OrderTypes ==
  ASSUME TypeOK
  PROVE  /\ ttiCnt \in Nat /\ erIndex \in Nat /\ ranIndex \in Nat
         /\ inbox \in Seq(Policy) /\ wire \in Seq(Policy)
         /\ report # NoReport => report \in Report /\ report.tti \in Nat
         /\ \A p \in Policy : p.ran \in Nat
         /\ Len(inbox) \in Nat /\ \A i \in 1 .. Len(inbox) : inbox[i].ran \in Nat
         /\ Len(wire) \in Nat /\ \A i \in 1 .. Len(wire) : wire[i].ran \in Nat
<1>1. \A p \in Policy : p.ran \in Nat
  BY DEF Policy, Tti
<1>2. /\ Len(inbox) \in Nat /\ \A i \in 1 .. Len(inbox) : inbox[i].ran \in Nat
      /\ Len(wire) \in Nat /\ \A i \in 1 .. Len(wire) : wire[i].ran \in Nat
  BY <1>1 DEF TypeOK
<1>3. report # NoReport => report \in Report /\ report.tti \in Nat
  BY DEF TypeOK, Report, Tti
<1> QED
  BY <1>1, <1>2, <1>3 DEF TypeOK, AgentTypeOK, MessengerTypeOK, Tti

LEMMA OrderStep == TypeOK /\ BoundInv /\ NoWrap /\ OrderInv /\ [Next]_vars => OrderInv'
<1> SUFFICES ASSUME TypeOK, BoundInv, NoWrap, OrderInv, [Next]_vars
             PROVE  OrderInv'
  OBVIOUS
<1>t. /\ ttiCnt \in Nat /\ erIndex \in Nat /\ ranIndex \in Nat
      /\ inbox \in Seq(Policy) /\ wire \in Seq(Policy)
      /\ report # NoReport => report \in Report /\ report.tti \in Nat
      /\ \A p \in Policy : p.ran \in Nat
      /\ Len(inbox) \in Nat /\ \A i \in 1 .. Len(inbox) : inbox[i].ran \in Nat
      /\ Len(wire) \in Nat /\ \A i \in 1 .. Len(wire) : wire[i].ran \in Nat
  BY OrderTypes
<1>1. CASE TtiWithPolicy
  <2> DEFINE p == Head(inbox)
  <2>1. /\ inbox # << >> /\ inbox' = Tail(inbox) /\ erIndex' = p.ran
        /\ UNCHANGED <<ttiCnt, pc, ranIndex, report, wire>>
    BY <1>1 DEF TtiWithPolicy, ReceivePolicy, EnterTti, messengerVars
  <2>2. Len(inbox) \in Nat \ {0} /\ p = inbox[1] /\ p \in Policy /\ p.ran \in Nat
    BY <1>t, <2>1
  <2>3. /\ Increasing(Tail(inbox)) /\ Above(p.ran, Tail(inbox))
        /\ \A n \in Nat : Below(inbox, n) => Below(Tail(inbox), n) /\ p.ran < n
    BY <1>t, <2>1, TailOrder DEF OrderInv
  <2>4. Above(p.ran, wire)
    BY <2>2, <1>t DEF OrderInv, Before, Above
  <2>5. Before(Tail(inbox), wire)
    BY <1>t, <2>1 DEF OrderInv, Before
  <2>6. p.ran <= ttiCnt
    BY <1>t, <2>2, <2>3 DEF OrderInv
  <2>7. \A n \in Nat : Newer(n) => Below(Tail(inbox), n) /\ Below(wire, n) /\ p.ran < n /\ n <= ttiCnt
    BY <2>3 DEF Newer
  <2> HIDE DEF p
  <2>8. Below(Tail(inbox), ttiCnt + 1)
    BY <1>t, <2>3 DEF OrderInv
  <2> QED
    BY <1>t, <2>1, <2>3, <2>4, <2>5, <2>6, <2>7, <2>8 DEF OrderInv, Newer
<1>2. CASE PublishReport
  <2>b. nextCc \in 1 .. NofCarriers
    BY <1>2 DEF PublishReport, RicComm, TypeOK, AgentTypeOK
  <2>n. NextTti(ttiCnt) = ttiCnt + 1
    BY <1>t, <2>b DEF NextTti, NoWrap, BoundInv, Published
  <2>1. /\ ttiCnt' = ttiCnt + 1
        /\ UNCHANGED <<erIndex, pc, ranIndex, inbox, wire>>
        /\ report' = NoReport \/ report' = ReportNow
        /\ ReportNow.tti = ttiCnt + 1
    BY <1>2, <2>n DEF PublishReport, RicComm, ReportNow, messengerVars
  <2>2. Below(inbox, ttiCnt + 2) /\ Below(wire, ttiCnt + 2)
    BY <1>t, BelowMore DEF OrderInv
  <2>3. pc = "send" => ranIndex < ttiCnt + 1
    BY <1>t DEF OrderInv, Newer
  <2> QED
    BY <1>t, <2>1, <2>2, <2>3 DEF OrderInv, Newer
<1>3. CASE ReadReport
  <2>1. /\ report # NoReport /\ report' = NoReport /\ ranIndex' = report.tti
        /\ UNCHANGED <<ttiCnt, erIndex, inbox, wire>>
    BY <1>3 DEF ReadReport, GetMetrics, agentVars
  <2> QED
    BY <1>t, <2>1 DEF OrderInv, Newer
<1>4. CASE SendPolicy
  <2>1. /\ pc = "send" /\ pc' = "recv"
        /\ wire' = wire \/ wire' = Append(wire, PolicyNow)
        /\ UNCHANGED <<ttiCnt, erIndex, ranIndex, inbox, report>>
    BY <1>4 DEF SendPolicy, SendWeights, agentVars
  <2>2. PolicyNow \in Policy /\ PolicyNow.ran = ranIndex
    BY DEF PolicyNow, Policy, TypeOK, MessengerTypeOK
  <2>3. CASE wire' = wire
    BY <2>1, <2>3 DEF OrderInv, Newer
  <2>4. CASE wire' = Append(wire, PolicyNow)
    <3>1. /\ Increasing(wire') /\ Above(erIndex, wire') /\ Below(wire', ttiCnt + 1)
          /\ report # NoReport => Below(wire', report.tti)
      BY <1>t, <2>1, <2>2, <2>4, AppendOrder DEF OrderInv, Newer
    <3>2. Before(inbox, wire')
      BY <1>t, <2>1, <2>2, <2>4 DEF OrderInv, Newer, Before, Below
    <3> QED
      BY <2>1, <3>1, <3>2 DEF OrderInv, Newer
  <2> QED
    BY <2>1, <2>3, <2>4
<1>5. CASE CrashMuApp
  <2>1. /\ pc' = "down" /\ report' = NoReport /\ wire' = << >>
        /\ UNCHANGED <<ttiCnt, erIndex, inbox>>
    BY <1>5 DEF CrashMuApp, Die, agentVars
  <2>2. /\ Increasing(<< >>) /\ Above(erIndex, << >>) /\ Below(<< >>, ttiCnt + 1)
        /\ Before(inbox, << >>)
    BY DEF Increasing, Above, Below, Before
  <2> QED
    BY <2>1, <2>2 DEF OrderInv
<1>6. CASE Deliver
  <2> DEFINE p == Head(wire)
  <2>1. /\ wire # << >> /\ wire' = Tail(wire)
        /\ inbox' = Append(inbox, p)
        /\ UNCHANGED <<ttiCnt, erIndex, pc, ranIndex, report>>
    BY <1>6 DEF Deliver, agentVars, messengerVars
  <2>2. /\ Len(wire) \in Nat \ {0} /\ p = wire[1] /\ p \in Policy /\ p.ran \in Nat
        /\ Tail(wire) \in Seq(Policy)
    BY <1>t, <2>1
  <2>3. /\ Increasing(Tail(wire)) /\ Above(p.ran, Tail(wire))
        /\ Above(erIndex, Tail(wire)) /\ erIndex < p.ran
        /\ \A n \in Nat : Below(wire, n) => Below(Tail(wire), n) /\ p.ran < n
    BY <1>t, <2>1, TailOrder DEF OrderInv
  <2> HIDE DEF p
  <2>4. Below(inbox, p.ran)
    BY <1>t, <2>2 DEF OrderInv, Before, Below
  <2>5. /\ Increasing(inbox') /\ Above(erIndex, inbox') /\ inbox' \in Seq(Policy)
        /\ \A n \in Nat : Below(inbox, n) /\ p.ran < n => Below(inbox', n)
    BY <1>t, <2>1, <2>2, <2>3, <2>4, AppendOrder DEF OrderInv
  <2>6. Before(inbox', Tail(wire))
    <3>1. Before(inbox, Tail(wire))
      <4>1. \A j \in 1 .. Len(Tail(wire)) :
              j + 1 \in 1 .. Len(wire) /\ Tail(wire)[j] = wire[j + 1]
        BY <1>t, <2>1
      <4> QED
        BY <4>1 DEF OrderInv, Before
    <3>2. \A i \in 1 .. Len(Append(inbox, p)) :
            \/ Append(inbox, p)[i] = p
            \/ i \in 1 .. Len(inbox) /\ Append(inbox, p)[i] = inbox[i]
      BY <1>t, <2>2, AppendElements
    <3>3. Before(Append(inbox, p), Tail(wire))
      BY <2>3, <3>1, <3>2 DEF Before, Above
    <3> QED
      BY <2>1, <3>3
  <2>7. /\ \A n \in Nat : Newer(n) => Below(inbox', n) /\ Below(Tail(wire), n)
        /\ Below(inbox', ttiCnt + 1) /\ Below(Tail(wire), ttiCnt + 1)
    BY <1>t, <2>3, <2>5 DEF OrderInv, Newer
  <2> QED
    BY <1>t, <2>1, <2>3, <2>5, <2>6, <2>7 DEF OrderInv, Newer
<1>7. ASSUME UNCHANGED <<ttiCnt, erIndex, inbox, wire, ranIndex, report>>,
             pc' = "send" => pc = "send"
      PROVE  OrderInv'
  BY <1>7 DEF OrderInv, Newer
<1>8. CASE TtiWithoutPolicy \/ CqiInfo \/ StopMac \/ SkipReport \/ StartMuApp \/ Link
           \/ UNCHANGED vars
  BY <1>7, <1>8
     DEF TtiWithoutPolicy, ReceiveNothing, EnterTti, CqiInfo, FirstCqi, StopMac, Stop,
         SkipReport, AlgorithmRaises, StartMuApp, StartUp, Link, vars, agentVars,
         messengerVars, netVars
<1> QED
  BY <1>1, <1>2, <1>3, <1>4, <1>5, <1>6, <1>8 DEF Next

\* OrderInv says of the two parts of the queue what PoliciesInOrder says of
\* their concatenation.
LEMMA OrderGoal == TypeOK /\ OrderInv => PoliciesInOrder
<1> SUFFICES ASSUME TypeOK, OrderInv PROVE PoliciesInOrder
  OBVIOUS
<1>t. /\ ttiCnt \in Nat /\ erIndex \in Nat /\ ranIndex \in Nat
      /\ inbox \in Seq(Policy) /\ wire \in Seq(Policy)
      /\ Len(inbox) \in Nat /\ Len(wire) \in Nat
  BY OrderTypes
<1>1. /\ Len(Pending) = Len(inbox) + Len(wire)
      /\ \A i \in 1 .. Len(inbox) : Pending[i] = inbox[i]
      /\ \A i \in 1 .. Len(wire) : Pending[Len(inbox) + i] = wire[i]
  BY <1>t DEF Pending
<1>2. \A i \in 1 .. Len(Pending) :
        \/ i \in 1 .. Len(inbox) /\ Pending[i] = inbox[i]
        \/ /\ i - Len(inbox) \in 1 .. Len(wire)
           /\ i > Len(inbox)
           /\ Pending[i] = wire[i - Len(inbox)]
  <2> TAKE i \in 1 .. Len(Pending)
  <2>1. CASE i <= Len(inbox)
    BY <1>t, <1>1, <2>1
  <2>2. CASE i > Len(inbox)
    <3> DEFINE k == i - Len(inbox)
    <3>1. k \in 1 .. Len(wire) /\ i = Len(inbox) + k
      BY <1>t, <1>1, <2>2
    <3> QED
      BY <1>1, <2>2, <3>1
  <2> QED
    BY <1>t, <2>1, <2>2
<1>3. \A i \in 1 .. Len(Pending) : \A n \in Nat :
        Below(inbox, n) /\ Below(wire, n) => Pending[i].ran < n
  BY <1>2 DEF Below
<1>4. \A i \in 1 .. Len(Pending) :
        erIndex < Pending[i].ran /\ Pending[i].ran < ttiCnt + 1
  <2> TAKE i \in 1 .. Len(Pending)
  <2>1. Pending[i].ran < ttiCnt + 1
    BY <1>t, <1>3 DEF OrderInv
  <2>2. CASE i \in 1 .. Len(inbox) /\ Pending[i] = inbox[i]
    BY <2>1, <2>2 DEF OrderInv, Above
  <2>3. CASE i - Len(inbox) \in 1 .. Len(wire) /\ Pending[i] = wire[i - Len(inbox)]
    BY <2>1, <2>3 DEF OrderInv, Above
  <2> QED
    BY <1>2, <2>2, <2>3
<1>5. \A i \in 1 .. Len(Pending) : \A j \in 1 .. i - 1 : Pending[j].ran < Pending[i].ran
  <2> TAKE i \in 1 .. Len(Pending)
  <2> TAKE j \in 1 .. i - 1
  <2>1. /\ i \in Nat /\ j \in Nat /\ j < i /\ j \in 1 .. Len(Pending)
        /\ i \in 1 .. Len(inbox) => j \in 1 .. Len(inbox)
    BY <1>t, <1>1
  <2>2. CASE i \in 1 .. Len(inbox)
    <3>1. Pending[i] = inbox[i] /\ Pending[j] = inbox[j]
      BY <1>1, <2>1, <2>2
    <3> QED
      BY <2>1, <2>2, <3>1 DEF OrderInv, Increasing
  <2>3. CASE i - Len(inbox) \in 1 .. Len(wire) /\ j \in 1 .. Len(inbox)
    <3>1. Pending[j] = inbox[j]
      BY <1>1, <2>3
    <3>2. Pending[i] = wire[i - Len(inbox)]
      BY <1>t, <1>2, <2>1, <2>3
    <3> QED
      BY <2>3, <3>1, <3>2 DEF OrderInv, Before
  <2>4. CASE /\ i - Len(inbox) \in 1 .. Len(wire) /\ i > Len(inbox)
             /\ j - Len(inbox) \in 1 .. Len(wire) /\ j > Len(inbox)
    <3>1. Pending[i] = wire[i - Len(inbox)] /\ Pending[j] = wire[j - Len(inbox)]
      BY <1>t, <1>2, <2>1, <2>4
    <3>2. j - Len(inbox) < i - Len(inbox)
      BY <1>t, <2>1, <2>4
    <3> QED
      BY <2>4, <3>1, <3>2 DEF OrderInv, Increasing
  <2> QED
    BY <1>2, <2>1, <2>2, <2>3, <2>4
<1>6. \A i \in 1 .. Len(Pending) : Pending[i].ran \in Nat
  BY <1>2, OrderTypes
<1>7. \A i \in 1 .. Len(Pending) :
        /\ pc = "send" => Pending[i].ran < ranIndex
        /\ report # NoReport => Pending[i].ran < report.tti
  BY <1>t, <1>3, OrderTypes DEF OrderInv, Newer
<1> QED
  BY <1>t, <1>4, <1>5, <1>6, <1>7 DEF PoliciesInOrder, OrderInv, Newer

\* The indices along the loop are in order: the last policy read, the queued
\* ones, the report being answered and the one waiting, up to the eNB's counter.
THEOREM PoliciesOrdered == ASSUME NoWrap PROVE Spec => []PoliciesInOrder
<1>1. Init => TypeOK /\ BoundInv /\ OrderInv
  BY TypeInit, BoundInit, OrderInit
<1>2. TypeOK /\ BoundInv /\ OrderInv /\ [Next]_vars => (TypeOK /\ BoundInv /\ OrderInv)'
  BY NoWrap, TypeStep, BoundStep, OrderStep
<1>3. TypeOK /\ OrderInv => PoliciesInOrder
  BY OrderGoal
<1> QED
  BY <1>1, <1>2, <1>3, PTL DEF Spec

-----------------------------------------------------------------------------
(* What follows from the order                                             *)

OrderedInv == TypeOK /\ BoundInv /\ OrderInv

LEMMA OrderedInvariant == ASSUME NoWrap PROVE Spec => []OrderedInv
<1>1. Init => OrderedInv
  BY TypeInit, BoundInit, OrderInit DEF OrderedInv
<1>2. OrderedInv /\ [Next]_vars => OrderedInv'
  BY NoWrap, TypeStep, BoundStep, OrderStep DEF OrderedInv
<1> QED
  BY <1>1, <1>2, PTL DEF Spec

\* The policy that receive_from_er_protobuf reads is newer than the last one and
\* answers a report that has been published.
LEMMA NextPolicyIsNewer ==
  ASSUME OrderedInv, inbox # << >>
  PROVE  /\ Head(inbox) \in Policy /\ Head(inbox).ran \in Nat
         /\ erIndex < Head(inbox).ran /\ Head(inbox).ran <= ttiCnt
<1>1. /\ inbox \in Seq(Policy) /\ ttiCnt \in Nat /\ erIndex \in Nat
      /\ \A p \in Policy : p.ran \in Nat
  BY OrderTypes DEF OrderedInv
<1>2. Head(inbox) \in Policy /\ Head(inbox) = inbox[1] /\ 1 \in 1 .. Len(inbox)
  BY <1>1
<1>3. erIndex < Head(inbox).ran /\ Head(inbox).ran < ttiCnt + 1
  BY <1>2 DEF OrderedInv, OrderInv, Above, Below
<1> QED
  BY <1>1, <1>2, <1>3

LEMMA ErIndexAdvances == OrderedInv /\ [Next]_vars => erIndex' >= erIndex
<1> SUFFICES ASSUME OrderedInv, [Next]_vars PROVE erIndex' >= erIndex
  OBVIOUS
<1>t. erIndex \in Nat
  BY OrderTypes DEF OrderedInv
<1>1. CASE TtiWithPolicy
  BY <1>1, <1>t, NextPolicyIsNewer DEF TtiWithPolicy, ReceivePolicy
<1>2. ASSUME erIndex' = erIndex PROVE erIndex' >= erIndex
  BY <1>2, <1>t
<1> QED
  BY <1>1, <1>2
     DEF Next, TtiWithoutPolicy, ReceiveNothing, PublishReport, RicComm, CqiInfo,
         FirstCqi, StopMac, Stop, ReadReport, SendPolicy, SkipReport, CrashMuApp,
         StartMuApp, Link, Deliver, agentVars, vars

\* The agent never reads a policy that is older than one it has read before.
THEOREM AgentNeverGoesBack == ASSUME NoWrap PROVE Spec => RicCntAdvances
<1>1. OrderedInv /\ [Next]_vars => [erIndex' >= erIndex]_erIndex
  BY ErIndexAdvances
<1> QED
  BY <1>1, OrderedInvariant, PTL DEF Spec, RicCntAdvances

-----------------------------------------------------------------------------
(* Messages only grow                                                      *)

\* Weights, policies and reports on their way, from the oldest to the newest:
\* each is at least as long as those before it.
CoversWeights(n) == \A i \in DOMAIN weights : i < n
CoversPending(n) == \A i \in 1 .. Len(Pending) : Pending[i].size <= n
Covers(n) == CoversWeights(n) /\ CoversPending(n)

SizeInv ==
  /\ \A i \in 1 .. Len(Pending) :
        /\ CoversWeights(Pending[i].size)
        /\ \A j \in 1 .. i - 1 : Pending[j].size <= Pending[i].size
  /\ Covers(2 * nofCqiUes)
  /\ pc = "send" => Covers(2 * numUes) /\ numUes <= nofCqiUes
  /\ report # NoReport => Covers(2 * report.ues) /\ report.ues <= nofCqiUes
  /\ report # NoReport /\ pc = "send" => numUes <= report.ues

\* ... so that a policy which is read overwrites all that is there.
WeightsInv ==
  /\ \A i \in DOMAIN weights : 0 \in DOMAIN weights /\ weights[i] = weights[0]
  /\ weights # NoWeights => 0 \in DOMAIN weights

\* What a step does to the queue as a whole
LEMMA PendingStep ==
  ASSUME TypeOK, [Next]_vars
  PROVE  /\ TtiWithPolicy => /\ inbox # << >> /\ Pending # << >>
                              /\ Head(inbox) = Pending[1] /\ Pending' = Tail(Pending)
         /\ SendPolicy => Pending' = Pending \/ Pending' = Append(Pending, PolicyNow)
         /\ CrashMuApp => /\ Len(Pending') <= Len(Pending)
                          /\ \A i \in 1 .. Len(Pending') : Pending'[i] = Pending[i]
         /\ TtiWithPolicy \/ SendPolicy \/ CrashMuApp \/ Pending' = Pending
<1>t. inbox \in Seq(Policy) /\ wire \in Seq(Policy)
  BY DEF TypeOK
<1>1. ASSUME TtiWithPolicy
      PROVE  /\ inbox # << >> /\ Pending # << >>
             /\ Head(inbox) = Pending[1] /\ Pending' = Tail(Pending)
  <2>1. inbox # << >> /\ inbox' = Tail(inbox) /\ wire' = wire
    BY <1>1 DEF TtiWithPolicy
  <2>2. /\ Len(inbox) \in Nat \ {0} /\ Len(wire) \in Nat
        /\ Len(inbox \o wire) = Len(inbox) + Len(wire)
        /\ (inbox \o wire)[1] = inbox[1] /\ Head(inbox) = inbox[1]
        /\ inbox \o wire # << >>
    BY <1>t, <2>1
  <2>3. Tail(inbox) \o wire = Tail(inbox \o wire)
    BY <1>t, <2>1
  <2> QED
    BY <1>1, <2>1, <2>2, <2>3 DEF Pending
<1>2. ASSUME SendPolicy
      PROVE  Pending' = Pending \/ Pending' = Append(Pending, PolicyNow)
  <2>1. /\ inbox' = inbox
        /\ wire' = wire \/ wire' = Append(wire, PolicyNow)
    BY <1>2 DEF SendPolicy
  <2>2. inbox \o Append(wire, PolicyNow) = Append(inbox \o wire, PolicyNow)
    <3>1. PolicyNow \in Policy
      BY DEF PolicyNow, Policy, TypeOK, MessengerTypeOK
    <3> QED
      BY <1>t, <3>1
  <2> QED
    BY <1>2, <2>1, <2>2 DEF Pending
<1>3. ASSUME CrashMuApp
      PROVE  /\ Len(Pending') <= Len(Pending)
             /\ \A i \in 1 .. Len(Pending') : Pending'[i] = Pending[i]
  <2>1. inbox' = inbox /\ wire' = << >>
    BY <1>3 DEF CrashMuApp
  <2>2. inbox \o << >> = inbox
    BY <1>t
  <2>3. /\ Len(inbox) <= Len(inbox \o wire)
        /\ \A i \in 1 .. Len(inbox) : inbox[i] = (inbox \o wire)[i]
    BY <1>t
  <2> QED
    BY <1>3, <2>1, <2>2, <2>3 DEF Pending
<1>4. ASSUME Deliver PROVE Pending' = Pending
  <2>1. wire # << >> /\ wire' = Tail(wire) /\ inbox' = Append(inbox, Head(wire))
    BY <1>4 DEF Deliver
  <2>2. Append(inbox, Head(wire)) \o Tail(wire) = inbox \o wire
    BY <1>t, <2>1
  <2> QED
    BY <2>1, <2>2 DEF Pending
<1>5. ASSUME UNCHANGED <<inbox, wire>> PROVE Pending' = Pending
  BY <1>5 DEF Pending
<1> QED
  BY <1>1, <1>2, <1>3, <1>4, <1>5
     DEF Next, TtiWithoutPolicy, PublishReport, CqiInfo, StopMac, ReadReport,
         SkipReport, StartMuApp, Link, netVars, vars

LEMMA SizeTypes ==
  ASSUME TypeOK
  PROVE  /\ Len(Pending) \in Nat
         /\ \A i \in 1 .. Len(Pending) : Pending[i] \in Policy /\ Pending[i].size \in Nat
         /\ \A i \in DOMAIN weights : i \in Nat
         /\ nofCqiUes \in Nat /\ numUes \in Nat
         /\ report # NoReport => report.ues \in Nat
         /\ PolicyNow \in Policy /\ PolicyNow.size = 2 * numUes
<1>1. Pending \in Seq(Policy)
  BY DEF Pending, TypeOK
<1>2. \A p \in Policy : p.size \in Nat
  BY DEF Policy
<1>3. /\ \A i \in DOMAIN weights : i \in Nat
      /\ nofCqiUes \in Nat /\ numUes \in Nat
  BY DEF TypeOK, AgentTypeOK, MessengerTypeOK
<1>4. report # NoReport => report.ues \in Nat
  BY DEF TypeOK, Report
<1>5. PolicyNow \in Policy /\ PolicyNow.size = 2 * numUes
  BY DEF PolicyNow, Policy, TypeOK, MessengerTypeOK
<1> QED
  BY <1>1, <1>2, <1>3, <1>4, <1>5

LEMMA SizeInit == Init => SizeInv /\ WeightsInv
BY DEF Init, AgentInit, MessengerInit, SizeInv, WeightsInv, Covers, CoversWeights,
       CoversPending, Pending, NoWeights

\* A policy that answers a later report than all before it replaces the weights.
LEMMA OverlayReplaces ==
  ASSUME TypeOK, NEW p \in Policy, CoversWeights(p.size)
  PROVE  Overlay(p) = [i \in 0 .. p.size - 1 |-> p.ran]
<1>1. p.size \in Nat /\ \A i \in DOMAIN weights : i \in 0 .. p.size - 1
  BY SMTT(30) DEF TypeOK, AgentTypeOK, Policy, CoversWeights
<1>2. DOMAIN weights \cup 0 .. p.size - 1 = 0 .. p.size - 1
  BY <1>1
<1>3. \A i \in 0 .. p.size - 1 : i < p.size
  BY <1>1
<1> QED
  BY <1>2, <1>3 DEF Overlay

\* The policy at the head of the queue replaces the weights, or leaves them.
LEMMA ReadReplaces ==
  ASSUME TypeOK, SizeInv, TtiWithPolicy
  PROVE  LET p == Head(inbox)
         IN /\ p \in Policy /\ p.size \in Nat
            /\ \/ InWindow(p) /\ staleFlag' = 0
                    /\ weights' = [i \in 0 .. p.size - 1 |-> p.ran]
               \/ ~ InWindow(p) /\ staleFlag' = 1 /\ weights' = weights
<1> DEFINE p == Head(inbox)
<1>1. inbox # << >> /\ inbox \in Seq(Policy) /\ wire \in Seq(Policy)
  BY DEF TtiWithPolicy, TypeOK
<1>2. /\ p \in Policy /\ Pending[1] = p /\ Len(Pending) \in Nat \ {0}
  BY <1>1 DEF Pending
<1>3. p.size \in Nat
  BY <1>2 DEF Policy
<1>4. CoversWeights(p.size)
  BY <1>2 DEF SizeInv
<1>5. Overlay(p) = [i \in 0 .. p.size - 1 |-> p.ran]
  BY <1>2, <1>4, OverlayReplaces
<1> QED
  BY <1>2, <1>3, <1>5 DEF TtiWithPolicy, ReceivePolicy

LEMMA WeightsStep == TypeOK /\ SizeInv /\ WeightsInv /\ [Next]_vars => WeightsInv'
<1> SUFFICES ASSUME TypeOK, SizeInv, WeightsInv, [Next]_vars PROVE WeightsInv'
  OBVIOUS
<1>1. CASE TtiWithPolicy
  <2> DEFINE n == Head(inbox).size
             t == Head(inbox).ran
  <2>1. n \in Nat /\ (weights' = [i \in 0 .. n - 1 |-> t] \/ weights' = weights)
    BY <1>1, ReadReplaces
  <2> HIDE DEF n, t
  <2>2. CASE weights' = [i \in 0 .. n - 1 |-> t]
    BY <2>1, <2>2 DEF WeightsInv, NoWeights
  <2> QED
    BY <2>1, <2>2 DEF WeightsInv
<1>2. CASE TtiWithoutPolicy
  BY <1>2 DEF TtiWithoutPolicy, ReceiveNothing, NoWeights, WeightsInv
<1>3. ASSUME weights' = weights PROVE WeightsInv'
  BY <1>3 DEF WeightsInv
<1> QED
  BY <1>1, <1>2, <1>3
     DEF Next, PublishReport, RicComm, CqiInfo, FirstCqi, StopMac, Stop, ReadReport,
         SendPolicy, SkipReport, CrashMuApp, StartMuApp, Link, Deliver, agentVars, vars

LEMMA SizeStep == TypeOK /\ SizeInv /\ [Next]_vars => SizeInv'
<1> SUFFICES ASSUME TypeOK, SizeInv, [Next]_vars PROVE SizeInv'
  OBVIOUS
<1> USE DEF Covers
<1>t. /\ Len(Pending) \in Nat
      /\ \A i \in 1 .. Len(Pending) : Pending[i] \in Policy /\ Pending[i].size \in Nat
      /\ \A i \in DOMAIN weights : i \in Nat
      /\ nofCqiUes \in Nat /\ numUes \in Nat
      /\ report # NoReport => report.ues \in Nat
      /\ PolicyNow \in Policy /\ PolicyNow.size = 2 * numUes
  BY SizeTypes
<1>1. CASE TtiWithPolicy
  <2> DEFINE p == Head(inbox)
  <2>1. /\ UNCHANGED <<nofCqiUes, pc, numUes, report>>
        /\ Pending # << >> /\ Pending[1] = p /\ Pending' = Tail(Pending)
    BY <1>1, PendingStep DEF TtiWithPolicy, ReceivePolicy, EnterTti, messengerVars
  <2>2. p.size \in Nat /\ Len(Pending) \in Nat \ {0}
    BY <1>t, <2>1
  <2>3. /\ Len(Pending') = Len(Pending) - 1
        /\ \A i \in 1 .. Len(Pending') : i + 1 \in 1 .. Len(Pending) /\ Pending'[i] = Pending[i + 1]
    BY <2>1, <2>2
  <2>4. \A n \in Nat : CoversPending(n) => CoversPending(n)' /\ p.size <= n
    BY <2>1, <2>2, <2>3 DEF CoversPending
  <2>5. \A n \in Nat : CoversWeights(n) /\ p.size <= n => CoversWeights(n)'
    BY <1>1, <2>2, ReadReplaces DEF CoversWeights
  <2>6. \A n \in Nat : Covers(n) => Covers(n)'
    BY <2>4, <2>5
  <2>7. \A i \in 1 .. Len(Pending') : \A k \in DOMAIN weights' : k < Pending[i + 1].size
    <3>1. \A i \in 1 .. Len(Pending') :
            /\ Pending[i + 1].size \in Nat /\ p.size <= Pending[i + 1].size
            /\ CoversWeights(Pending[i + 1].size)
      <4> HIDE DEF p
      <4> TAKE i \in 1 .. Len(Pending')
      <4>1. i + 1 \in 1 .. Len(Pending) /\ 1 \in 1 .. (i + 1) - 1
        BY <2>2, <2>3
      <4>2. /\ CoversWeights(Pending[i + 1].size)
            /\ Pending[1].size <= Pending[i + 1].size
        BY <4>1 DEF SizeInv
      <4>3. p.size <= Pending[i + 1].size
        BY <2>1, <4>2
      <4> QED
        BY <1>t, <4>1, <4>2, <4>3
    <3>2. \A n \in Nat : CoversWeights(n) /\ p.size <= n => \A k \in DOMAIN weights' : k < n
      BY <2>5 DEF CoversWeights
    <3> QED
      BY <3>1, <3>2
  <2>8. \A i \in 1 .. Len(Pending') :
          \A j \in 1 .. i - 1 : Pending'[j].size <= Pending'[i].size
    <3> TAKE i \in 1 .. Len(Pending')
    <3> TAKE j \in 1 .. i - 1
    <3>1. /\ i + 1 \in 1 .. Len(Pending) /\ j + 1 \in 1 .. (i + 1) - 1
          /\ j \in 1 .. Len(Pending')
      BY <2>2, <2>3
    <3>2. Pending[j + 1].size <= Pending[i + 1].size
      BY <3>1 DEF SizeInv
    <3> QED
      BY <2>3, <3>1, <3>2
  <2>9. \A i \in 1 .. Len(Pending') : CoversWeights(Pending[i].size)'
    <3> TAKE i \in 1 .. Len(Pending')
    <3>1. Pending'[i].size = Pending[i + 1].size
      BY <2>3
    <3> QED
      BY <2>7, <3>1 DEF CoversWeights
  <2> HIDE DEF p
  <2> QED
    BY <1>t, <2>1, <2>6, <2>8, <2>9 DEF SizeInv
<1>2. CASE SendPolicy
  <2>1. /\ pc = "send" /\ pc' = "recv"
        /\ UNCHANGED <<nofCqiUes, numUes, weights, report>>
        /\ Pending' = Pending \/ Pending' = Append(Pending, PolicyNow)
    BY <1>2, PendingStep DEF SendPolicy, SendWeights, agentVars
  <2>2. CASE Pending' = Pending
    BY <2>1, <2>2 DEF SizeInv, CoversWeights, CoversPending
  <2>3. CASE Pending' = Append(Pending, PolicyNow)
    <3>1. /\ Len(Pending') = Len(Pending) + 1 /\ Pending'[Len(Pending) + 1] = PolicyNow
          /\ \A i \in 1 .. Len(Pending) : Pending'[i] = Pending[i]
      BY <1>t, <2>3 DEF Pending, TypeOK
    <3>2. \A i \in 1 .. Len(Pending') :
            i \in 1 .. Len(Pending) \/ i = Len(Pending) + 1
      BY <1>t, <3>1
    <3>3. \A n \in Nat : CoversPending(n) /\ 2 * numUes <= n => CoversPending(n)'
      BY <1>t, <3>1, <3>2 DEF CoversPending
    <3>4. \A i \in 1 .. Len(Pending') : CoversWeights(Pending[i].size)'
      BY <1>t, <2>1, <3>1, <3>2 DEF SizeInv, CoversWeights
    <3>5. \A i \in 1 .. Len(Pending') :
            \A j \in 1 .. i - 1 : Pending'[j].size <= Pending'[i].size
      <4> TAKE i \in 1 .. Len(Pending')
      <4> TAKE j \in 1 .. i - 1
      <4>1. j \in 1 .. Len(Pending)
        BY <1>t, <3>1
      <4>2. CASE i \in 1 .. Len(Pending)
        BY <3>1, <4>1, <4>2 DEF SizeInv
      <4>3. CASE i = Len(Pending) + 1
        BY <1>t, <2>1, <3>1, <4>1, <4>3 DEF SizeInv, CoversPending
      <4> QED
        BY <3>2, <4>2, <4>3
    <3>6. \A n \in Nat : CoversWeights(n) => CoversWeights(n)'
      BY <2>1 DEF CoversWeights
    <3> QED
      BY <1>t, <2>1, <3>3, <3>4, <3>5, <3>6 DEF SizeInv
  <2> QED
    BY <2>1, <2>2, <2>3
<1>3. CASE CrashMuApp
  <2>1. /\ pc' = "down" /\ report' = NoReport /\ UNCHANGED <<nofCqiUes, weights>>
        /\ Len(Pending') <= Len(Pending)
        /\ \A i \in 1 .. Len(Pending') : Pending'[i] = Pending[i]
    BY <1>3, PendingStep DEF CrashMuApp, Die, agentVars
  <2>2. Len(Pending') \in Nat
    BY <1>3, TypeStep, SizeTypes DEF TypeOK, Pending
  <2>3. \A i \in 1 .. Len(Pending') :
          i \in 1 .. Len(Pending) /\ Pending'[i] = Pending[i]
    BY <1>t, <2>1, <2>2
  <2>4. \A i \in 1 .. Len(Pending') : \A j \in 1 .. i - 1 :
          Pending'[j].size <= Pending'[i].size
    <3> TAKE i \in 1 .. Len(Pending')
    <3> TAKE j \in 1 .. i - 1
    <3>1. i \in 1 .. Len(Pending) /\ j \in 1 .. Len(Pending')
      BY <2>2, <2>3
    <3>2. Pending[j].size <= Pending[i].size
      BY <3>1 DEF SizeInv
    <3> QED
      BY <2>3, <3>1, <3>2
  <2>5. \A i \in 1 .. Len(Pending') : CoversWeights(Pending[i].size)'
    BY <2>1, <2>3 DEF SizeInv, CoversWeights
  <2>6. Covers(2 * nofCqiUes)'
    BY <2>1, <2>3 DEF SizeInv, CoversWeights, CoversPending
  <2> QED
    BY <2>1, <2>4, <2>5, <2>6 DEF SizeInv
<1>4. CASE TtiWithoutPolicy
  <2>1. weights' = NoWeights /\ UNCHANGED <<nofCqiUes, pc, numUes, report, inbox, wire>>
    BY <1>4 DEF TtiWithoutPolicy, ReceiveNothing, EnterTti, messengerVars, netVars
  <2> QED
    BY <2>1 DEF SizeInv, CoversWeights, CoversPending, NoWeights, Pending
<1>5. CASE ReadReport
  <2>1. /\ report # NoReport /\ report' = NoReport /\ numUes' = report.ues
        /\ UNCHANGED <<nofCqiUes, weights, inbox, wire>>
    BY <1>5 DEF ReadReport, GetMetrics, agentVars
  <2> QED
    BY <2>1 DEF SizeInv, CoversWeights, CoversPending, Pending
<1>6. CASE PublishReport
  <2>1. /\ report' = NoReport \/ report' = ReportNow
        /\ ReportNow.ues = nofCqiUes
        /\ UNCHANGED <<nofCqiUes, pc, numUes, weights, inbox, wire>>
    BY <1>6 DEF PublishReport, RicComm, ReportNow, messengerVars
  <2> QED
    BY SMTT(30), <1>t, <2>1 DEF SizeInv, CoversWeights, CoversPending, Pending
<1>7. CASE CqiInfo
  <2>1. /\ nofCqiUes' = nofCqiUes + 1
        /\ UNCHANGED <<pc, numUes, weights, report, inbox, wire>>
    BY <1>7 DEF CqiInfo, FirstCqi, messengerVars, netVars
  <2>2. Covers(2 * nofCqiUes)'
    BY <1>t, <2>1 DEF SizeInv, CoversWeights, CoversPending, Pending
  <2> QED
    BY SMTT(30), <1>t, <2>1, <2>2 DEF SizeInv, CoversWeights, CoversPending, Pending
<1>8. ASSUME UNCHANGED <<nofCqiUes, numUes, weights, report>>, Pending' = Pending,
             pc' = "send" => pc = "send"
      PROVE  SizeInv'
  BY <1>8 DEF SizeInv, CoversWeights, CoversPending
<1>9. CASE StopMac \/ SkipReport \/ StartMuApp \/ Link \/ UNCHANGED vars
  <2>1. UNCHANGED <<inbox, wire, nofCqiUes, numUes, weights, report>>
        /\ (pc' = "send" => pc = "send")
    BY <1>9 DEF StopMac, Stop, SkipReport, AlgorithmRaises, StartMuApp, StartUp, Link,
           vars, agentVars, messengerVars, netVars
  <2> QED
    BY <1>8, <2>1 DEF Pending
<1>10. CASE Deliver
  <2>1. CASE TtiWithPolicy \/ SendPolicy \/ CrashMuApp
    BY <1>1, <1>2, <1>3, <2>1
  <2>2. CASE Pending' = Pending
    BY <1>8, <1>10, <2>2 DEF Deliver, agentVars, messengerVars
  <2> QED
    BY <2>1, <2>2, PendingStep
<1> QED
  BY <1>1, <1>2, <1>3, <1>4, <1>5, <1>6, <1>7, <1>9, <1>10 DEF Next

\* SizeInv makes WeightsInv inductive: the scheduler never works with a mix of two
\* policies.
THEOREM OnePolicyAtATime == Spec => []SinglePolicy
<1>1. Init => TypeOK /\ SizeInv /\ WeightsInv
  BY TypeInit, SizeInit
<1>2. TypeOK /\ SizeInv /\ WeightsInv /\ [Next]_vars => (TypeOK /\ SizeInv /\ WeightsInv)'
  BY TypeStep, SizeStep, WeightsStep
<1>3. WeightsInv => SinglePolicy
  BY DEF WeightsInv, SinglePolicy
<1> QED
  BY <1>1, <1>2, <1>3, PTL DEF Spec

-----------------------------------------------------------------------------
(* The age of the weights                                                  *)

LoopInv == OrderedInv /\ SizeInv /\ WeightsInv

LEMMA LoopInvariant == ASSUME NoWrap PROVE Spec => []LoopInv
<1>1. Init => LoopInv
  BY TypeInit, BoundInit, OrderInit, SizeInit DEF LoopInv, OrderedInv
<1>2. LoopInv /\ [Next]_vars => LoopInv'
  BY NoWrap, TypeStep, BoundStep, OrderStep, SizeStep, WeightsStep DEF LoopInv, OrderedInv
<1> QED
  BY <1>1, <1>2, PTL DEF Spec

\* What publishing a report does to the counters
LEMMA PublishCounts ==
  ASSUME NoWrap, OrderedInv, PublishReport
  PROVE  /\ ttiCnt \in Nat /\ ttiCnt' = ttiCnt + 1 /\ NextTti(ttiCnt) = ttiCnt + 1
         /\ Published \in Nat /\ Published' = Published + 1
         /\ UNCHANGED <<started, erIndex, staleFlag, weights>>
<1>1. ttiCnt \in Nat /\ nextCc \in 1 .. NofCarriers /\ ttiCnt < MaxTti + Published
  BY DEF PublishReport, RicComm, OrderedInv, BoundInv, TypeOK, AgentTypeOK, Tti
<1>2. Published = nextCc - 1
  BY <1>1 DEF Published
<1>3. Published' = nextCc
  BY <1>1 DEF PublishReport, RicComm, Published
<1>4. NextTti(ttiCnt) = ttiCnt + 1
  BY <1>1, <1>2 DEF NextTti, NoWrap
<1> QED
  BY <1>1, <1>2, <1>3, <1>4 DEF PublishReport, RicComm

\* What entering a TTI does to them
LEMMA EnterCounts ==
  ASSUME TypeOK, EnterTti
  PROVE  /\ Published \in Nat /\ Published = NofCarriers
         /\ Published' = IF started THEN 0 ELSE Published
         /\ UNCHANGED <<started, ttiCnt>>
BY DEF EnterTti, CanEnterTti, Published

\* The window, without the wrap of the counter
LEMMA WindowIsRecent ==
  ASSUME OrderedInv, inbox # << >>
  PROVE  InWindow(Head(inbox)) <=> Head(inbox).ran + 1 >= ttiCnt
<1>1. Head(inbox).ran \in Nat /\ Head(inbox).ran <= ttiCnt
  BY NextPolicyIsNewer
<1>2. ttiCnt \in Nat /\ ttiCnt < TtiMod
  BY SMTT(30) DEF OrderedInv, TypeOK, AgentTypeOK, Tti
<1> QED
  BY <1>1, <1>2 DEF InWindow, PrevTti

LEMMA AgeStep ==
  NoWrap /\ LoopInv /\ OldOnlyIfStale /\ [Next]_vars => OldOnlyIfStale'
<1> SUFFICES ASSUME NoWrap, LoopInv, OldOnlyIfStale, [Next]_vars
             PROVE  OldOnlyIfStale'
  OBVIOUS
<1> USE DEF LoopInv
<1>t. /\ TypeOK /\ ttiCnt \in Nat
      /\ \A i \in DOMAIN weights : weights[i] \in Nat
  BY SMTT(30) DEF OrderedInv, TypeOK, AgentTypeOK, Tti
<1>1. CASE TtiWithPolicy
  <2> DEFINE p == Head(inbox)
  <2>1. /\ ttiCnt' = ttiCnt /\ Published' \in Nat
    BY <1>1, <1>t, EnterCounts DEF TtiWithPolicy, ReceivePolicy
  <2>2. p.ran \in Nat /\ (InWindow(p) <=> p.ran + 1 >= ttiCnt)
    BY <1>1, NextPolicyIsNewer, WindowIsRecent DEF TtiWithPolicy
  <2>3. CASE staleFlag' = 0
    <3>1. InWindow(p) /\ weights' = [i \in 0 .. p.size - 1 |-> p.ran]
      BY <1>1, <1>t, <2>3, ReadReplaces
    <3>2. \A i \in DOMAIN weights' : weights'[i] = p.ran
      BY <3>1
    <3> HIDE DEF p
    <3> QED
      BY <1>t, <2>1, <2>2, <3>1, <3>2 DEF OldOnlyIfStale
  <2> QED
    BY <2>3 DEF OldOnlyIfStale
<1>2. CASE TtiWithoutPolicy
  BY <1>2 DEF TtiWithoutPolicy, ReceiveNothing, NoWeights, OldOnlyIfStale
<1>3. CASE PublishReport
  BY <1>3, <1>t, PublishCounts DEF OldOnlyIfStale
<1>4. ASSUME UNCHANGED <<ttiCnt, nextCc, staleFlag, weights>> PROVE OldOnlyIfStale'
  BY <1>4 DEF OldOnlyIfStale, Published
<1> QED
  BY <1>1, <1>2, <1>3, <1>4
     DEF Next, CqiInfo, FirstCqi, StopMac, Stop, ReadReport, SendPolicy, SkipReport,
         CrashMuApp, StartMuApp, Link, Deliver, agentVars, vars

\* Without stale_flag, the weights in use answer one of the last two reports.
THEOREM NoOldWeights == ASSUME NoWrap PROVE Spec => []OldOnlyIfStale
<1>1. Init => OldOnlyIfStale
  BY DEF Init, AgentInit, NoWeights, OldOnlyIfStale
<1>2. LoopInv /\ OldOnlyIfStale /\ [Next]_vars => OldOnlyIfStale'
  BY NoWrap, AgeStep
<1> QED
  BY <1>1, <1>2, LoopInvariant, PTL DEF Spec

-----------------------------------------------------------------------------
(* The two sides' idea of lateness                                         *)

VerdictInv ==
  /\ started /\ weights # NoWeights =>
       /\ erIndex + Published <= ttiCnt
       /\ staleFlag = 0 <=> erIndex + 1 + Published >= ttiCnt
  /\ started /\ report # NoReport /\ report.tti = ttiCnt /\ Published = 1 =>
       report.ric = erIndex

LEMMA VerdictStep ==
  NoWrap /\ LoopInv /\ VerdictInv /\ [Next]_vars => VerdictInv'
<1> SUFFICES ASSUME NoWrap, LoopInv, VerdictInv, [Next]_vars
             PROVE  VerdictInv'
  OBVIOUS
<1> USE DEF LoopInv
<1>t. /\ TypeOK /\ ttiCnt \in Nat /\ erIndex \in Nat
  BY OrderTypes DEF OrderedInv
<1>1. CASE TtiWithPolicy
  <2> DEFINE p == Head(inbox)
  <2>1. /\ ttiCnt' = ttiCnt /\ started' = started /\ erIndex' = p.ran
        /\ started => Published' = 0
    BY <1>1, <1>t, EnterCounts DEF TtiWithPolicy, ReceivePolicy
  <2>2. /\ p.ran \in Nat /\ p.ran <= ttiCnt
        /\ InWindow(p) <=> p.ran + 1 >= ttiCnt
    BY <1>1, NextPolicyIsNewer, WindowIsRecent DEF TtiWithPolicy
  <2>3. staleFlag' = 0 <=> InWindow(p)
    BY <1>1, <1>t, ReadReplaces
  <2> HIDE DEF p
  <2> QED
    BY <1>t, <2>1, <2>2, <2>3 DEF VerdictInv
<1>2. CASE TtiWithoutPolicy
  BY <1>2, <1>t, EnterCounts DEF TtiWithoutPolicy, ReceiveNothing, VerdictInv
<1>3. CASE PublishReport
  <2>1. report' # NoReport => report'.ric = erIndex
    BY <1>3 DEF PublishReport, ReportNow
  <2> QED
    BY <1>3, <1>t, <2>1, PublishCounts DEF VerdictInv
<1>4. ASSUME UNCHANGED <<ttiCnt, nextCc, staleFlag, weights, erIndex>>,
             started' => started,
             report' = report \/ report' = NoReport
      PROVE VerdictInv'
  BY <1>4 DEF VerdictInv, Published
<1> QED
  BY <1>1, <1>2, <1>3, <1>4
     DEF Next, CqiInfo, FirstCqi, StopMac, Stop, ReadReport, SendPolicy, SkipReport,
         CrashMuApp, StartMuApp, Link, Deliver, agentVars, messengerVars, netVars, vars

\* The muApp counts a policy of a running eNB as correct when the agent did.
THEOREM BothSidesAgree == ASSUME NoWrap PROVE Spec => []VerdictAgrees
<1>1. Init => VerdictInv
  BY DEF Init, AgentInit, VerdictInv
<1>2. LoopInv /\ VerdictInv /\ [Next]_vars => VerdictInv'
  BY NoWrap, VerdictStep
<1>3. LoopInv /\ VerdictInv => VerdictAgrees
  <2> SUFFICES ASSUME LoopInv, VerdictInv, started, weights # NoWeights,
                      report # NoReport, report.tti = ttiCnt, Published = 1
               PROVE  InStep(report.tti, report.ric) <=> staleFlag = 0
    BY DEF VerdictAgrees
  <2>1. ttiCnt \in Nat /\ erIndex \in Nat
    BY OrderTypes DEF LoopInv, OrderedInv
  <2>2. /\ report.ric = erIndex /\ erIndex + 1 <= ttiCnt
        /\ staleFlag = 0 <=> erIndex + 2 >= ttiCnt
    BY <2>1 DEF VerdictInv
  <2> QED
    BY <2>1, <2>2 DEF InStep
<1> QED
  BY <1>1, <1>2, <1>3, LoopInvariant, PTL DEF Spec

-----------------------------------------------------------------------------
(* The promise of PolicyFeed                                               *)

LEMMA FeedStep ==
  NoWrap /\ LoopInv /\ LoopInv' /\ [Next]_vars => [Feed!FeedNext]_(Feed!feedVars)
<1> SUFFICES ASSUME NoWrap, LoopInv, LoopInv', [Next]_vars
             PROVE  Feed!FeedNext \/ UNCHANGED <<ttiCnt, erIndex, AppliedPolicy>>
  BY DEF Feed!feedVars
<1> USE DEF LoopInv
<1>t. /\ TypeOK /\ ttiCnt \in Nat /\ erIndex \in Nat
  BY OrderTypes DEF OrderedInv
<1>1. CASE TtiWithPolicy
  <2> DEFINE p == Head(inbox)
  <2>1. ttiCnt' = ttiCnt /\ erIndex' = p.ran
    BY <1>1 DEF TtiWithPolicy, ReceivePolicy, EnterTti
  <2>2. /\ p.ran \in Nat /\ erIndex < p.ran /\ p.ran <= ttiCnt
        /\ InWindow(p) <=> p.ran + 1 >= ttiCnt
    BY <1>1, NextPolicyIsNewer, WindowIsRecent DEF TtiWithPolicy
  <2>3. CASE InWindow(p) /\ weights' = [i \in 0 .. p.size - 1 |-> p.ran]
    <3>1. p.ran \in {ttiCnt - 1, ttiCnt}
      BY <1>t, <2>2, <2>3
    <3>2. AppliedPolicy' \in {p.ran, -1}
      <4>1. CASE weights' = NoWeights
        BY <4>1 DEF AppliedPolicy
      <4>2. CASE weights' # NoWeights
        <5>1. 0 \in DOMAIN weights'
          BY <4>2 DEF WeightsInv
        <5>2. weights'[0] = p.ran
          BY <2>3, <5>1
        <5> QED
          BY <4>2, <5>2 DEF AppliedPolicy
      <4> QED
        BY <4>1, <4>2
    <3> HIDE DEF p
    <3>3. Feed!Apply
      BY <2>1, <2>2, <3>1, <3>2 DEF Feed!Apply, Feed!Default
    <3> QED
      BY <3>3 DEF Feed!FeedNext
  <2>4. CASE ~ InWindow(p) /\ weights' = weights
    <3>1. p.ran \in erIndex + 1 .. ttiCnt - 2
      BY <1>t, <2>2, <2>4
    <3>2. AppliedPolicy' = AppliedPolicy
      BY <2>4 DEF AppliedPolicy
    <3> HIDE DEF p
    <3>3. Feed!TooLate
      BY <2>1, <3>1, <3>2 DEF Feed!TooLate
    <3> QED
      BY <3>3 DEF Feed!FeedNext
  <2> QED
    BY <1>1, <1>t, <2>3, <2>4, ReadReplaces
<1>2. CASE TtiWithoutPolicy
  <2>1. AppliedPolicy' = -1 /\ UNCHANGED <<ttiCnt, erIndex>>
    BY <1>2 DEF TtiWithoutPolicy, ReceiveNothing, EnterTti, AppliedPolicy
  <2> QED
    BY <2>1 DEF Feed!FallBack, Feed!FeedNext, Feed!Default
<1>3. CASE PublishReport
  <2>1. /\ ttiCnt' = ttiCnt + 1 /\ erIndex' = erIndex
        /\ AppliedPolicy' = AppliedPolicy
    BY <1>3, PublishCounts DEF AppliedPolicy
  <2> QED
    BY <2>1 DEF Feed!Advance, Feed!FeedNext
<1>4. ASSUME UNCHANGED <<ttiCnt, erIndex, weights>>
      PROVE  UNCHANGED <<ttiCnt, erIndex, AppliedPolicy>>
  BY <1>4 DEF AppliedPolicy
<1> QED
  BY <1>1, <1>2, <1>3, <1>4
     DEF Next, CqiInfo, FirstCqi, StopMac, Stop, ReadReport, SendPolicy, SkipReport,
         CrashMuApp, StartMuApp, Link, Deliver, agentVars, vars

\* The loop implements PolicyFeed: in a TTI the scheduler gets a policy that answers
\* one of the last two reports and is newer than all before, keeps what it has
\* because the policy is too late, or goes back to its defaults.
THEOREM LoopImplementsFeed == ASSUME NoWrap PROVE Spec => ImplementsPolicyFeed
<1>1. Init => Feed!FeedInit
  BY DEF Init, AgentInit, AppliedPolicy, Feed!FeedInit, Feed!Default
<1>2. LoopInv /\ LoopInv' /\ [Next]_vars => [Feed!FeedNext]_(Feed!feedVars)
  BY NoWrap, FeedStep
<1> QED
  BY <1>1, <1>2, LoopInvariant, PTL DEF Spec, ImplementsPolicyFeed, Feed!FeedSpec
=============================================================================
