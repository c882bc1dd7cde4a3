------------------------------ MODULE DlHarq ------------------------------
(***************************************************************************)
(* Downlink HARQ of one carrier and one UE, eNB and UE together. One TTI   *)
(* of Next is                                                              *)
(*   BeginTti    the PHY worker decodes the UCI of the TTI, then calls the *)
(*               scheduler, which begins it (harq_entity::new_tti)         *)
(*   AllocRetx, AllocNewTx, AllocNothing                                   *)
(*               the UE's turn in sched_dl_users, and its DCI              *)
(*   Receive, Miss, Idle                                                   *)
(*               what reaches the UE; the next TTI                         *)
(* What is scheduled at the eNB in a TTI and what the UE receives in it    *)
(* are DelayUl apart in time; nothing of this UE happens in between, so    *)
(* they are one TTI of the model, and feedback is read NofHarq later.      *)
(* Room on the PDCCH and in the grid, the data that waits, decoding errors *)
(* and lost UCI are nondeterministic, as are lost DCIs on a lossy link.    *)
(***************************************************************************)
EXTENDS EnbDlHarq, UeDlHarq

CONSTANTS
  Sizes,      \* sizes of transport blocks
  GapPeriod,  \* measgap_period, or 0
  GapLen,     \* length of a measurement gap (6)
  Lossy,      \* which processes may have their DCIs missed by the UE: the sets
              \*   to choose from
  MaxRefused  \* bound on the TTIs in which a retransmission finds no room,
              \*   since none was due

ASSUME SizesAssumption == Sizes \subseteq Nat \ {0} /\ Sizes # {}
ASSUME GapAssumption ==
  /\ GapPeriod \in Nat /\ GapLen \in Nat
  /\ GapPeriod > 0 => TtiMod % GapPeriod = 0  \* 10240 = 40 * 256
ASSUME LossyAssumption == Lossy \subseteq SUBSET Pid /\ Lossy # {}
ASSUME RefusedAssumption == MaxRefused \in Nat

\* rr.conf.example has 4 tries, ue_cfg_t 5; with more than RESET_DUPLICATE_
\* TIMEOUT + 1 = 7 the UE would take a late copy for a new block.
ASSUME DuplicateAssumption == MaxRetx <= DuplicateTimeout + 1

NoDci == [pid |-> NoPid]

VARIABLES
  harq,      \* the eNB's processes
  ue,        \* the UE's processes
  uci,       \* what the UE will send for the last transmission of a process:
             \*   "ack", "no_ack", or "none" after the eNB has had it
  air,       \* the DCI of the TTI
  gapPos,    \* the TTI's position in the measurement gap period
  refused,   \* TTIs in which a retransmission was refused
  phase,     \* "tti", "alloc", "air"
  lossy,     \* the processes whose DCIs the UE may miss
  pushes,    \* times the eNB's current block was pushed to the demultiplexer
  seen,      \* has the UE had a DCI of that block?
  prevSeen   \* had it one of the block before?

vars == <<harq, ue, uci, air, gapPos, refused, phase, lossy, pushes, seen,
          prevSeen>>
history == <<pushes, seen, prevSeen>>

TypeOK ==
  /\ harq \in [Pid ->
       [active : BOOLEAN, ack : BOOLEAN, nRtx : 0 .. MaxRetx - 1, ndi : BOOLEAN,
        tbs : Sizes \cup {0}, age : {NoAge} \cup 0 .. TtiMod - 1]]
  /\ ue \in [Pid ->
       [first : BOOLEAN, ndi : BOOLEAN, tbs : Sizes \cup {0}, ack : BOOLEAN,
        n : 0 .. NBound]]
  /\ uci \in [Pid -> {"none", "no_ack", "ack"}]
  /\ air \in {NoDci} \cup [pid : Pid, ndi : BOOLEAN, tbs : Sizes]
  /\ gapPos \in 0 .. GapPeriod
  /\ refused \in 0 .. MaxRefused
  /\ phase \in {"tti", "alloc", "air"}
  /\ lossy \in Lossy
  /\ pushes \in [Pid -> Nat]
  /\ seen \in [Pid -> BOOLEAN]
  /\ prevSeen \in [Pid -> BOOLEAN]

Init ==
  /\ harq = [p \in Pid |-> EmptyProc]
  /\ ue = [p \in Pid |-> FreshUe]
  /\ uci = [p \in Pid |-> "none"]
  /\ air = NoDci
  /\ gapPos = 0
  /\ refused = 0
  /\ phase = "tti"
  /\ lossy \in Lossy
  /\ pushes = [p \in Pid |-> 0]
  /\ seen = [p \in Pid |-> TRUE]
  /\ prevSeen = [p \in Pid |-> TRUE]

-----------------------------------------------------------------------------
(* The eNB                                                                 *)

\* The process whose transmission the PHY expects feedback for in this TTI.
Reported == {p \in Pid : uci[p] # "none" /\ harq[p].age = NofHarq}

Acked(ok) ==
  IF Reported = {} THEN harq
  ELSE [harq EXCEPT ![AckTarget(harq)] = SetAck(@, ok)]

\* The PHY reports an expected UCI that it does not detect as a NACK.
BeginTti ==
  /\ phase = "tti"
  /\ \E ok \in {FALSE} \cup {uci[p] = "ack" : p \in Reported} :
       harq' = [p \in Pid |-> HarqNewTti(Acked(ok)[p])]
  /\ uci' = [p \in Pid |-> IF p \in Reported THEN "none" ELSE uci[p]]
  /\ phase' = "alloc"
  /\ UNCHANGED <<ue, air, gapPos, refused, lossy, history>>

\* pdsch_enabled: neither the transmission nor its feedback is in the gap
\* that is nearest to the transmission.
FromGap == IF 2 * gapPos < GapPeriod THEN gapPos ELSE gapPos - GapPeriod
PdschEnabled ==
  GapPeriod > 0 => {FromGap, FromGap + DelayDl} \cap 0 .. GapLen - 1 = {}

RetxDue == PdschEnabled /\ GetOldest(harq) # NoPid

Send(p) ==
  /\ air' = [pid |-> p, ndi |-> harq'[p].ndi, tbs |-> harq'[p].tbs]
  /\ uci' = [uci EXCEPT ![p] = "no_ack"]
  /\ phase' = "air"

AllocRetx ==
  /\ phase = "alloc" /\ RetxDue
  /\ LET p == GetOldest(harq)
     IN  /\ harq' = [harq EXCEPT ![p] = NewRetx(@)]
         /\ Send(p)
  /\ UNCHANGED <<ue, gapPos, refused, lossy, history>>

\* A retransmission that is due has not found room.
RefuseRetx ==
  IF RetxDue THEN refused < MaxRefused /\ refused' = refused + 1
  ELSE refused' = 0

AllocNewTx ==
  /\ phase = "alloc" /\ PdschEnabled /\ GetEmpty(harq) # NoPid
  /\ RefuseRetx
  /\ LET p == GetEmpty(harq)
     IN  /\ \E size \in Sizes : harq' = [harq EXCEPT ![p] = NewTx(@, size)]
         /\ Send(p)
         /\ pushes' = [pushes EXCEPT ![p] = 0]
         /\ prevSeen' = [prevSeen EXCEPT ![p] = seen[p]]
         /\ seen' = [seen EXCEPT ![p] = FALSE]
  /\ UNCHANGED <<ue, gapPos, lossy>>

AllocNothing ==
  /\ phase = "alloc"
  /\ RefuseRetx
  /\ phase' = "air"
  /\ UNCHANGED <<harq, ue, uci, air, gapPos, lossy, history>>

-----------------------------------------------------------------------------
(* The air interface and the UE                                            *)

NextTti ==
  /\ phase' = "tti"
  /\ air' = NoDci
  /\ harq' = [p \in Pid |-> Older(harq[p])]
  /\ gapPos' = IF GapPeriod = 0 THEN 0 ELSE (gapPos + 1) % GapPeriod
  /\ UNCHANGED <<refused, lossy>>

Receive ==
  /\ phase = "air" /\ air # NoDci
  /\ \E good \in BOOLEAN :
       LET p == air.pid
           r == React(ue[p], air, good)
       IN  /\ ue' = [ue EXCEPT ![p] = r.ue]
           /\ uci' = [uci EXCEPT ![p] = IF r.ack THEN "ack" ELSE "no_ack"]
           /\ pushes' = [pushes EXCEPT ![p] = IF r.push THEN @ + 1 ELSE @]
           /\ seen' = [seen EXCEPT ![p] = TRUE]
  /\ NextTti
  /\ UNCHANGED prevSeen

Miss ==
  /\ phase = "air" /\ air # NoDci /\ air.pid \in lossy
  /\ NextTti
  /\ UNCHANGED <<ue, uci, history>>

Idle ==
  /\ phase = "air" /\ air = NoDci
  /\ NextTti
  /\ UNCHANGED <<ue, uci, history>>

Next ==
  \/ BeginTti
  \/ AllocRetx \/ AllocNewTx \/ AllocNothing
  \/ Receive \/ Miss \/ Idle

Spec == Init /\ [][Next]_vars

\* TTIs go on.
FairSpec == Spec /\ WF_vars(Next)

-----------------------------------------------------------------------------
(* Properties                                                              *)

\* The feedback of a TTI is credited to the process that was transmitted in
\* it, although set_ack_info takes the first process with that TTI, be it in
\* use or not, and TTIs repeat.
AckFindsItsProcess ==
  phase = "tti" => \A p \in Reported : AckTarget(harq) = p

\* A block may be acknowledged and never delivered only if the UE has missed
\* every DCI of the block before it: then the two blocks have the same NDI for
\* the UE, which acknowledges a duplicate of what it had before.
OnlyUnseenLost ==
  \A p \in Pid :
    harq[p].ack /\ ~ harq[p].active /\ pushes[p] = 0 => ~ prevSeen[p]

\* Likewise, a block is pushed to the demultiplexer at most once, however often
\* its ACKs are lost: the UE forgets a block that was repeated too often only
\* when the eNB has no tries left, unless its count went on from a block that
\* it takes this one for.
PushedOnce == \A p \in Pid : pushes[p] > 1 => ~ prevSeen[p]

\* A process is not busy for ever with one block.
ProcessFreed == \A p \in Pid : []<>(~ harq[p].active)

\* The block of a process as the layers above see it.
Block(p) ==
  IF pushes[p] > 0 THEN [state |-> "delivered", tries |-> 0]
  ELSE IF harq[p].active THEN [state |-> "busy", tries |-> harq[p].nRtx + 1]
  ELSE [state |-> IF harq[p].age = NoAge THEN "none"
                  ELSE IF harq[p].ack THEN "lost" ELSE "given_up",
        tries |-> 0]

Transfer == INSTANCE TbTransfer
  WITH Ues <- Pid, tb <- [p \in Pid |-> Block(p)]

\* The two ends together carry one block after the other through each process.
ImplementsTbTransfer == Transfer!Spec
=============================================================================
