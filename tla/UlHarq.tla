------------------------------ MODULE UlHarq ------------------------------
(***************************************************************************)
(* Uplink HARQ of one carrier, eNB and UEs together. HARQ is synchronous:  *)
(* the process of TTI t is the process of t + 8, and the eight processes   *)
(* share nothing, so the module follows one of them. One round of Next is  *)
(* its cycle of eight TTIs:                                                *)
(*   StartTti        generate_tti_result up to the PHICHs (t)              *)
(*   AllocRetx,      the loop of sched_ul_users, one UE at a time          *)
(*   AllocNewTx                                                            *)
(*   GenerateResults the rest of generate_tti_result                       *)
(*   UesTransmit     the UEs, at t + 4 and t + 8                           *)
(*   DecodePusch     the eNB's PHY worker of t + 8, whose CRCs reach the   *)
(*                   MAC before it asks for the schedule of that TTI       *)
(* Which PRBs PUCCH, PRACH and EdgeRIC's blanking take, which DCIs find    *)
(* room on the PDCCH, the data that waits, the PF priorities, decoding     *)
(* errors and, while a UE fades, lost DCIs are nondeterministic.           *)
(***************************************************************************)
EXTENDS EnbUlHarq, FiniteSets, FiniteSetsExt

INSTANCE UeUlHarq

CONSTANTS
  Ues,       \* RNTIs; PHICHs are made in their order
  NofPrb,    \* PRBs of the carrier
  Reserved,  \* the sets of PRBs that may be taken before UL data
  Wants,     \* numbers of PRBs that pending data may need
  MaxPhich,  \* MAX_PHICH_LIST (8)
  GapKinds,  \* how a UE's measurement gap may meet the process; "fading": it
             \* has no gap, and may miss DCIs until the fading ends
  GapCycles  \* cycles between two gaps (40 ms: 5)

GapPattern ==
  [none        |-> << {}, {} >>,
   fading      |-> << {}, {} >>,
   phich       |-> << {"phich"}, {} >>,
   pusch       |-> << {"pusch"}, {} >>,
   phich_pusch |-> << {"phich", "pusch"}, {} >>,
   pusch_phich |-> << {"pusch"}, {"phich"} >>]

ASSUME UesAssumption == Ues \subseteq Nat /\ IsFiniteSet(Ues)
ASSUME PrbAssumption ==
  /\ NofPrb \in Nat /\ Wants \subseteq 1 .. NofPrb
  /\ Reserved \subseteq SUBSET (0 .. NofPrb - 1)
ASSUME PhichAssumption == MaxPhich \in Nat
ASSUME GapAssumption ==
  GapKinds \subseteq DOMAIN GapPattern /\ GapCycles \in Nat \ {0}

Prb == 0 .. NofPrb - 1
Interval(first, len) == first .. first + len - 1
NoGrant == [alloc |-> {}]

VARIABLES
  harq,     \* the eNB's process of each UE
  enbTbs,   \* the size the eNB's PHY stores for it (ue_db::last_ul_tb)
  ue,       \* the UE's process
  fading,   \* DCIs may be missed
  gapKind,  \* how the UE's gap meets this process
  cycle,    \* cycles since the last gap began
  phase,    \* "tti", "alloc", "dl", "ul"
  queue,    \* ul_queue
  ulMask,   \* sf_grid_t::ul_mask
  allocs,   \* ul_data_allocs: PRBs and whether a DCI carries the grant
  phich,    \* the PHICH list: "ack", "nack", or "none" for a UE not in it
  grants,   \* the PUSCH grants of the TTI
  pusch     \* what the UEs transmit

vars == <<harq, enbTbs, ue, fading, gapKind, cycle, phase, queue, ulMask, allocs,
          phich, grants, pusch>>

Sizes == {NoTbs} \cup ({"first", "28"} \X (1 .. NofPrb))
Grant == {NoGrant} \cup
  [alloc : SUBSET Prb, dci : BOOLEAN, retx : BOOLEAN, rv : 0 .. 3,
   mcs : {"first", "28", "reserved"}, ndi : BOOLEAN, tbs : Sizes]

TypeOK ==
  /\ harq \in [Ues ->
       [active : BOOLEAN, ack : BOOLEAN, nRtx : 0 .. MaxRetx - 1,
        ndi : BOOLEAN, alloc : SUBSET Prb, phich : BOOLEAN, pdcch : BOOLEAN]]
  /\ enbTbs \in [Ues -> Sizes]
  /\ ue \in [Ues ->
       [has : BOOLEAN, ndi : BOOLEAN, tbs : Sizes, nb : 0 .. NbBound,
        feedback : BOOLEAN, irv : 0 .. 3, rv : 0 .. 3, lastTbs : Sizes,
        ackFor : SUBSET Prb, pdu : {"none", "new", "delivered"}]]
  /\ fading \in BOOLEAN
  /\ gapKind \in [Ues -> GapKinds]
  /\ cycle \in 0 .. GapCycles - 1
  /\ phase \in {"tti", "alloc", "dl", "ul"}
  /\ queue \subseteq Ues
  /\ ulMask \subseteq Prb
  /\ allocs \in [Ues -> {NoGrant} \cup [alloc : SUBSET Prb, dci : BOOLEAN]]
  /\ phich \in [Ues -> {"none", "ack", "nack"}]
  /\ grants \in [Ues -> Grant]
  /\ pusch \in [Ues -> {NoTx} \cup
       [prbs : SUBSET Prb, tbs : Sizes, rv : 0 .. 3, new : BOOLEAN]]

Init ==
  /\ harq = [u \in Ues |-> EmptyProc]
  /\ enbTbs = [u \in Ues |-> NoTbs]
  /\ ue = [u \in Ues |-> FreshUe]
  /\ gapKind \in [Ues -> GapKinds]
  /\ fading = \E u \in Ues : gapKind[u] = "fading"
  /\ cycle = 0
  /\ phase = "tti"
  /\ queue = {}
  /\ ulMask = {}
  /\ allocs = [u \in Ues |-> NoGrant]
  /\ phich = [u \in Ues |-> "none"]
  /\ grants = [u \in Ues |-> NoGrant]
  /\ pusch = [u \in Ues |-> NoTx]

\* What of the cycle falls in the UE's gap. A gap of 6 ms covers one of the
\* process's PHICH and PUSCH, or two in a row.
InGap(u) == IF cycle \in {0, 1} THEN GapPattern[gapKind[u]][cycle + 1] ELSE {}
PhichEnabled(u) == "phich" \notin InGap(u)
PuschEnabled(u, needsPdcch) ==
  "pusch" \notin InGap(u) /\ (needsPdcch => PhichEnabled(u))

(* alloc_phich for the UEs in order; the loop ends at the first that finds *)
(* the list full.                                                          *)
Due(h) == {u \in Ues : h[u].phich}
Ahead(h, u) == {v \in Due(h) : v < u /\ PhichEnabled(v)}
FindsRoom(h, u) == u \in Due(h) /\ Cardinality(Ahead(h, u)) < MaxPhich
FindsListFull(h, u) ==
  /\ u \in Due(h) /\ ~ FindsRoom(h, u)
  /\ \A v \in Due(h) : v < u => FindsRoom(h, v)

\* The PHICH of a process that falls in a gap is not sent; its
\* retransmission, if it needs one, is resumed by a DCI later on.
AfterPhich(h, u) ==
  IF FindsListFull(h, u) THEN PopPhich(h[u])
  ELSE IF ~ FindsRoom(h, u) THEN h[u]
  ELSE IF PhichEnabled(u) \/ ~ h[u].active THEN PopPhich(h[u])
  ELSE RequestPdcch(PopPhich(h[u]))

PhichFor(h, u) ==
  IF FindsRoom(h, u) /\ PhichEnabled(u)
  THEN IF h[u].ack THEN "ack" ELSE "nack"
  ELSE "none"

\* ul_h: the process, if its retransmission or a new transmission is possible
InQueue(h, u) == IF HasPendingRetx(h) THEN PuschEnabled(u, FALSE)
                 ELSE ~ h.active /\ PuschEnabled(u, TRUE)

StartTti ==
  /\ phase = "tti"
  /\ LET begun == [u \in Ues |-> HarqNewTti(harq[u])]
     IN  /\ harq' = [u \in Ues |-> AfterPhich(begun, u)]
         /\ phich' = [u \in Ues |-> PhichFor(begun, u)]
  /\ queue' = {u \in Ues : InQueue(harq'[u], u)}
  /\ ulMask' \in Reserved
  /\ phase' = "alloc"
  /\ UNCHANGED <<enbTbs, ue, fading, gapKind, cycle, allocs, grants, pusch>>

\* find_contiguous_ul_prbs: the first interval of len free PRBs, or else the
\* first of the longest.
FreeIntervals(len) ==
  {Interval(f, l) : f \in Prb, l \in 1 .. len} \cap SUBSET (Prb \ ulMask)
Contiguous(len) ==
  LET longest == {i \in FreeIntervals(len) :
                    \A j \in FreeIntervals(len) : Cardinality(j) <= Cardinality(i)}
  IN  UNION {i \in longest : \A j \in longest : Min(i) <= Min(j)}

\* alloc_ul: the measurement gap, then PRBs (which are free) and the DCI
Allocate(u, alloc, needsPdcch) ==
  \/ /\ PuschEnabled(u, needsPdcch)
     /\ allocs' = [allocs EXCEPT ![u] = [alloc |-> alloc, dci |-> needsPdcch]]
     /\ ulMask' = ulMask \cup alloc
  \/ /\ needsPdcch  \* no room on the PDCCH, or it falls in the gap
     /\ UNCHANGED <<allocs, ulMask>>

Refuse == UNCHANGED <<allocs, ulMask>>

\* Retransmissions are ahead of new transmissions in ul_queue.
IsTopOfQueue(u) ==
  /\ u \in queue
  /\ HasPendingRetx(harq[u]) \/ \A v \in queue : ~ HasPendingRetx(harq[v])

AllocRetx(u) ==
  /\ phase = "alloc" /\ IsTopOfQueue(u) /\ HasPendingRetx(harq[u])
  /\ LET same  == harq[u].alloc
         moved == Contiguous(Cardinality(same))
     IN  IF same \cap ulMask = {}
         THEN Allocate(u, same, RetxRequiresPdcch(harq[u], same))
         ELSE IF PuschEnabled(u, TRUE) /\ Cardinality(moved) = Cardinality(same)
         THEN Allocate(u, moved, RetxRequiresPdcch(harq[u], moved))
         ELSE Refuse
  /\ queue' = queue \ {u}
  /\ UNCHANGED <<harq, enbTbs, ue, fading, gapKind, cycle, phase, phich, grants, pusch>>

AllocNewTx(u) ==
  /\ phase = "alloc" /\ IsTopOfQueue(u) /\ ~ HasPendingRetx(harq[u])
  /\ \/ Refuse  \* nothing to send
     \/ \E want \in Wants :
          IF Contiguous(want) = {} THEN Refuse
          ELSE Allocate(u, Contiguous(want), TRUE)
  /\ queue' = queue \ {u}
  /\ UNCHANGED <<harq, enbTbs, ue, fading, gapKind, cycle, phase, phich, grants, pusch>>

IsUlAlloc(u) == allocs[u] # NoGrant
MissedRetx(u) == harq[u].active /\ ~ IsUlAlloc(u)

\* Mutant: the PHICH is left as it is.
FinalPhichKept(u) == phich[u]

\* A process that was not retransmitted is halted: the PHICH that would ask
\* the UE to retransmit becomes an ACK.
FinalPhich(u) ==
  IF MissedRetx(u) /\ phich[u] # "none" THEN "ack" ELSE phich[u]

\* generate_format0, and the size that the eNB's PHY makes of it
Format0(u) ==
  LET h    == harq[u]
      rv   == IF h.active THEN (h.nRtx + 1) % 4 ELSE 0
      mcs  == IF ~ (h.active /\ allocs[u].dci) THEN "first"
              ELSE IF rv = 0 THEN "28" ELSE "reserved"
      size == <<mcs, Cardinality(allocs[u].alloc)>>
  IN  [alloc |-> allocs[u].alloc, dci |-> allocs[u].dci, retx |-> h.active,
       rv |-> rv, mcs |-> mcs, ndi |-> IF h.active THEN h.ndi ELSE ~ h.ndi,
       tbs |-> IF mcs = "reserved" THEN enbTbs[u] ELSE size]

AfterResults(u) ==
  IF IsUlAlloc(u)
  THEN IF harq[u].active THEN NewRetx(harq[u], allocs[u].alloc)
                         ELSE NewTx(harq[u], allocs[u].alloc)
  ELSE IF harq[u].active THEN RetxSkipped(harq[u]) ELSE harq[u]

GenerateResults ==
  /\ phase = "alloc" /\ queue = {}
  /\ phich' = [u \in Ues |-> FinalPhich(u)]
  /\ grants' = [u \in Ues |-> IF IsUlAlloc(u) THEN Format0(u) ELSE NoGrant]
  /\ enbTbs' = [u \in Ues |-> IF IsUlAlloc(u) THEN Format0(u).tbs ELSE enbTbs[u]]
  /\ harq' = [u \in Ues |-> AfterResults(u)]
  /\ allocs' = [u \in Ues |-> NoGrant]
  /\ ulMask' = {}
  /\ phase' = "dl"
  /\ UNCHANGED <<ue, fading, gapKind, cycle, queue, pusch>>

(* The UEs. *)
Dci(g) == [mcs |-> g.mcs, ndi |-> g.ndi, prbs |-> g.alloc,
           rv |-> IF g.mcs = "reserved" THEN g.rv ELSE 0]

\* A UE that awaits a PHICH which is not sent decodes noise; in its gap it
\* takes the PHICH for an ACK.
HeardPhich(u, noise) ==
  IF ue[u].ackFor = {} THEN "none"
  ELSE IF phich[u] # "none" THEN phich[u]
  ELSE IF ~ PhichEnabled(u) THEN "ack" ELSE noise

Carried == {u \in Ues : grants[u] # NoGrant /\ grants[u].dci}
MayMiss == IF fading THEN SUBSET {u \in Carried : gapKind[u] = "fading"} ELSE {{}}

UesTransmit ==
  /\ phase = "dl"
  /\ \E missed \in MayMiss, noise \in [Ues -> {"ack", "nack"}] :
       LET dci(u)    == IF u \in Carried \ missed THEN Dci(grants[u]) ELSE NoDci
           result(u) == React(ue[u], dci(u), HeardPhich(u, noise[u]))
       IN  /\ ue' = [u \in Ues |-> result(u).ue]
           /\ pusch' = [u \in Ues |-> result(u).tx]
  /\ phase' = "ul"
  /\ UNCHANGED <<harq, enbTbs, fading, gapKind, cycle, queue, ulMask, allocs, phich,
                 grants>>

\* A CRC can only be right if the UE transmitted what the eNB expects.
Expected(u) ==
  /\ pusch[u] # NoTx
  /\ pusch[u].prbs = grants[u].alloc
  /\ pusch[u].tbs = grants[u].tbs /\ pusch[u].rv = grants[u].rv

DecodePusch ==
  /\ phase = "ul"
  /\ LET granted == {u \in Ues : grants[u] # NoGrant}
     IN  \E good \in SUBSET {u \in granted : Expected(u)} :
           /\ harq' = [u \in Ues |-> IF u \in granted
                                     THEN SetAck(harq[u], u \in good)
                                     ELSE harq[u]]
           /\ ue' = [u \in Ues |-> IF u \in good
                                   THEN [ue[u] EXCEPT !.pdu = "delivered"]
                                   ELSE ue[u]]
  /\ grants' = [u \in Ues |-> NoGrant]
  /\ pusch' = [u \in Ues |-> NoTx]
  /\ phich' = [u \in Ues |-> "none"]
  /\ cycle' = IF \E u \in Ues : gapKind[u] \notin {"none", "fading"}
              THEN (cycle + 1) % GapCycles ELSE 0
  /\ phase' = "tti"
  /\ UNCHANGED <<enbTbs, fading, gapKind, queue, ulMask, allocs>>

FadingEnds ==
  /\ phase = "tti" /\ fading
  /\ fading' = FALSE
  /\ UNCHANGED <<harq, enbTbs, ue, gapKind, cycle, phase, queue, ulMask,
                 allocs, phich, grants, pusch>>

Next ==
  \/ StartTti
  \/ \E u \in Ues : AllocRetx(u)
  \/ \E u \in Ues : AllocNewTx(u)
  \/ GenerateResults
  \/ UesTransmit
  \/ DecodePusch
  \/ FadingEnds

Spec == Init /\ [][Next]_vars

Tti == Next /\ UNCHANGED fading

\* TTIs go on.
FairSpec == Spec /\ WF_vars(Tti)

-----------------------------------------------------------------------------
\* The grants and PHICHs of the TTI are out and the UEs have answered them.
OnAir == phase = "ul"

\* While every DCI arrives, the UE does exactly what the eNB expects for each
\* grant: it transmits, on those PRBs, in that redundancy version, and a new
\* PDU if and only if the eNB began a new transport block. This is what keeps
\* the NDI, the transmission counters and the PHICH of the two sides in step
\* although a retransmission may be moved, skipped and resumed (new_grant_ul
\* against generate_format0).
GrantServed(u) ==
  OnAir /\ grants[u] # NoGrant => Expected(u) /\ (pusch[u].new <=> ~ grants[u].retx)
GrantsServed == \A u \in Ues : gapKind[u] # "fading" => GrantServed(u)

\* srsran_assert of generate_sched_results: the PHICH of an active process
\* that is not retransmitted is a NACK before it is turned into an ACK.
SkippedWasNack ==
  phase = "alloc" /\ queue = {} =>
    \A u \in Ues : MissedRetx(u) => phich[u] # "ack"

\* A UE whose retransmission was skipped is silent: what the eNB does with the
\* PHICH (an ACK, or none in a gap) reaches the UE as "do not retransmit".
SkippedIsSilent ==
  OnAir => \A u \in Ues :
    gapKind[u] # "fading" /\ harq[u].active /\ grants[u] = NoGrant => pusch[u] = NoTx

\* When two UEs transmit on the same PRB, one of them has a transport block
\* that the eNB has given up: a UE goes on after the eNB's last NACK, because the
\* eNB also counts retransmissions it has skipped.
OnlyGivenUpCollide ==
  OnAir => \A u, v \in Ues :
    u # v /\ pusch[u].prbs \cap pusch[v].prbs # {} =>
      \E w \in {u, v} : ~ harq[w].active /\ harq[w].nRtx = MaxRetx - 1

\* While every DCI arrives, a UE does not transmit a block more often than
\* maxharq_tx says: the eNB counts at least what the UE transmits, also across
\* adaptive retransmissions, before which the UE does not check its counter.
TransmissionsBounded ==
  \A u \in Ues : gapKind[u] # "fading" => ue[u].nb <= MaxRetx

\* A process is not busy for ever with one transport block, even if its
\* retransmissions are skipped each time or the UE has missed the grant.
ProcessFreed == \A u \in Ues : []<>(~ harq[u].active)

\* The block that the eNB's process of u carries, as the layers above see it: a
\* process that is busy with a block its UE has delivered or never began is
\* none of the abstract states. A UE that fades is left out.
BeginsWith(u) == phase = "dl" /\ grants[u] # NoGrant /\ ~ grants[u].retx
Block(u) ==
  IF gapKind[u] = "fading" THEN [state |-> "none", tries |-> 0]
  ELSE IF harq[u].active
  THEN [state |-> IF BeginsWith(u) \/ ue[u].pdu = "new" THEN "busy" ELSE "stale",
        tries |-> harq[u].nRtx + 1]
  ELSE [state |-> IF ue[u].pdu = "new" THEN "given_up" ELSE ue[u].pdu, tries |-> 0]

Transfer == INSTANCE TbTransfer
  WITH tb <- [u \in Ues |-> Block(u)], lossy <- {}

\* The two processes together carry one block after the other: each is
\* delivered once or given up after MaxRetx opportunities, also if its
\* retransmissions are moved, skipped, or fall in measurement gaps.
ImplementsTbTransfer == Transfer!Spec

\* A UE that missed DCIs, and so may take a new block for a retransmission or
\* stay silent, is back in step some time after DCIs arrive again.
Resynchronized == ~ fading ~> [](\A u \in Ues : GrantServed(u))

=============================================================================
