--------------------------- MODULE UlHarqProofs ---------------------------
(*************************************************************************)
(* Theorems about uplink HARQ, for every carrier, number of UEs, maximum *)
(* of transmissions, gap pattern and loss of DCIs.                       *)
(*                                                                       *)
(* The eNB: the assertion of generate_sched_results never fails, and a   *)
(* process never counts more opportunities than its maximum.             *)
(* SkippedWasNack speaks of the PHICH list and is not inductive. What it *)
(* rests on is that an acknowledged process is never active              *)
(* (Consistent), so that a PHICH "ack" of this TTI belongs to a process  *)
(* that ended before the TTI's allocations begin (SettledIn).            *)
(*                                                                       *)
(* Both sides: a UE that receives its DCIs does not transmit a block     *)
(* more often than maxharq_tx allows. The UE checks its counter only     *)
(* when it hears a NACK; what bounds adaptive retransmissions is the     *)
(* eNB's counter, and that the NDI of a new block always differs from    *)
(* the one the UE has.                                                   *)
(*                                                                       *)
(* In step: while the PHICH list has room (PhichRoom), such a UE does    *)
(* with each block what the eNB takes it to do. HInv says where the two  *)
(* processes are in every phase of the cycle; a UE that was skipped is   *)
(* silent, two UEs collide only over a block that was given up, and the  *)
(* two ends implement TbTransfer. With at most four transmissions, sizes *)
(* and redundancy versions agree too (SInv): every grant is served.      *)
(*************************************************************************)
EXTENDS UlHarq, FiniteSetTheorems, TLAPS

Proc == [active : BOOLEAN, ack : BOOLEAN, nRtx : 0 .. MaxRetx - 1, ndi : BOOLEAN,
         alloc : SUBSET Prb, phich : BOOLEAN, pdcch : BOOLEAN]

Consistent(h) == h \in Proc /\ ~ (h.active /\ h.ack)

HasTriesLeft(h) == h.active => h.nRtx + 1 < MaxRetx

SettledIn(u) == HasTriesLeft(harq[u]) /\ (phich[u] = "ack" => ~ harq[u].active)

IInv ==
  /\ harq \in [Ues -> Proc]
  /\ allocs \in [Ues -> {NoGrant} \cup [alloc : SUBSET Prb, dci : BOOLEAN]]
  /\ \A u \in Ues : Consistent(harq[u])
  /\ phase = "alloc" => \A u \in Ues : SettledIn(u)

-----------------------------------------------------------------------------
\* What the methods of ul_harq_proc do to a consistent process.

\* new_tti(): a process that stays active has an opportunity left.
LEMMA NewTtiSettles ==
  ASSUME NEW h, Consistent(h)
  PROVE  Consistent(HarqNewTti(h)) /\ HasTriesLeft(HarqNewTti(h))
<1> h \in Proc /\ h.active \in BOOLEAN /\ h.ack \in BOOLEAN /\ h.nRtx \in Nat
  BY MaxRetxAssumption DEF Consistent, Proc
<1> DEFINE off == [h EXCEPT !.active = FALSE]
           reset == [h EXCEPT !.active = FALSE, !.pdcch = FALSE]
<1>1. off \in Proc /\ ~ off.active /\ reset \in Proc /\ ~ reset.active
  BY DEF Proc
<1>2. CASE HasPendingRetx(h) /\ LastTry(h)
  <2>1. HarqNewTti(h) \in {off, reset}
    BY <1>2 DEF HarqNewTti, ResetPendingData
  <2> QED  BY <1>1, <2>1 DEF Consistent, HasTriesLeft
<1>3. CASE ~ (HasPendingRetx(h) /\ LastTry(h))
  <2>1. HarqNewTti(h) = h
    BY <1>3 DEF HarqNewTti
  <2>2. h.active => h.nRtx + 1 < MaxRetx
    BY <1>3, MaxRetxAssumption DEF Consistent, HasPendingRetx, LastTry
  <2> QED  BY <2>1, <2>2 DEF HasTriesLeft
<1> QED  BY <1>2, <1>3

\* pop_pending_phich() and request_pdcch(): no process becomes active, and
\* neither its acknowledgement nor its counter changes.
LEMMA PhichSettles ==
  ASSUME NEW h, Consistent(h), HasTriesLeft(h)
  PROVE  /\ Consistent(PopPhich(h)) /\ HasTriesLeft(PopPhich(h))
         /\ Consistent(RequestPdcch(PopPhich(h)))
         /\ HasTriesLeft(RequestPdcch(PopPhich(h)))
         /\ RequestPdcch(PopPhich(h)).active = PopPhich(h).active
         /\ PopPhich(h).active => h.active
BY MaxRetxAssumption DEF Consistent, Proc, HasTriesLeft, PopPhich,
     RequestPdcch, ResetPendingData

\* new_tx(), new_retx() and retx_skipped(), which count one opportunity.
LEMMA CountingSettles ==
  ASSUME NEW h, NEW alloc \in SUBSET Prb, Consistent(h), HasTriesLeft(h)
  PROVE  /\ Consistent(NewTx(h, alloc))
         /\ h.active => Consistent(NewRetx(h, alloc)) /\ Consistent(RetxSkipped(h))
<1> h \in Proc /\ h.nRtx \in Nat /\ MaxRetx \in Nat \ {0}
  BY MaxRetxAssumption DEF Consistent, Proc
<1>1. Consistent(NewTx(h, alloc))
  BY DEF Consistent, Proc, NewTx
<1>2. SUFFICES ASSUME h.active
               PROVE  Consistent(NewRetx(h, alloc)) /\ Consistent(RetxSkipped(h))
  BY <1>1
<1>3. h.nRtx + 1 \in 0 .. MaxRetx - 1 /\ ~ h.ack
  BY <1>2 DEF HasTriesLeft, Consistent
<1>4. Consistent(NewRetx(h, alloc))
  BY <1>3 DEF Consistent, Proc, NewRetx
<1>5. Consistent(RetxSkipped(h))
  BY <1>3 DEF Consistent, Proc, RetxSkipped
<1> QED  BY <1>4, <1>5

\* set_ack(): a process is not both acknowledged and active afterwards.
LEMMA SetAckSettles ==
  ASSUME NEW h, NEW ok \in BOOLEAN, Consistent(h)
  PROVE  Consistent(SetAck(h, ok))
BY DEF Consistent, Proc, SetAck, ResetPendingData

\* alloc_phich() for all UEs: what it may do to a process.
LEMMA AfterPhichOutcomes ==
  ASSUME NEW h, NEW u
  PROVE  AfterPhich(h, u) \in {h[u], PopPhich(h[u]), RequestPdcch(PopPhich(h[u]))}
BY DEF AfterPhich

\* find_contiguous_ul_prbs() returns PRBs of the carrier.
LEMMA ContiguousInCarrier == \A len : Contiguous(len) \in SUBSET Prb
BY DEF Contiguous, FreeIntervals

-----------------------------------------------------------------------------
LEMMA InitInv == Init => IInv
<1> SUFFICES ASSUME Init PROVE IInv
  OBVIOUS
<1>1. EmptyProc \in Proc
  BY MaxRetxAssumption DEF EmptyProc, Proc
<1> QED  BY <1>1 DEF Init, IInv, Consistent, EmptyProc

\* The PHICHs of a TTI are made after the processes without an opportunity
\* left were ended, and an ACK belongs to a process that is not active.
LEMMA StartTtiInv == IInv /\ StartTti => IInv'
<1> SUFFICES ASSUME IInv, StartTti PROVE IInv'
  OBVIOUS
<1> DEFINE begun == [u \in Ues |-> HarqNewTti(harq[u])]
<1>1. ASSUME NEW u \in Ues
      PROVE  Consistent(begun[u]) /\ HasTriesLeft(begun[u])
  BY NewTtiSettles DEF IInv
<1>2. /\ harq' = [u \in Ues |-> AfterPhich(begun, u)]
      /\ phich' = [u \in Ues |-> PhichFor(begun, u)]
      /\ allocs' = allocs
  BY DEF StartTti
<1> HIDE DEF begun
<1>3. ASSUME NEW u \in Ues
      PROVE  /\ Consistent(harq'[u]) /\ HasTriesLeft(harq'[u])
             /\ harq'[u].active => begun[u].active
  BY <1>1, <1>2, PhichSettles, AfterPhichOutcomes
<1>4. ASSUME NEW u \in Ues, phich'[u] = "ack"
      PROVE  ~ harq'[u].active
  <2>1. begun[u].ack
    BY <1>2, <1>4 DEF PhichFor
  <2> QED  BY <2>1, <1>1, <1>3 DEF Consistent
<1>5. harq' \in [Ues -> Proc]
  BY <1>2, <1>3 DEF Consistent
<1> QED  BY <1>2, <1>3, <1>4, <1>5 DEF IInv, SettledIn, HasTriesLeft

\* An allocation touches neither processes nor PHICHs.
LEMMA AllocateInv ==
  ASSUME IInv, NEW u \in Ues, NEW alloc \in SUBSET Prb, NEW needs \in BOOLEAN,
         Allocate(u, alloc, needs) \/ Refuse,
         UNCHANGED <<harq, phase, phich>>
  PROVE  IInv'
<1>1. allocs' = allocs \/ allocs' = [allocs EXCEPT ![u] = [alloc |-> alloc, dci |-> needs]]
  BY DEF Allocate, Refuse
<1>2. allocs' \in [Ues -> {NoGrant} \cup [alloc : SUBSET Prb, dci : BOOLEAN]]
  BY <1>1 DEF IInv
<1> QED  BY <1>2 DEF IInv, SettledIn, HasTriesLeft

LEMMA AllocRetxInv == IInv /\ (\E u \in Ues : AllocRetx(u)) => IInv'
<1> SUFFICES ASSUME IInv, NEW u \in Ues, AllocRetx(u) PROVE IInv'
  OBVIOUS
<1> DEFINE same  == harq[u].alloc
           moved == Contiguous(Cardinality(same))
<1>1. same \in SUBSET Prb /\ harq[u].pdcch \in BOOLEAN
  BY DEF IInv, Proc
<1>2. moved \in SUBSET Prb
  BY ContiguousInCarrier
<1>3. /\ \/ Allocate(u, same, RetxRequiresPdcch(harq[u], same)) \/ Refuse
         \/ Allocate(u, moved, RetxRequiresPdcch(harq[u], moved))
      /\ UNCHANGED <<harq, phase, phich>>
  BY DEF AllocRetx
<1>4. ASSUME NEW alloc
      PROVE  RetxRequiresPdcch(harq[u], alloc) \in BOOLEAN
  BY <1>1 DEF RetxRequiresPdcch
<1> HIDE DEF same, moved
<1> QED  BY <1>1, <1>2, <1>3, <1>4, AllocateInv

LEMMA AllocNewTxInv == IInv /\ (\E u \in Ues : AllocNewTx(u)) => IInv'
<1> SUFFICES ASSUME IInv, NEW u \in Ues, AllocNewTx(u) PROVE IInv'
  OBVIOUS
<1>1. PICK want : Refuse \/ Allocate(u, Contiguous(want), TRUE)
  BY DEF AllocNewTx
<1>2. UNCHANGED <<harq, phase, phich>>
  BY DEF AllocNewTx
<1> QED  BY <1>1, <1>2, ContiguousInCarrier, AllocateInv

\* Every active process has an opportunity left when it is counted.
LEMMA GenerateResultsInv == IInv /\ GenerateResults => IInv'
<1> SUFFICES ASSUME IInv, GenerateResults PROVE IInv'
  OBVIOUS
<1>1. /\ harq' = [u \in Ues |-> AfterResults(u)]
      /\ allocs' = [u \in Ues |-> NoGrant]
      /\ phase = "alloc" /\ phase' = "dl"
  BY DEF GenerateResults
<1>2. ASSUME NEW u \in Ues
      PROVE  Consistent(harq'[u])
  <2>1. Consistent(harq[u]) /\ HasTriesLeft(harq[u])
    BY <1>1 DEF IInv, SettledIn
  <2>2. IsUlAlloc(u) => allocs[u].alloc \in SUBSET Prb
    BY DEF IInv, IsUlAlloc
  <2> QED  BY <1>1, <2>1, <2>2, CountingSettles DEF AfterResults
<1>3. harq' \in [Ues -> Proc]
  BY <1>1, <1>2 DEF Consistent
<1> QED  BY <1>1, <1>2, <1>3 DEF IInv

LEMMA DecodePuschInv == IInv /\ DecodePusch => IInv'
<1> SUFFICES ASSUME IInv, DecodePusch PROVE IInv'
  OBVIOUS
<1>1. PICK good :
        harq' = [u \in Ues |-> IF u \in {v \in Ues : grants[v] # NoGrant}
                               THEN SetAck(harq[u], u \in good) ELSE harq[u]]
  BY DEF DecodePusch
<1>2. phase' = "tti" /\ allocs' = allocs
  BY DEF DecodePusch
<1>3. ASSUME NEW u \in Ues
      PROVE  Consistent(harq'[u])
  <2>1. Consistent(harq[u]) /\ (u \in good) \in BOOLEAN
    BY DEF IInv
  <2>2. Consistent(SetAck(harq[u], u \in good))
    BY <2>1, SetAckSettles
  <2>3. harq'[u] \in {harq[u], SetAck(harq[u], u \in good)}
    BY <1>1
  <2> QED  BY <2>1, <2>2, <2>3
<1>4. harq' \in [Ues -> Proc]
  BY <1>1, <1>3 DEF Consistent
<1> QED  BY <1>2, <1>3, <1>4 DEF IInv

LEMMA NextInv == IInv /\ [Next]_vars => IInv'
<1> SUFFICES ASSUME IInv, [Next]_vars PROVE IInv'
  OBVIOUS
<1>1. CASE UesTransmit
  BY <1>1 DEF UesTransmit, IInv
<1>2. CASE FadingEnds
  BY <1>2 DEF FadingEnds, IInv
<1>3. CASE UNCHANGED vars
  BY <1>3 DEF vars, IInv, SettledIn, HasTriesLeft
<1> QED  BY <1>1, <1>2, <1>3, StartTtiInv, AllocRetxInv, AllocNewTxInv,
            GenerateResultsInv, DecodePuschInv DEF Next

LEMMA Invariant == Spec => []IInv
BY InitInv, NextInv, PTL DEF Spec

\* The assertion of generate_sched_results never fails: an active process
\* that is not retransmitted has no ACK in the PHICH list.
THEOREM AssertionHolds == Spec => []SkippedWasNack
<1>1. IInv => SkippedWasNack
  BY DEF IInv, SettledIn, SkippedWasNack, MissedRetx
<1> QED  BY <1>1, Invariant, PTL

\* No process counts more opportunities than maxharq_tx allows, transmissions
\* and skipped retransmissions together (new_tti, new_retx, retx_skipped).
THEOREM OpportunitiesBounded == Spec => [](\A u \in Ues : harq[u].nRtx < MaxRetx)
<1>1. IInv => \A u \in Ues : harq[u].nRtx < MaxRetx
  BY MaxRetxAssumption DEF IInv, Proc
<1> QED  BY <1>1, Invariant, PTL

---------------------------------------------------------------------------
UeProc ==
  [has : BOOLEAN, ndi : BOOLEAN, tbs : Sizes, nb : 0 .. NbBound,
   feedback : BOOLEAN, irv : 0 .. 3, rv : 0 .. 3, lastTbs : Sizes,
   ackFor : SUBSET Prb, pdu : {"none", "new", "delivered"}]

Dcis == [mcs : {"first", "28", "reserved"}, ndi : BOOLEAN,
         prbs : (SUBSET Prb) \ {{}}, rv : 0 .. 3]

Puschs == [prbs : SUBSET Prb, tbs : Sizes, rv : 0 .. 3, new : BOOLEAN]

-----------------------------------------------------------------------------
(* The UE                                                                  *)

LEMMA PrbsCounted ==
  ASSUME NEW prbs \in (SUBSET Prb) \ {{}}
  PROVE  Cardinality(prbs) \in 1 .. NofPrb
<1>1. NofPrb \in Nat /\ Prb = 0 .. NofPrb - 1
  BY PrbAssumption DEF Prb
<1>2. IsFiniteSet(Prb) /\ Cardinality(Prb) = NofPrb
  <2>1. NofPrb - 1 \in Int /\ 0 \in Int
    BY <1>1
  <2>2. IsFiniteSet(0 .. NofPrb - 1)
        /\ Cardinality(0 .. NofPrb - 1) =
             IF 0 > NofPrb - 1 THEN 0 ELSE NofPrb - 1 - 0 + 1
    BY <2>1, FS_Interval
  <2> QED
    BY <1>1, <2>2
<1>3. IsFiniteSet(prbs) /\ Cardinality(prbs) <= NofPrb /\ Cardinality(prbs) \in Nat
  BY <1>2, FS_Subset, FS_CardinalityType
<1>4. Cardinality(prbs) # 0
  <2>1. prbs # {}
    OBVIOUS
  <2> QED
    BY <1>3, <2>1, FS_EmptySet
<1> QED
  BY <1>1, <1>3, <1>4

\* Every method of ul_harq_process keeps the type of the process.
LEMMA UeMethodTypes ==
  ASSUME NEW s \in UeProc
  PROVE  /\ ResetUe(s) \in UeProc
         /\ [s EXCEPT !.ackFor = {}] \in UeProc
         /\ \A prbs \in SUBSET Prb : Transmitted(s, prbs) \in UeProc
         /\ \A prbs \in SUBSET Prb, new \in BOOLEAN : Pusch(s, prbs, new) \in Puschs
         /\ \A d \in Dcis : TbsOf(s, d) \in Sizes /\ Granted(s, d) \in UeProc
<1> USE DEF UeProc
<1>1. ResetUe(s) \in UeProc
  <2>1. NoTbs \in Sizes /\ 0 \in 0 .. NbBound /\ 0 \in 0 .. 3
    BY MaxRetxAssumption DEF NbBound, Sizes
  <2> HIDE DEF NoTbs
  <2> QED
    BY <2>1 DEF ResetUe
<1>2. [s EXCEPT !.ackFor = {}] \in UeProc
  OBVIOUS
<1>3. ASSUME NEW prbs \in SUBSET Prb PROVE Transmitted(s, prbs) \in UeProc
  <2> DEFINE nb == IF s.nb < NbBound THEN s.nb + 1 ELSE s.nb
             irv == (s.irv + 1) % 4
  <2>1. nb \in 0 .. NbBound /\ irv \in 0 .. 3
    BY MaxRetxAssumption DEF NbBound
  <2>2. Transmitted(s, prbs) = [s EXCEPT !.nb = nb, !.irv = irv, !.ackFor = prbs]
    BY DEF Transmitted
  <2> HIDE DEF nb, irv
  <2> QED
    BY <2>1, <2>2
<1>4. ASSUME NEW prbs \in SUBSET Prb, NEW new \in BOOLEAN
      PROVE  Pusch(s, prbs, new) \in Puschs
  BY DEF Pusch, Puschs, RvOf
<1>5. ASSUME NEW d \in Dcis PROVE TbsOf(s, d) \in Sizes /\ Granted(s, d) \in UeProc
  <2>1. TbsOf(s, d) \in Sizes
    <3>1. d.prbs \in (SUBSET Prb) \ {{}} /\ d.mcs \in {"first", "28", "reserved"}
      BY DEF Dcis
    <3>2. Cardinality(d.prbs) \in 1 .. NofPrb
      BY <3>1, PrbsCounted
    <3> QED
      BY <3>1, <3>2 DEF TbsOf, Sizes
  <2> DEFINE tbs == TbsOf(s, d)
  <2> HIDE DEF tbs
  <2>2. Granted(s, d) = [s EXCEPT !.has = TRUE, !.ndi = d.ndi, !.tbs = tbs,
                           !.lastTbs = tbs, !.rv = d.rv, !.feedback = FALSE]
    BY DEF Granted, tbs
  <2>3. d.ndi \in BOOLEAN /\ d.rv \in 0 .. 3
    BY DEF Dcis
  <2> QED
    BY ZenonT(40), <2>1, <2>2, <2>3 DEF tbs
<1> QED
  BY <1>1, <1>2, <1>3, <1>4, <1>5

Hearings == {"none", "ack", "nack"}

\* What new_grant_ul does before it looks at the grant: the process is reset,
\* or keeps its NDI and its counter.
LEMMA BeforeTxFacts ==
  ASSUME NEW s \in UeProc, NEW d \in Dcis \cup {NoDci}, NEW hi \in Hearings
  PROVE  LET b == BeforeTx(s, d, hi)
         IN  /\ b \in UeProc
             /\ \/ ~ b.has /\ b.nb = 0
                \/ b.has = s.has /\ b.ndi = s.ndi /\ b.nb = s.nb
             /\ IsNonAdaptive(b, d, hi) => b.nb < MaxRetx
<1> DEFINE b1 == HarqFeedback(s, d, hi)
           b2 == MaxReached(b1, hi)
           b == TbChanged(b2, d)
<1>0. BeforeTx(s, d, hi) = b
  BY DEF BeforeTx
<1>1. b1 \in UeProc /\ b1.has = s.has /\ b1.ndi = s.ndi /\ b1.nb = s.nb
  <2> DEFINE f == hi = "ack" /\ ~ (d # NoDci /\ d.ndi = s.ndi)
  <2>1. f \in BOOLEAN
    OBVIOUS
  <2>2. b1 = IF hi = "none" THEN s ELSE [s EXCEPT !.feedback = f]
    BY DEF HarqFeedback
  <2> HIDE DEF f, b1
  <2> QED
    BY <2>1, <2>2 DEF UeProc
<1>2. hi # "none" /\ d = NoDci /\ ~ b1.feedback => hi = "nack"
  BY DEF HarqFeedback, UeProc, Hearings
<1> HIDE DEF b1
<1>3. b2 \in {b1, ResetUe(b1)} /\ (hi = "nack" /\ b1.nb >= MaxRetx => b2 = ResetUe(b1))
  BY DEF MaxReached
<1> HIDE DEF b2
<1>4. b2 \in UeProc
  BY <1>1, <1>3, UeMethodTypes
<1>5. b \in {b2, ResetUe(b2)} /\ (d = NoDci => b = b2)
  BY DEF TbChanged
<1>6. b \in UeProc
  BY <1>4, <1>5, UeMethodTypes
<1>7. ASSUME NEW r \in UeProc
      PROVE  ~ ResetUe(r).has /\ ResetUe(r).nb = 0 /\ ResetUe(r).feedback = r.feedback
  BY DEF ResetUe, UeProc
<1> HIDE DEF b
<1>8. \/ ~ b.has /\ b.nb = 0
      \/ b.has = s.has /\ b.ndi = s.ndi /\ b.nb = s.nb
  BY <1>1, <1>3, <1>4, <1>5, <1>7
<1>9. IsNonAdaptive(b, d, hi) => b.nb < MaxRetx
  <2> SUFFICES ASSUME d = NoDci, hi # "none", b.has, ~ b.feedback
               PROVE  b.nb < MaxRetx
    BY DEF IsNonAdaptive
  <2>1. b = b2 /\ b2 = b1
    BY <1>1, <1>3, <1>5, <1>7
  <2>2. hi = "nack" /\ ~ (b1.nb >= MaxRetx)
    BY <1>1, <1>2, <1>3, <1>7, <2>1
  <2>3. b1.nb \in Nat
    BY <1>1, MaxRetxAssumption DEF UeProc, NbBound
  <2> QED
    BY <2>1, <2>2, <2>3, MaxRetxAssumption
<1> QED
  BY <1>0, <1>6, <1>8, <1>9

\* What the UE does with a PHICH and a DCI. Without a DCI it keeps the NDI it
\* has, and transmits once more only if its counter allows. With a DCI it takes
\* the NDI of the grant, or does nothing.
LEMMA ReactFacts ==
  ASSUME NEW s \in UeProc, NEW d \in Dcis \cup {NoDci}, NEW hi \in Hearings
  PROVE  LET e == React(s, d, hi).ue
         IN  /\ e \in UeProc
             /\ React(s, d, hi).tx \in {NoTx} \cup Puschs
             /\ d = NoDci =>
                  /\ e.has => s.has /\ e.ndi = s.ndi
                  /\ e.nb <= s.nb + 1
                  /\ e.nb <= s.nb \/ e.nb <= MaxRetx
             /\ d # NoDci =>
                  /\ e.has => e.ndi = d.ndi \/ (s.has /\ e.ndi = s.ndi)
                  /\ e.nb <= s.nb + 1
                  /\ (s.has => s.ndi # d.ndi) /\ d.mcs # "reserved" =>
                       e.ndi = d.ndi /\ e.nb <= 1
<1> DEFINE b == BeforeTx(s, d, hi)
           quiet == [b EXCEPT !.ackFor = {}]
           begun == [ResetUe(b) EXCEPT !.pdu = "new"]
           new == Granted(begun, d)
           again == [b EXCEPT !.irv = IF d.rv # 0 THEN d.rv ELSE @]
           adapt == Granted(again, d)
<1>1. /\ b \in UeProc
      /\ \/ ~ b.has /\ b.nb = 0
         \/ b.has = s.has /\ b.ndi = s.ndi /\ b.nb = s.nb
      /\ IsNonAdaptive(b, d, hi) => b.nb < MaxRetx
  BY BeforeTxFacts
<1>2. React(s, d, hi) =
        IF d.mcs = "reserved" /\ s.lastTbs = NoTbs
        THEN [ue |-> [s EXCEPT !.ackFor = {}], tx |-> NoTx]
        ELSE IF IsNewTx(b, d)
        THEN [ue |-> Transmitted(new, d.prbs), tx |-> Pusch(new, d.prbs, TRUE)]
        ELSE IF IsAdaptive(b, d)
        THEN [ue |-> [Transmitted(adapt, d.prbs) EXCEPT !.rv = 0],
              tx |-> Pusch(adapt, d.prbs, FALSE)]
        ELSE IF IsNonAdaptive(b, d, hi)
        THEN [ue |-> Transmitted(b, s.ackFor), tx |-> Pusch(b, s.ackFor, FALSE)]
        ELSE [ue |-> quiet, tx |-> NoTx]
  BY DEF React
<1> HIDE DEF b
<1>b. s.nb \in Nat /\ b.nb \in Nat /\ b.nb <= s.nb
      /\ MaxRetx \in Nat /\ NbBound = MaxRetx + 1
  BY <1>1, MaxRetxAssumption DEF UeProc, NbBound
<1>c. ASSUME NEW r \in UeProc, NEW prbs
      PROVE  /\ Transmitted(r, prbs).has = r.has /\ Transmitted(r, prbs).ndi = r.ndi
             /\ Transmitted(r, prbs).nb <= r.nb + 1
  BY <1>b DEF Transmitted, UeProc
<1>3. CASE d.mcs = "reserved" /\ s.lastTbs = NoTbs
  <2> DEFINE e == [s EXCEPT !.ackFor = {}]
  <2>1. e \in UeProc /\ e.has = s.has /\ e.ndi = s.ndi /\ e.nb = s.nb
    BY DEF UeProc
  <2>2. React(s, d, hi) = [ue |-> e, tx |-> NoTx]
    BY <1>2, <1>3
  <2> HIDE DEF e
  <2> QED
    BY <1>3, <1>b, <2>1, <2>2 DEF NoDci
<1>4. CASE ~ (d.mcs = "reserved" /\ s.lastTbs = NoTbs) /\ IsNewTx(b, d)
  <2>1. d # NoDci /\ d \in Dcis /\ d.prbs \in SUBSET Prb
    BY <1>4 DEF IsNewTx, Dcis
  <2>2. begun \in UeProc /\ begun.nb = 0
    <3>1. ResetUe(b) \in UeProc /\ ResetUe(b).nb = 0
      BY ZenonT(40), <1>1, UeMethodTypes DEF ResetUe, UeProc
    <3> HIDE DEF b
    <3> QED
      BY <3>1 DEF UeProc
  <2> HIDE DEF begun
  <2>3. new \in UeProc /\ new.has /\ new.ndi = d.ndi /\ new.nb = 0
    <3>1. new \in UeProc
      BY <2>1, <2>2, UeMethodTypes
    <3> QED
      BY <2>2, <3>1 DEF Granted, UeProc
  <2> HIDE DEF new
  <2> DEFINE e == Transmitted(new, d.prbs)
             x == Pusch(new, d.prbs, TRUE)
  <2>4. /\ e \in UeProc /\ e.ndi = d.ndi /\ e.nb <= 1
        /\ x \in Puschs
    <3>1. e.ndi = d.ndi /\ e.nb <= 0 + 1
      BY <1>c, <2>3
    <3>2. e \in UeProc
      BY <2>1, <2>3, UeMethodTypes
    <3>3. TRUE \in BOOLEAN
      OBVIOUS
    <3>4. x \in Puschs
      BY <2>1, <2>3, <3>3, UeMethodTypes
    <3>5. e.ndi = d.ndi
      BY <3>1
    <3>6. e.nb <= 1
      <4>1. e.nb \in Nat
        BY <1>b, <3>2 DEF UeProc
      <4> HIDE DEF e
      <4> QED
        BY <3>1, <4>1
    <3> QED
      BY <3>2, <3>4, <3>5, <3>6
  <2>5. React(s, d, hi) = [ue |-> e, tx |-> x]
    BY <1>2, <1>4
  <2> HIDE DEF e, x
  <2>6. e.nb <= s.nb + 1
    BY <1>b, <2>4, MaxRetxAssumption DEF UeProc, NbBound
  <2> QED
    BY <2>1, <2>4, <2>5, <2>6
<1>5. CASE /\ ~ (d.mcs = "reserved" /\ s.lastTbs = NoTbs)
           /\ ~ IsNewTx(b, d) /\ IsAdaptive(b, d)
  <2>1. d # NoDci /\ d \in Dcis /\ d.prbs \in SUBSET Prb /\ d.ndi = b.ndi /\ b.has
    BY <1>5 DEF IsAdaptive, IsNewTx, Dcis
  <2>2. again \in UeProc /\ again.nb = b.nb
    <3>1. d.rv \in 0 .. 3
      BY <2>1 DEF Dcis
    <3> QED
      BY <1>1, <3>1 DEF UeProc
  <2> HIDE DEF again
  <2>3. adapt \in UeProc /\ adapt.has /\ adapt.ndi = d.ndi /\ adapt.nb = b.nb
    BY ZenonT(40), <2>1, <2>2, UeMethodTypes DEF Granted, UeProc
  <2> HIDE DEF adapt
  <2> DEFINE t == Transmitted(adapt, d.prbs)
             e == [t EXCEPT !.rv = 0]
             x == Pusch(adapt, d.prbs, FALSE)
  <2>4. /\ t \in UeProc /\ t.ndi = d.ndi /\ t.nb <= b.nb + 1
        /\ x \in Puschs
    BY <1>c, <2>1, <2>3, UeMethodTypes
  <2>5. React(s, d, hi) = [ue |-> e, tx |-> x]
    BY <1>2, <1>5
  <2> HIDE DEF t, x
  <2>6. e \in UeProc /\ e.ndi = d.ndi /\ e.nb <= b.nb + 1
    BY <2>4 DEF UeProc
  <2>7. e.nb <= s.nb + 1
    BY <1>b, <2>6, MaxRetxAssumption DEF UeProc, NbBound
  <2>8. s.has /\ s.ndi = d.ndi
    BY <1>1, <2>1
  <2> HIDE DEF e
  <2> QED
    BY <2>1, <2>4, <2>5, <2>6, <2>7, <2>8
<1>6. CASE /\ ~ (d.mcs = "reserved" /\ s.lastTbs = NoTbs)
           /\ ~ IsNewTx(b, d) /\ ~ IsAdaptive(b, d) /\ IsNonAdaptive(b, d, hi)
  <2>1. d = NoDci /\ b.has /\ b.nb < MaxRetx /\ s.ackFor \in SUBSET Prb
    BY <1>1, <1>6 DEF IsNonAdaptive, UeProc
  <2> DEFINE e == Transmitted(b, s.ackFor)
             x == Pusch(b, s.ackFor, FALSE)
  <2>2. /\ e \in UeProc /\ e.ndi = b.ndi /\ e.nb <= b.nb + 1
        /\ x \in Puschs
    BY <1>1, <1>c, <2>1, UeMethodTypes
  <2>3. React(s, d, hi) = [ue |-> e, tx |-> x]
    BY <1>2, <1>6
  <2> HIDE DEF e, x
  <2>4. e.nb <= s.nb + 1 /\ e.nb <= MaxRetx
    BY <1>b, <2>1, <2>2, MaxRetxAssumption DEF UeProc, NbBound
  <2>5. s.has /\ e.ndi = s.ndi
    BY <1>1, <2>1, <2>2
  <2> QED
    BY <2>1, <2>2, <2>3, <2>4, <2>5
<1>7. CASE /\ ~ (d.mcs = "reserved" /\ s.lastTbs = NoTbs)
           /\ ~ IsNewTx(b, d) /\ ~ IsAdaptive(b, d) /\ ~ IsNonAdaptive(b, d, hi)
  <2>1. d = NoDci
    BY <1>7 DEF IsAdaptive
  <2>2. quiet \in UeProc /\ quiet.has = b.has /\ quiet.ndi = b.ndi /\ quiet.nb = b.nb
    BY <1>1 DEF UeProc
  <2>3. React(s, d, hi) = [ue |-> quiet, tx |-> NoTx]
    BY <1>2, <1>7
  <2> HIDE DEF quiet
  <2> QED
    BY <1>1, <1>b, <2>1, <2>2, <2>3
<1> QED
  BY <1>3, <1>4, <1>5, <1>6, <1>7

-----------------------------------------------------------------------------
(* The invariant. TypeInv is what the definition of TypeOK adds to IInv,   *)
(* with grants that are never empty. StepInv relates the two sides for a   *)
(* UE that receives its DCIs: it has the NDI of the eNB's process, except  *)
(* between the grant of a new block and its answer, and it has transmitted *)
(* no more often than the eNB has counted.                                 *)

Alloc == [alloc : (SUBSET Prb) \ {{}}, dci : BOOLEAN]
FullGrant ==
  [alloc : (SUBSET Prb) \ {{}}, dci : BOOLEAN, retx : BOOLEAN, rv : 0 .. 3,
   mcs : {"first", "28", "reserved"}, ndi : BOOLEAN, tbs : Sizes]

TypeInv ==
  /\ enbTbs \in [Ues -> Sizes]
  /\ ue \in [Ues -> UeProc]
  /\ fading \in BOOLEAN
  /\ gapKind \in [Ues -> GapKinds]
  /\ cycle \in 0 .. GapCycles - 1
  /\ phase \in {"tti", "alloc", "dl", "ul"}
  /\ queue \in SUBSET Ues
  /\ ulMask \in SUBSET Prb
  /\ allocs \in [Ues -> {NoGrant} \cup Alloc]
  /\ phich \in [Ues -> {"none", "ack", "nack"}]
  /\ grants \in [Ues -> {NoGrant} \cup FullGrant]
  /\ pusch \in [Ues -> {NoTx} \cup Puschs]

\* A process holds the PRBs it was last granted, and only a retransmission
\* goes without a DCI.
AllocInv ==
  /\ \A u \in Ues : harq[u].active => harq[u].alloc # {}
  /\ phase # "alloc" => \A u \in Ues : allocs[u] = NoGrant
  /\ \A u \in Ues : allocs[u] # NoGrant => harq[u].active \/ allocs[u].dci

GrantOf(u) ==
  phase = "dl" /\ grants[u] # NoGrant =>
    /\ harq[u].active /\ grants[u].ndi = harq[u].ndi
    /\ ~ grants[u].retx => grants[u].dci /\ grants[u].mcs = "first"

\* How often the UE may have transmitted the eNB's block
CountOf(u) == IF phase = "dl" THEN harq[u].nRtx ELSE harq[u].nRtx + 1

InStep(u) ==
  /\ GrantOf(u)
  /\ ue[u].has => (BeginsWith(u) <=> ue[u].ndi # harq[u].ndi)
  /\ ue[u].nb <= MaxRetx
  /\ harq[u].active /\ ~ BeginsWith(u) => ue[u].nb <= CountOf(u)

StepInv == \A u \in Ues : gapKind[u] # "fading" => InStep(u)

UInv == IInv /\ TypeInv /\ AllocInv /\ StepInv

\* Numbers of a process, for arithmetic
LEMMA ProcNumbers ==
  ASSUME UInv, NEW u \in Ues
  PROVE  /\ MaxRetx \in Nat /\ harq[u].nRtx \in Nat /\ harq[u].nRtx + 1 <= MaxRetx
         /\ ue[u].nb \in Nat
<1>1. harq[u] \in Proc /\ ue[u] \in UeProc
  BY DEF UInv, IInv, TypeInv
<1>2. harq[u].nRtx \in 0 .. MaxRetx - 1
  BY <1>1 DEF Proc
<1>3. ue[u].nb \in 0 .. MaxRetx + 1
  BY <1>1 DEF UeProc, NbBound
<1> QED
  BY <1>2, <1>3, MaxRetxAssumption

LEMMA InitUInv == Init => UInv
<1> SUFFICES ASSUME Init PROVE UInv
  OBVIOUS
<1>1. IInv
  BY InitInv
<1>2. FreshUe \in UeProc /\ NoTbs \in Sizes
  <2>1. NoTbs \in Sizes /\ 0 \in 0 .. NbBound /\ 0 \in 0 .. 3
    BY MaxRetxAssumption DEF NbBound, Sizes
  <2> HIDE DEF NoTbs
  <2> QED
    BY <2>1 DEF FreshUe, UeProc
<1>3. cycle \in 0 .. GapCycles - 1
  BY GapAssumption DEF Init
<1>4. TypeInv
  <2>1. fading \in BOOLEAN
    BY DEF Init
  <2> HIDE DEF NoTbs
  <2> QED
    BY <1>2, <1>3, <2>1 DEF Init, TypeInv
<1>5. AllocInv
  BY DEF Init, AllocInv, EmptyProc
<1>6. StepInv
  <2> SUFFICES ASSUME NEW u \in Ues PROVE InStep(u)
    BY DEF StepInv
  <2>1. /\ ue[u].has = FALSE /\ ue[u].nb = 0
        /\ harq[u].active = FALSE /\ phase = "tti"
    BY DEF Init, FreshUe, EmptyProc
  <2> QED
    BY <2>1, MaxRetxAssumption DEF InStep, GrantOf
<1> QED
  BY <1>1, <1>4, <1>5, <1>6 DEF UInv

\* What the PHICHs of a TTI and set_ack() leave as it is
Keeps(h, g) ==
  g.ndi = h.ndi /\ g.nRtx = h.nRtx /\ g.alloc = h.alloc /\ (g.active => h.active)

LEMMA MethodsKeep ==
  ASSUME NEW h \in Proc, NEW ok \in BOOLEAN
  PROVE  /\ Keeps(h, HarqNewTti(h)) /\ Keeps(h, PopPhich(h))
         /\ Keeps(h, RequestPdcch(h)) /\ Keeps(h, SetAck(h, ok))
<1>1. Keeps(h, HarqNewTti(h))
  BY DEF Keeps, Proc, HarqNewTti, ResetPendingData
<1>2. Keeps(h, PopPhich(h))
  BY DEF Keeps, Proc, PopPhich, ResetPendingData
<1>3. Keeps(h, RequestPdcch(h))
  BY DEF Keeps, Proc, RequestPdcch
<1>4. Keeps(h, SetAck(h, ok))
  BY DEF Keeps, Proc, SetAck, ResetPendingData
<1> QED
  BY <1>1, <1>2, <1>3, <1>4

LEMMA StartTtiUInv == UInv /\ StartTti => UInv'
<1> SUFFICES ASSUME UInv, StartTti PROVE UInv'
  OBVIOUS
<1>1. IInv'
  BY StartTtiInv DEF UInv
<1> DEFINE begun == [u \in Ues |-> HarqNewTti(harq[u])]
<1>2. /\ harq' = [u \in Ues |-> AfterPhich(begun, u)]
      /\ phich' = [u \in Ues |-> PhichFor(begun, u)]
      /\ queue' = {u \in Ues : InQueue(harq'[u], u)}
      /\ ulMask' \in Reserved
      /\ phase = "tti" /\ phase' = "alloc"
      /\ UNCHANGED <<enbTbs, ue, fading, gapKind, cycle, allocs, grants, pusch>>
  BY DEF StartTti
<1>3. ASSUME NEW u \in Ues
      PROVE  Keeps(harq[u], harq'[u])
  <2>1. Consistent(harq[u]) /\ harq[u] \in Proc
    BY DEF UInv, IInv
  <2>2. Consistent(begun[u]) /\ HasTriesLeft(begun[u]) /\ begun[u] \in Proc
    BY <2>1, NewTtiSettles DEF Consistent
  <2>3. Keeps(harq[u], begun[u])
    BY <2>1, MethodsKeep
  <2> HIDE DEF begun
  <2> DEFINE p == PopPhich(begun[u])
  <2>4. p \in Proc
    BY <2>2, PhichSettles DEF Consistent
  <2>5. Keeps(begun[u], p)
    BY <2>2, MethodsKeep
  <2> HIDE DEF p
  <2>6. Keeps(p, RequestPdcch(p))
    BY <2>4, MethodsKeep
  <2>7. harq'[u] \in {begun[u], p, RequestPdcch(p)}
    BY <1>2, AfterPhichOutcomes DEF p
  <2> QED
    BY <2>3, <2>5, <2>6, <2>7 DEF Keeps
<1>4. TypeInv'
  <2>1. phich' \in [Ues -> {"none", "ack", "nack"}]
    BY <1>2 DEF PhichFor
  <2>2. queue' \in SUBSET Ues /\ ulMask' \in SUBSET Prb
    BY <1>2, PrbAssumption DEF Prb
  <2> QED
    BY <1>2, <2>1, <2>2 DEF UInv, TypeInv
<1>5. AllocInv'
  <2>1. \A u \in Ues : allocs'[u] = NoGrant
    BY <1>2 DEF UInv, AllocInv
  <2>2. \A u \in Ues : harq'[u].active => harq'[u].alloc # {}
    BY <1>3 DEF UInv, AllocInv, Keeps
  <2> QED
    BY <1>2, <2>1, <2>2 DEF AllocInv
<1>6. StepInv'
  <2> SUFFICES ASSUME NEW u \in Ues, gapKind[u] # "fading"
               PROVE  InStep(u)'
    BY <1>2 DEF StepInv
  <2>1. InStep(u)
    BY DEF UInv, StepInv
  <2> QED
    BY <1>2, <1>3, <2>1 DEF InStep, GrantOf, CountOf, BeginsWith, Keeps
<1> QED
  BY <1>1, <1>4, <1>5, <1>6 DEF UInv

-----------------------------------------------------------------------------
(* Allocations                                                             *)

LEMMA AllocateUInv ==
  ASSUME UInv, NEW u \in Ues, NEW alloc \in (SUBSET Prb) \ {{}}, NEW needs \in BOOLEAN,
         harq[u].active \/ needs,
         Allocate(u, alloc, needs) \/ Refuse,
         phase = "alloc", queue' = queue \ {u},
         UNCHANGED <<harq, enbTbs, ue, fading, gapKind, cycle, phase, phich, grants,
                     pusch>>
  PROVE  UInv'
<1>1. IInv'
  BY AllocateInv DEF UInv
<1> DEFINE new == [alloc |-> alloc, dci |-> needs]
<1>2. new \in Alloc /\ new.dci = needs
  BY DEF Alloc
<1>3. \/ allocs' = [allocs EXCEPT ![u] = new] /\ ulMask' = ulMask \cup alloc
      \/ allocs' = allocs /\ ulMask' = ulMask
  BY DEF Allocate, Refuse
<1> HIDE DEF new
<1>4. TypeInv'
  <2>1. allocs' \in [Ues -> {NoGrant} \cup Alloc]
    BY <1>2, <1>3 DEF UInv, TypeInv
  <2>2. ulMask' \in SUBSET Prb /\ queue' \in SUBSET Ues
    BY <1>3 DEF UInv, TypeInv
  <2> QED
    BY <2>1, <2>2 DEF UInv, TypeInv
<1>5. AllocInv'
  <2>1. ASSUME NEW v \in Ues, allocs'[v] # NoGrant
        PROVE  harq[v].active \/ allocs'[v].dci
    <3>1. allocs'[v] = allocs[v] \/ (v = u /\ allocs'[v] = new)
      BY <1>3 DEF UInv, TypeInv
    <3> QED
      BY <1>2, <2>1, <3>1 DEF UInv, AllocInv
  <2> QED
    BY <2>1 DEF UInv, AllocInv
<1>6. StepInv'
  BY DEF UInv, StepInv, InStep, GrantOf, CountOf, BeginsWith
<1> QED
  BY <1>1, <1>4, <1>5, <1>6 DEF UInv

LEMMA AllocRetxUInv == UInv /\ (\E u \in Ues : AllocRetx(u)) => UInv'
<1> SUFFICES ASSUME UInv, NEW u \in Ues, AllocRetx(u) PROVE UInv'
  OBVIOUS
<1> DEFINE same  == harq[u].alloc
           moved == Contiguous(Cardinality(same))
<1>1. harq[u] \in Proc /\ harq[u].active
  BY DEF UInv, IInv, AllocRetx, HasPendingRetx
<1>2. same \in (SUBSET Prb) \ {{}}
  <2>1. same \in SUBSET Prb
    BY <1>1 DEF Proc
  <2>2. same # {}
    BY <1>1 DEF UInv, AllocInv
  <2> QED
    BY <2>1, <2>2
<1>3. moved \in SUBSET Prb
  BY ContiguousInCarrier
<1>4. Cardinality(moved) = Cardinality(same) => moved \in (SUBSET Prb) \ {{}}
  <2>1. Cardinality(same) # 0
    BY <1>2, PrbsCounted
  <2>2. Cardinality({}) = 0
    BY FS_EmptySet
  <2>3. Cardinality(moved) = Cardinality(same) => moved # {}
    BY <2>1, <2>2
  <2> QED
    BY <1>3, <2>3
<1>5. ASSUME NEW alloc
      PROVE  RetxRequiresPdcch(harq[u], alloc) \in BOOLEAN
  BY <1>1 DEF RetxRequiresPdcch, Proc
<1>6. /\ \/ Allocate(u, same, RetxRequiresPdcch(harq[u], same))
         \/ Refuse
         \/ /\ Cardinality(moved) = Cardinality(same)
            /\ Allocate(u, moved, RetxRequiresPdcch(harq[u], moved))
      /\ phase = "alloc" /\ queue' = queue \ {u}
      /\ UNCHANGED <<harq, enbTbs, ue, fading, gapKind, cycle, phase, phich, grants,
                     pusch>>
  BY DEF AllocRetx
<1> HIDE DEF same, moved
<1> QED
  BY <1>1, <1>2, <1>4, <1>5, <1>6, AllocateUInv

LEMMA AllocNewTxUInv == UInv /\ (\E u \in Ues : AllocNewTx(u)) => UInv'
<1> SUFFICES ASSUME UInv, NEW u \in Ues, AllocNewTx(u) PROVE UInv'
  OBVIOUS
<1>1. /\ phase = "alloc" /\ queue' = queue \ {u}
      /\ UNCHANGED <<harq, enbTbs, ue, fading, gapKind, cycle, phase, phich, grants,
                     pusch>>
  BY DEF AllocNewTx
<1>2. \/ Refuse
      \/ \E want \in Wants : /\ Contiguous(want) # {}
                             /\ Allocate(u, Contiguous(want), TRUE)
  BY DEF AllocNewTx
<1>3. TRUE \in BOOLEAN
  OBVIOUS
<1>4. CASE Refuse
  <2> UNCHANGED <<allocs, ulMask>>
    BY <1>4 DEF Refuse
  <2>1. IInv'
    BY <1>1 DEF UInv, IInv, SettledIn, HasTriesLeft
  <2>2. TypeInv'
    BY <1>1 DEF UInv, TypeInv
  <2>3. AllocInv'
    BY <1>1 DEF UInv, AllocInv
  <2>4. StepInv'
    BY <1>1 DEF UInv, StepInv, InStep, GrantOf, CountOf, BeginsWith
  <2> QED
    BY <2>1, <2>2, <2>3, <2>4 DEF UInv
<1>5. CASE \E want \in Wants : /\ Contiguous(want) # {}
                               /\ Allocate(u, Contiguous(want), TRUE)
  <2>1. PICK want \in Wants : /\ Contiguous(want) # {}
                              /\ Allocate(u, Contiguous(want), TRUE)
    BY <1>5
  <2>2. Contiguous(want) \in (SUBSET Prb) \ {{}}
    BY <2>1, ContiguousInCarrier
  <2> QED
    BY <1>1, <1>3, <2>1, <2>2, AllocateUInv
<1> QED
  BY <1>2, <1>4, <1>5

-----------------------------------------------------------------------------
(* The grants, the UEs and the eNB's receiver                              *)

\* generate_format0(): what a grant says, and that it carries a DCI if it
\* begins a block.
LEMMA Format0Facts ==
  ASSUME UInv, phase = "alloc", NEW u \in Ues, IsUlAlloc(u)
  PROVE  LET g == Format0(u)
         IN  /\ g \in FullGrant
             /\ g.retx = harq[u].active /\ g.ndi = (harq[u].active <=> harq[u].ndi)
             /\ ~ g.retx => g.dci /\ g.mcs = "first"
<1> DEFINE h    == harq[u]
           rv   == IF h.active THEN (h.nRtx + 1) % 4 ELSE 0
           mcs  == IF ~ (h.active /\ allocs[u].dci) THEN "first"
                   ELSE IF rv = 0 THEN "28" ELSE "reserved"
           size == <<mcs, Cardinality(allocs[u].alloc)>>
           tbs  == IF mcs = "reserved" THEN enbTbs[u] ELSE size
           ndi  == IF h.active THEN h.ndi ELSE ~ h.ndi
<1>1. h \in Proc /\ h.nRtx \in Nat /\ h.active \in BOOLEAN /\ h.ndi \in BOOLEAN
  BY ProcNumbers DEF UInv, IInv, Proc
<1>2. allocs[u] \in Alloc /\ enbTbs[u] \in Sizes /\ (h.active \/ allocs[u].dci)
  BY DEF UInv, TypeInv, AllocInv, IsUlAlloc
<1>3. allocs[u].alloc \in (SUBSET Prb) \ {{}} /\ allocs[u].dci \in BOOLEAN
  BY <1>2 DEF Alloc
<1>4. Cardinality(allocs[u].alloc) \in 1 .. NofPrb
  BY <1>3, PrbsCounted
<1>5. rv \in 0 .. 3
  BY <1>1
<1>6. mcs \in {"first", "28", "reserved"} /\ (~ h.active => mcs = "first")
  OBVIOUS
<1>7. tbs \in Sizes
  <2>1. mcs # "reserved" => mcs \in {"first", "28"}
    BY <1>6
  <2> HIDE DEF mcs, h
  <2> QED
    BY <1>2, <1>4, <2>1 DEF Sizes
<1>8. ndi \in BOOLEAN /\ ndi = (h.active <=> h.ndi)
  BY <1>1
<1>9. Format0(u) = [alloc |-> allocs[u].alloc, dci |-> allocs[u].dci,
                    retx |-> h.active, rv |-> rv, mcs |-> mcs, ndi |-> ndi,
                    tbs |-> tbs]
  BY DEF Format0
<1> HIDE DEF h, rv, mcs, tbs, ndi
<1> QED
  BY <1>1, <1>2, <1>3, <1>5, <1>6, <1>7, <1>8, <1>9 DEF FullGrant, h

LEMMA GenerateResultsUInv == UInv /\ GenerateResults => UInv'
<1> SUFFICES ASSUME UInv, GenerateResults PROVE UInv'
  OBVIOUS
<1>1. IInv'
  BY GenerateResultsInv DEF UInv
<1>2. /\ phase = "alloc" /\ phase' = "dl" /\ ulMask' = {}
      /\ phich' = [u \in Ues |-> FinalPhich(u)]
      /\ grants' = [u \in Ues |-> IF IsUlAlloc(u) THEN Format0(u) ELSE NoGrant]
      /\ enbTbs' = [u \in Ues |-> IF IsUlAlloc(u) THEN Format0(u).tbs ELSE enbTbs[u]]
      /\ harq' = [u \in Ues |-> AfterResults(u)]
      /\ allocs' = [u \in Ues |-> NoGrant]
      /\ UNCHANGED <<ue, fading, gapKind, cycle, queue, pusch>>
  BY DEF GenerateResults
<1>3. ASSUME NEW u \in Ues, IsUlAlloc(u)
      PROVE  /\ grants'[u] = Format0(u) /\ grants'[u] \in FullGrant
             /\ Format0(u).tbs \in Sizes
             /\ grants'[u].retx = harq[u].active
             /\ grants'[u].ndi = (harq[u].active <=> harq[u].ndi)
             /\ ~ grants'[u].retx => grants'[u].dci /\ grants'[u].mcs = "first"
  <2>1. grants'[u] = Format0(u)
    BY <1>2, <1>3
  <2>2. Format0(u) \in FullGrant
    BY <1>2, <1>3, Format0Facts
  <2> QED
    BY <1>2, <1>3, <2>1, <2>2, Format0Facts DEF FullGrant
<1>4. ASSUME NEW u \in Ues
      PROVE  harq'[u] = AfterResults(u)
  BY <1>2
<1>5. TypeInv'
  <2>1. phich' \in [Ues -> {"none", "ack", "nack"}]
    BY <1>2 DEF UInv, TypeInv, FinalPhich
  <2>2. grants' \in [Ues -> {NoGrant} \cup FullGrant]
    BY <1>2, <1>3
  <2>3. enbTbs' \in [Ues -> Sizes]
    BY <1>2, <1>3 DEF UInv, TypeInv
  <2>4. allocs' \in [Ues -> {NoGrant} \cup Alloc] /\ ulMask' \in SUBSET Prb
    BY <1>2
  <2> QED
    BY <1>2, <2>1, <2>2, <2>3, <2>4 DEF UInv, TypeInv
\* What each UE's process becomes
<1>6. ASSUME NEW u \in Ues
      PROVE  /\ harq[u].active => /\ harq'[u].active
                                  /\ harq'[u].ndi = harq[u].ndi
                                  /\ harq'[u].nRtx = harq[u].nRtx + 1
             /\ ~ harq[u].active /\ IsUlAlloc(u) =>
                  harq'[u].active /\ harq'[u].ndi = ~ harq[u].ndi
             /\ ~ harq[u].active /\ ~ IsUlAlloc(u) => harq'[u] = harq[u]
             /\ harq'[u].active => harq'[u].alloc # {}
  <2>1. harq[u] \in Proc
    BY DEF UInv, IInv
  <2>2. CASE IsUlAlloc(u)
    <3>1. allocs[u].alloc \in (SUBSET Prb) \ {{}}
      BY <2>2 DEF UInv, TypeInv, IsUlAlloc, Alloc
    <3> DEFINE a == allocs[u].alloc
    <3>2. harq'[u] = IF harq[u].active THEN NewRetx(harq[u], a) ELSE NewTx(harq[u], a)
      BY <1>4, <2>2 DEF AfterResults
    <3>3. a # {}
      BY <3>1
    <3> HIDE DEF a
    <3> QED
      BY <2>1, <2>2, <3>2, <3>3 DEF NewRetx, NewTx, Proc
  <2>3. CASE ~ IsUlAlloc(u)
    <3>1. harq'[u] = IF harq[u].active THEN RetxSkipped(harq[u]) ELSE harq[u]
      BY <1>4, <2>3 DEF AfterResults
    <3>2. harq[u].active => harq[u].alloc # {}
      BY DEF UInv, AllocInv
    <3> QED
      BY <2>1, <2>3, <3>1, <3>2 DEF RetxSkipped, Proc
  <2> QED
    BY <2>2, <2>3
<1>7. AllocInv'
  BY <1>2, <1>6 DEF AllocInv
<1>8. StepInv'
  <2> SUFFICES ASSUME NEW u \in Ues, gapKind[u] # "fading"
               PROVE  InStep(u)'
    BY <1>2 DEF StepInv
  <2>1. /\ ue[u].has => ue[u].ndi = harq[u].ndi
        /\ ue[u].nb <= MaxRetx
        /\ harq[u].active => ue[u].nb <= harq[u].nRtx + 1
    BY <1>2 DEF UInv, StepInv, InStep, BeginsWith, CountOf
  <2>2. IsUlAlloc(u) <=> grants'[u] # NoGrant
    <3>1. IsUlAlloc(u) => grants'[u] # NoGrant
      BY <1>3 DEF FullGrant, NoGrant
    <3> QED
      BY <1>2, <3>1
  <2>3. BeginsWith(u)' <=> IsUlAlloc(u) /\ ~ harq[u].active
    BY <1>2, <1>3, <2>2 DEF BeginsWith
  <2>4. /\ harq[u].active \in BOOLEAN /\ harq[u].ndi \in BOOLEAN
        /\ ue[u].ndi \in BOOLEAN
    BY DEF UInv, IInv, TypeInv, Proc, UeProc
  <2>5. GrantOf(u)'
    BY <1>2, <1>3, <1>6, <2>2, <2>4 DEF GrantOf
  <2>6. ue'[u].has => (BeginsWith(u)' <=> ue'[u].ndi # harq'[u].ndi)
    BY <1>2, <1>6, <2>1, <2>3, <2>4
  <2>7. harq'[u].active /\ ~ BeginsWith(u)' => ue'[u].nb <= harq'[u].nRtx
    BY <1>2, <1>6, <2>1, <2>3
  <2> QED
    BY <1>2, <2>1, <2>5, <2>6, <2>7 DEF InStep, CountOf
<1> QED
  BY <1>1, <1>5, <1>7, <1>8 DEF UInv

LEMMA DecodePuschUInv == UInv /\ DecodePusch => UInv'
<1> SUFFICES ASSUME UInv, DecodePusch PROVE UInv'
  OBVIOUS
<1>1. IInv'
  BY DecodePuschInv DEF UInv
<1> DEFINE granted == {u \in Ues : grants[u] # NoGrant}
<1>2. PICK good \in SUBSET granted :
        /\ harq' = [u \in Ues |-> IF u \in granted THEN SetAck(harq[u], u \in good)
                                  ELSE harq[u]]
        /\ ue' = [u \in Ues |-> IF u \in good
                                THEN [ue[u] EXCEPT !.pdu = "delivered"] ELSE ue[u]]
  BY DEF DecodePusch
<1>3. /\ phase = "ul" /\ phase' = "tti"
      /\ grants' = [u \in Ues |-> NoGrant]
      /\ pusch' = [u \in Ues |-> NoTx]
      /\ phich' = [u \in Ues |-> "none"]
      /\ cycle' = IF \E u \in Ues : gapKind[u] \notin {"none", "fading"}
                  THEN (cycle + 1) % GapCycles ELSE 0
      /\ UNCHANGED <<enbTbs, fading, gapKind, queue, ulMask, allocs>>
  BY DEF DecodePusch
<1> HIDE DEF granted
<1>4. ASSUME NEW u \in Ues
      PROVE  Keeps(harq[u], harq'[u])
  <2>1. harq[u] \in Proc /\ (u \in good) \in BOOLEAN
    BY DEF UInv, IInv
  <2>2. Keeps(harq[u], SetAck(harq[u], u \in good))
    BY <2>1, MethodsKeep
  <2>3. harq'[u] \in {harq[u], SetAck(harq[u], u \in good)}
    BY <1>2
  <2> QED
    BY <2>2, <2>3 DEF Keeps
<1>5. ASSUME NEW u \in Ues
      PROVE  /\ ue'[u] \in UeProc /\ ue'[u].has = ue[u].has
             /\ ue'[u].ndi = ue[u].ndi /\ ue'[u].nb = ue[u].nb
  <2>1. ue[u] \in UeProc
    BY DEF UInv, TypeInv
  <2>2. ue'[u] \in {ue[u], [ue[u] EXCEPT !.pdu = "delivered"]}
    BY <1>2
  <2> QED
    BY <2>1, <2>2 DEF UeProc
<1>6. TypeInv'
  <2>1. cycle' \in 0 .. GapCycles - 1
    <3>1. cycle \in Nat /\ GapCycles \in Nat \ {0}
      BY GapAssumption DEF UInv, TypeInv
    <3> QED
      BY <1>3, <3>1
  <2>2. ue' \in [Ues -> UeProc]
    BY <1>2, <1>5
  <2> QED
    BY <1>3, <2>1, <2>2 DEF UInv, TypeInv
<1>7. AllocInv'
  <2>1. \A u \in Ues : allocs'[u] = NoGrant
    BY <1>3 DEF UInv, AllocInv
  <2>2. \A u \in Ues : harq'[u].active => harq'[u].alloc # {}
    BY <1>4 DEF UInv, AllocInv, Keeps
  <2> QED
    BY <2>1, <2>2 DEF AllocInv
<1>8. StepInv'
  <2> SUFFICES ASSUME NEW u \in Ues, gapKind[u] # "fading"
               PROVE  InStep(u)'
    BY <1>3 DEF StepInv
  <2>1. InStep(u)
    BY DEF UInv, StepInv
  <2> QED
    BY <1>3, <1>4, <1>5, <2>1 DEF InStep, GrantOf, CountOf, BeginsWith, Keeps
<1> QED
  BY <1>1, <1>6, <1>7, <1>8 DEF UInv

LEMMA UesTransmitUInv == UInv /\ UesTransmit => UInv'
<1> SUFFICES ASSUME UInv, UesTransmit PROVE UInv'
  OBVIOUS
<1>1. /\ phase = "dl" /\ phase' = "ul"
      /\ UNCHANGED <<harq, enbTbs, fading, gapKind, cycle, queue, ulMask, allocs,
                     phich, grants>>
  BY DEF UesTransmit
<1>2. PICK missed \in MayMiss, noise \in [Ues -> {"ack", "nack"}] :
        LET dci(u)    == IF u \in Carried \ missed THEN Dci(grants[u]) ELSE NoDci
            result(u) == React(ue[u], dci(u), HeardPhich(u, noise[u]))
        IN  /\ ue' = [u \in Ues |-> result(u).ue]
            /\ pusch' = [u \in Ues |-> result(u).tx]
  BY DEF UesTransmit
<1> DEFINE dci(u)  == IF u \in Carried \ missed THEN Dci(grants[u]) ELSE NoDci
           heard(u) == HeardPhich(u, noise[u])
<1>3. ASSUME NEW u \in Ues
      PROVE  /\ ue'[u] = React(ue[u], dci(u), heard(u)).ue
             /\ pusch'[u] = React(ue[u], dci(u), heard(u)).tx
             /\ ue[u] \in UeProc /\ heard(u) \in Hearings
             /\ dci(u) \in Dcis \cup {NoDci}
  <2>1. noise[u] \in {"ack", "nack"}
    OBVIOUS
  <2>2. phich[u] \in {"none", "ack", "nack"}
    BY DEF UInv, TypeInv
  <2>3. heard(u) \in Hearings
    BY <2>1, <2>2 DEF HeardPhich, Hearings
  <2>4. u \in Carried => Dci(grants[u]) \in Dcis
    <3> SUFFICES ASSUME u \in Carried PROVE Dci(grants[u]) \in Dcis
      OBVIOUS
    <3>1. grants[u] \in FullGrant
      BY DEF UInv, TypeInv, Carried
    <3> QED
      BY <3>1 DEF FullGrant, Dci, Dcis
  <2> QED
    BY <1>2, <2>3, <2>4 DEF UInv, TypeInv
<1>4. IInv'
  BY <1>1 DEF UInv, IInv
<1>5. ue' \in [Ues -> UeProc] /\ pusch' \in [Ues -> {NoTx} \cup Puschs]
  <2>1. ASSUME NEW u \in Ues PROVE ue'[u] \in UeProc /\ pusch'[u] \in {NoTx} \cup Puschs
    <3> HIDE DEF dci, heard
    <3> QED
      BY <1>3, ReactFacts
  <2>2. DOMAIN ue' = Ues /\ DOMAIN pusch' = Ues
    BY <1>2
  <2> QED
    BY <1>2, <2>1
<1>6. TypeInv'
  BY <1>1, <1>5 DEF UInv, TypeInv
<1>7. AllocInv'
  BY <1>1 DEF UInv, AllocInv
<1>8. StepInv'
  <2> SUFFICES ASSUME NEW u \in Ues, gapKind[u] # "fading"
               PROVE  InStep(u)'
    BY <1>1 DEF StepInv
  <2>1. InStep(u)
    BY DEF UInv, StepInv
  <2>2. u \in Carried => dci(u) = Dci(grants[u]) /\ dci(u) # NoDci
    <3>1. u \notin missed
      BY DEF MayMiss
    <3> QED
      BY <3>1 DEF Dci, NoDci
  <2>3. u \notin Carried => dci(u) = NoDci
    OBVIOUS
  <2>4. /\ ue'[u] = React(ue[u], dci(u), heard(u)).ue
        /\ ue[u] \in UeProc /\ heard(u) \in Hearings
        /\ dci(u) \in Dcis \cup {NoDci}
    BY <1>3
  <2>5. /\ u \in Carried => dci(u).ndi = grants[u].ndi /\ dci(u).mcs = grants[u].mcs
        /\ u \in Carried <=> grants[u] # NoGrant /\ grants[u].dci
    BY <2>2 DEF Dci, Carried
  <2> DEFINE d == dci(u)
             s == ue[u]
             e == ue'[u]
  <2> HIDE DEF dci, heard
  <2>6. /\ d = NoDci =>
             /\ e.has => s.has /\ e.ndi = s.ndi
             /\ e.nb <= s.nb + 1
             /\ e.nb <= s.nb \/ e.nb <= MaxRetx
        /\ d # NoDci =>
             /\ e.has => e.ndi = d.ndi \/ (s.has /\ e.ndi = s.ndi)
             /\ e.nb <= s.nb + 1
             /\ (s.has => s.ndi # d.ndi) /\ d.mcs # "reserved" =>
                  e.ndi = d.ndi /\ e.nb <= 1
    BY <2>4, ReactFacts
  <2>7. e \in UeProc /\ s \in UeProc
    BY <1>5, <2>4
  <2>8. e.nb \in Nat /\ s.nb \in Nat /\ MaxRetx \in Nat \ {0}
        /\ harq[u].nRtx \in Nat /\ harq[u].nRtx + 1 <= MaxRetx
    BY <2>7, MaxRetxAssumption, ProcNumbers DEF UeProc, NbBound
  <2> HIDE DEF e, s, d
  <2> DEFINE n == harq[u].nRtx
  <2>9. CASE BeginsWith(u)
    <3>1. /\ grants[u].dci /\ grants[u].mcs = "first" /\ grants[u].ndi = harq[u].ndi
          /\ s.has => s.ndi # harq[u].ndi
      BY <1>1, <2>1, <2>9 DEF InStep, GrantOf, BeginsWith, s
    <3>2. u \in Carried
      BY <2>5, <2>9, <3>1 DEF BeginsWith
    <3>3. d # NoDci /\ d.ndi = harq[u].ndi /\ d.mcs # "reserved"
      BY <2>2, <2>5, <3>1, <3>2 DEF d
    <3>4. e.ndi = harq[u].ndi /\ e.nb <= 1
      BY <2>6, <3>1, <3>3
    <3>5. e.nb <= MaxRetx /\ e.nb <= n + 1
      <4> HIDE DEF n
      <4>1. n \in Nat
        BY <2>8 DEF n
      <4> QED
        BY <2>8, <3>4, <4>1
    <3> QED
      BY <1>1, <3>4, <3>5 DEF InStep, GrantOf, CountOf, BeginsWith, e
  <2>10. CASE ~ BeginsWith(u)
    <3>1. /\ s.has => s.ndi = harq[u].ndi
          /\ s.nb <= MaxRetx
          /\ harq[u].active => s.nb <= n
      BY <1>1, <2>1, <2>10 DEF InStep, CountOf, s
    <3>2. d # NoDci => d.ndi = harq[u].ndi /\ harq[u].active
      BY <1>1, <2>1, <2>3, <2>5 DEF InStep, GrantOf, d
    <3>3. e.has => e.ndi = harq[u].ndi
      BY <2>6, <3>1, <3>2
    <3>4. e.nb <= s.nb + 1
      BY <2>6
    <3>5. harq[u].active => e.nb <= n + 1
      <4> HIDE DEF n
      <4>1. n \in Nat
        BY <2>8 DEF n
      <4> QED
        BY <2>8, <3>1, <3>4, <4>1
    <3>6. e.nb <= MaxRetx
      <4>1. CASE harq[u].active
        BY <2>8, <3>5, <4>1
      <4>2. CASE ~ harq[u].active
        <5>1. e.nb <= s.nb \/ e.nb <= MaxRetx
          BY <2>6, <3>2, <4>2
        <5> QED
          BY <2>8, <3>1, <5>1
      <4> QED
        BY <4>1, <4>2
    <3> QED
      BY <1>1, <3>3, <3>5, <3>6 DEF InStep, GrantOf, CountOf, BeginsWith, e
  <2> QED
    BY <2>9, <2>10
<1> QED
  BY <1>4, <1>6, <1>7, <1>8 DEF UInv

LEMMA NextUInv == UInv /\ [Next]_vars => UInv'
<1> SUFFICES ASSUME UInv, [Next]_vars PROVE UInv'
  OBVIOUS
<1>1. CASE FadingEnds \/ UNCHANGED vars
  <2> fading' \in BOOLEAN
    BY <1>1 DEF FadingEnds, vars, UInv, TypeInv
  <2> UNCHANGED <<harq, enbTbs, ue, gapKind, cycle, phase, queue, ulMask, allocs,
                  phich, grants, pusch>>
    BY <1>1 DEF FadingEnds, vars
  <2>1. IInv'
    BY DEF UInv, IInv, SettledIn, HasTriesLeft
  <2>2. TypeInv'
    BY DEF UInv, TypeInv
  <2>3. AllocInv'
    BY DEF UInv, AllocInv
  <2>4. StepInv'
    BY DEF UInv, StepInv, InStep, GrantOf, CountOf, BeginsWith
  <2> QED
    BY <2>1, <2>2, <2>3, <2>4 DEF UInv
<1> QED
  BY <1>1, StartTtiUInv, AllocRetxUInv, AllocNewTxUInv, GenerateResultsUInv,
     UesTransmitUInv, DecodePuschUInv DEF Next

LEMMA UInvariant == Spec => []UInv
BY InitUInv, NextUInv, PTL DEF Spec

-----------------------------------------------------------------------------
\* Uplink HARQ has its types: no process, grant, allocation or PUSCH is ever
\* empty where one is due, and all sizes and PRBs are of the carrier.
THEOREM TypeCorrect == Spec => []TypeOK
<1>1. UInv => TypeOK
  <2> SUFFICES ASSUME UInv PROVE TypeOK
    OBVIOUS
  <2>1. allocs \in [Ues -> {NoGrant} \cup [alloc : SUBSET Prb, dci : BOOLEAN]]
    BY DEF UInv, IInv
  <2>2. FullGrant \subseteq Grant
    BY DEF FullGrant, Grant
  <2>3. grants \in [Ues -> Grant]
    <3>1. NoGrant \in Grant
      BY DEF Grant
    <3> QED
      BY <2>2, <3>1 DEF UInv, TypeInv
  <2>4. ue \in [Ues -> UeProc] /\ pusch \in [Ues -> {NoTx} \cup Puschs]
    BY DEF UInv, TypeInv
  <2>5. harq \in [Ues -> Proc]
    BY DEF UInv, IInv
  <2> QED
    BY <2>1, <2>3, <2>4, <2>5
       DEF UInv, TypeInv, TypeOK, UeProc, Puschs, Proc
<1> QED
  BY <1>1, UInvariant, PTL

\* While every DCI arrives, no UE transmits a block more often than maxharq_tx
\* says, also when retransmissions are moved, skipped and resumed by a DCI,
\* which the UE answers without a look at its counter (new_grant_ul).
THEOREM UesCountInStep == Spec => []TransmissionsBounded
<1>1. UInv => TransmissionsBounded
  BY DEF UInv, StepInv, InStep, TransmissionsBounded
<1> QED
  BY <1>1, UInvariant, PTL

-----------------------------------------------------------------------------
(* The two sides, step by step                                             *)

\* What new_grant_ul leaves alone before it looks at the grant
LEMMA BeforeTxKeeps ==
  ASSUME NEW s \in UeProc, NEW d, NEW hi
  PROVE  LET b == BeforeTx(s, d, hi)
         IN  /\ b.pdu = s.pdu /\ b.lastTbs = s.lastTbs /\ b.ackFor = s.ackFor
             /\ s.rv = 0 => b.rv = 0
<1> DEFINE Kept(t) == /\ t.pdu = s.pdu /\ t.lastTbs = s.lastTbs /\ t.ackFor = s.ackFor
                      /\ s.rv = 0 => t.rv = 0
                      /\ DOMAIN t = DOMAIN s
           b1 == HarqFeedback(s, d, hi)
           b2 == MaxReached(b1, hi)
<1>1. DOMAIN s = {"has", "ndi", "tbs", "nb", "feedback", "irv", "rv", "lastTbs",
                  "ackFor", "pdu"}
  BY DEF UeProc
<1>2. ASSUME NEW t, Kept(t) PROVE Kept(ResetUe(t))
  BY <1>1, <1>2 DEF ResetUe
<1>3. Kept(b1)
  BY <1>1 DEF HarqFeedback
<1> HIDE DEF b1
<1>4. b2 \in {b1, ResetUe(b1)}
  BY DEF MaxReached
<1> HIDE DEF b2
<1>5. TbChanged(b2, d) \in {b2, ResetUe(b2)}
  BY DEF TbChanged
<1>6. BeforeTx(s, d, hi) = TbChanged(b2, d)
  BY DEF BeforeTx, b1, b2
<1> DEFINE b == BeforeTx(s, d, hi)
<1>7. Kept(b)
  <2> HIDE DEF Kept, b
  <2>1. b2 = b1 \/ b2 = ResetUe(b1)
    BY <1>4
  <2>2. Kept(b2)
    BY <1>2, <1>3, <2>1
  <2>3. b = b2 \/ b = ResetUe(b2)
    BY <1>5, <1>6 DEF b
  <2> QED
    BY <1>2, <2>2, <2>3
<1> QED
  BY <1>7

\* It resets nothing if the counter is below its limit and the size the same.
LEMMA BeforeTxSame ==
  ASSUME NEW s \in UeProc, NEW d, NEW hi, hi = "nack" => s.nb < MaxRetx,
         d = NoDci \/ TbsOf(s, d) = s.tbs
  PROVE  BeforeTx(s, d, hi) = HarqFeedback(s, d, hi)
<1> DEFINE b == HarqFeedback(s, d, hi)
<1>1. b.nb = s.nb /\ b.lastTbs = s.lastTbs /\ b.tbs = s.tbs
  BY DEF HarqFeedback, UeProc
<1>2. s.nb \in Nat /\ MaxRetx \in Nat
  BY MaxRetxAssumption DEF UeProc, NbBound
<1> HIDE DEF b
<1>3. MaxReached(b, hi) = b
  BY <1>1, <1>2 DEF MaxReached
<1>4. d # NoDci => TbsOf(b, d) = b.tbs
  BY <1>1 DEF TbsOf
<1>5. TbChanged(b, d) = b
  BY <1>4 DEF TbChanged
<1> QED
  BY <1>3, <1>5 DEF BeforeTx, b

\* The four things new_grant_ul may do
LEMMA ReactCases ==
  ASSUME NEW s \in UeProc, NEW d, NEW hi, d.mcs = "reserved" => s.lastTbs # NoTbs
  PROVE  LET b     == BeforeTx(s, d, hi)
             new   == Granted([ResetUe(b) EXCEPT !.pdu = "new"], d)
             adapt == Granted([b EXCEPT !.irv = IF d.rv # 0 THEN d.rv ELSE @], d)
         IN  /\ IsNewTx(b, d) =>
                  React(s, d, hi) = [ue |-> Transmitted(new, d.prbs),
                                     tx |-> Pusch(new, d.prbs, TRUE)]
             /\ IsAdaptive(b, d) =>
                  React(s, d, hi) = [ue |-> [Transmitted(adapt, d.prbs) EXCEPT !.rv = 0],
                                     tx |-> Pusch(adapt, d.prbs, FALSE)]
             /\ d = NoDci /\ IsNonAdaptive(b, d, hi) =>
                  React(s, d, hi) = [ue |-> Transmitted(b, s.ackFor),
                                     tx |-> Pusch(b, s.ackFor, FALSE)]
             /\ d = NoDci /\ ~ IsNonAdaptive(b, d, hi) =>
                  React(s, d, hi) = [ue |-> [b EXCEPT !.ackFor = {}], tx |-> NoTx]
BY DEF React, IsNewTx, IsAdaptive, NoDci

\* Every DCI is followed, but for a reserved MCS without a size.
LEMMA ReactFollows ==
  ASSUME NEW s \in UeProc, NEW d \in Dcis, NEW hi \in Hearings,
         d.mcs = "reserved" => s.lastTbs # NoTbs
  PROVE  LET r == React(s, d, hi)
         IN  /\ r.ue.has /\ r.ue.ackFor = d.prbs /\ r.ue.lastTbs # NoTbs
             /\ r.tx.prbs = d.prbs
             /\ r.ue.pdu = s.pdu \/ r.ue.pdu = "new"
             /\ (s.has => s.ndi # d.ndi) => r.ue.pdu = "new"
<1> DEFINE b == BeforeTx(s, d, hi)
           fresh == [ResetUe(b) EXCEPT !.pdu = "new"]
           new == Granted(fresh, d)
           again == [b EXCEPT !.irv = IF d.rv # 0 THEN d.rv ELSE @]
           adapt == Granted(again, d)
<1>1. b \in UeProc /\ b.pdu = s.pdu /\ b.lastTbs = s.lastTbs
  BY BeforeTxFacts, BeforeTxKeeps
<1>2. (s.has => s.ndi # d.ndi) => (b.has => b.ndi # d.ndi)
  BY BeforeTxFacts
<1>3. d # NoDci
  BY DEF Dcis, NoDci
<1>4. /\ IsNewTx(b, d) =>
           React(s, d, hi) = [ue |-> Transmitted(new, d.prbs),
                              tx |-> Pusch(new, d.prbs, TRUE)]
      /\ IsAdaptive(b, d) =>
           React(s, d, hi) = [ue |-> [Transmitted(adapt, d.prbs) EXCEPT !.rv = 0],
                              tx |-> Pusch(adapt, d.prbs, FALSE)]
  BY ReactCases
<1> HIDE DEF b
<1>5. fresh \in UeProc /\ fresh.pdu = "new" /\ fresh.lastTbs = s.lastTbs
  <2>1. ResetUe(b) \in UeProc /\ ResetUe(b).lastTbs = b.lastTbs
    BY <1>1, UeMethodTypes DEF ResetUe, UeProc
  <2> QED
    BY <1>1, <2>1 DEF UeProc
<1>6. again \in UeProc /\ again.pdu = s.pdu /\ again.lastTbs = s.lastTbs
  BY <1>1 DEF UeProc, Dcis
<1> HIDE DEF fresh, again
<1>7. ASSUME NEW t \in UeProc, t.lastTbs = s.lastTbs
      PROVE  /\ Granted(t, d) \in UeProc /\ Granted(t, d).has
             /\ Granted(t, d).pdu = t.pdu
             /\ Granted(t, d).lastTbs # NoTbs
  <2>1. TbsOf(t, d) # NoTbs
    BY <1>7 DEF TbsOf, NoTbs
  <2>2. Granted(t, d) \in UeProc
    BY UeMethodTypes
  <2> QED
    BY <2>1, <2>2 DEF Granted, UeProc
<1>8. ASSUME NEW t \in UeProc
      PROVE  /\ Transmitted(t, d.prbs).has = t.has
             /\ Transmitted(t, d.prbs).ackFor = d.prbs
             /\ Transmitted(t, d.prbs).lastTbs = t.lastTbs
             /\ Transmitted(t, d.prbs).pdu = t.pdu
             /\ Transmitted(t, d.prbs) \in UeProc
  <2>1. Transmitted(t, d.prbs) \in UeProc
    BY UeMethodTypes DEF Dcis
  <2> QED
    BY <2>1 DEF Transmitted, UeProc
<1>9. \A t, x : Pusch(t, d.prbs, x).prbs = d.prbs
  BY DEF Pusch
<1>10. CASE IsNewTx(b, d)
  <2>1. new \in UeProc /\ new.has /\ new.pdu = "new" /\ new.lastTbs # NoTbs
    BY <1>5, <1>7
  <2> HIDE DEF new
  <2> DEFINE e == Transmitted(new, d.prbs)
             x == Pusch(new, d.prbs, TRUE)
  <2>3. React(s, d, hi) = [ue |-> e, tx |-> x] /\ x.prbs = d.prbs
    BY <1>4, <1>9, <1>10
  <2> HIDE DEF x, e
  <2>4. React(s, d, hi).ue = e /\ React(s, d, hi).tx = x
    BY <2>3
  <2>2. React(s, d, hi).ue = Transmitted(new, d.prbs)
        /\ React(s, d, hi).tx.prbs = d.prbs
    BY <2>3, <2>4 DEF e
  <2> QED
    BY <1>8, <2>1, <2>2
<1>11. CASE ~ IsNewTx(b, d)
  <2>1. adapt \in UeProc /\ adapt.has /\ adapt.pdu = s.pdu /\ adapt.lastTbs # NoTbs
    BY <1>6, <1>7
  <2> HIDE DEF adapt
  <2>2. IsAdaptive(b, d) /\ b.has /\ b.ndi = d.ndi
    BY <1>1, <1>3, <1>11 DEF IsAdaptive, IsNewTx
  <2> DEFINE t == Transmitted(adapt, d.prbs)
             sent == [t EXCEPT !.rv = 0]
             x == Pusch(adapt, d.prbs, FALSE)
  <2>3. React(s, d, hi) = [ue |-> sent, tx |-> x] /\ x.prbs = d.prbs
    BY <1>4, <1>9, <2>2
  <2>4. t.has /\ t.ackFor = d.prbs /\ t.lastTbs # NoTbs /\ t.pdu = s.pdu /\ t \in UeProc
    BY <1>8, <2>1
  <2> HIDE DEF t
  <2>5. /\ sent.has = t.has /\ sent.ackFor = t.ackFor
        /\ sent.lastTbs = t.lastTbs /\ sent.pdu = t.pdu
    BY <2>4 DEF UeProc
  <2> HIDE DEF x, sent
  <2>6. React(s, d, hi).ue = sent /\ React(s, d, hi).tx = x
    BY <2>3
  <2> QED
    BY <1>2, <2>2, <2>3, <2>4, <2>5, <2>6
<1> QED
  BY <1>10, <1>11

\* Without a DCI, a NACK makes the UE transmit once more where it did before.
LEMMA ReactRepeats ==
  ASSUME NEW s \in UeProc, s.has, s.nb < MaxRetx
  PROVE  LET r == React(s, NoDci, "nack")
         IN  /\ r.ue.has /\ r.ue.ackFor = s.ackFor
             /\ r.ue.lastTbs = s.lastTbs /\ r.ue.tbs = s.tbs /\ r.ue.pdu = s.pdu
             /\ r.ue.irv = (s.irv + 1) % 4 /\ r.ue.rv = s.rv
             /\ r.tx = [prbs |-> s.ackFor, tbs |-> s.tbs, rv |-> RvOf(s), new |-> FALSE]
<1> DEFINE b == [s EXCEPT !.feedback = FALSE]
<1>1. NoDci.mcs # "reserved"
  BY DEF NoDci
<1>2. BeforeTx(s, NoDci, "nack") = b
  BY BeforeTxSame DEF HarqFeedback
<1>3. /\ b \in UeProc /\ b.has /\ ~ b.feedback /\ b.lastTbs = s.lastTbs /\ b.tbs = s.tbs
      /\ b.pdu = s.pdu /\ b.irv = s.irv /\ b.rv = s.rv
  BY DEF UeProc
<1> HIDE DEF b
<1>4. IsNonAdaptive(b, NoDci, "nack")
  BY <1>3 DEF IsNonAdaptive
<1> DEFINE e == Transmitted(b, s.ackFor)
           x == Pusch(b, s.ackFor, FALSE)
<1>5. React(s, NoDci, "nack") = [ue |-> e, tx |-> x]
  BY <1>1, <1>2, <1>4, ReactCases
<1>6. e \in UeProc
  BY <1>3, UeMethodTypes DEF UeProc
<1>7. x = [prbs |-> s.ackFor, tbs |-> s.tbs, rv |-> RvOf(s), new |-> FALSE]
  BY <1>3 DEF Pusch, RvOf
<1>8. /\ e.has /\ e.ackFor = s.ackFor /\ e.lastTbs = s.lastTbs /\ e.tbs = s.tbs
      /\ e.pdu = s.pdu /\ e.irv = (s.irv + 1) % 4 /\ e.rv = s.rv
  BY <1>3, <1>6 DEF Transmitted, UeProc
<1> HIDE DEF e, x
<1>9. React(s, NoDci, "nack").ue = e /\ React(s, NoDci, "nack").tx = x
  BY <1>5
<1> QED
  BY <1>7, <1>8, <1>9

\* It is silent when it hears no NACK.
LEMMA ReactSilent ==
  ASSUME NEW s \in UeProc, NEW hi \in {"none", "ack"}
  PROVE  LET r == React(s, NoDci, hi)
         IN  /\ r.tx = NoTx /\ r.ue.ackFor = {}
             /\ r.ue.feedback = IF hi = "ack" THEN TRUE ELSE s.feedback
             /\ r.ue.has = s.has /\ r.ue.lastTbs = s.lastTbs /\ r.ue.tbs = s.tbs
             /\ r.ue.pdu = s.pdu /\ r.ue.irv = s.irv /\ r.ue.rv = s.rv
<1> DEFINE b == HarqFeedback(s, NoDci, hi)
<1>1. NoDci.mcs # "reserved"
  BY DEF NoDci
<1>2. BeforeTx(s, NoDci, hi) = b
  BY BeforeTxSame
<1>3. b = IF hi = "none" THEN s ELSE [s EXCEPT !.feedback = TRUE]
  BY DEF HarqFeedback
<1>h. hi = "none" \/ hi = "ack"
  OBVIOUS
<1>4. /\ b \in UeProc /\ b.has = s.has /\ b.lastTbs = s.lastTbs /\ b.tbs = s.tbs
      /\ b.feedback = (IF hi = "ack" THEN TRUE ELSE s.feedback)
      /\ b.pdu = s.pdu /\ b.irv = s.irv /\ b.rv = s.rv
  <2>1. CASE hi = "none"
    BY <1>3, <2>1
  <2>2. CASE hi = "ack"
    BY <1>3, <2>2 DEF UeProc
  <2> QED
    BY <1>h, <2>1, <2>2
<1> HIDE DEF b
<1>5. ~ IsNonAdaptive(b, NoDci, hi)
  <2>1. hi = "ack" => b.feedback
    BY <1>4
  <2> QED
    BY <1>h, <2>1 DEF IsNonAdaptive
<1> DEFINE e == [b EXCEPT !.ackFor = {}]
<1>6. React(s, NoDci, hi) = [ue |-> e, tx |-> NoTx]
  <2> DEFINE c == BeforeTx(s, NoDci, hi)
  <2>1. ~ IsNonAdaptive(c, NoDci, hi) =>
          React(s, NoDci, hi) = [ue |-> [c EXCEPT !.ackFor = {}], tx |-> NoTx]
    BY ZenonT(60), <1>1, ReactCases
  <2> QED
    BY <1>2, <1>5, <2>1
<1>7. /\ e.ackFor = {} /\ e.feedback = b.feedback /\ e.has = b.has
      /\ e.lastTbs = b.lastTbs /\ e.tbs = b.tbs
      /\ e.pdu = b.pdu /\ e.irv = b.irv /\ e.rv = b.rv
  BY <1>4 DEF UeProc
<1> HIDE DEF e
<1>8. React(s, NoDci, hi).ue = e /\ React(s, NoDci, hi).tx = NoTx
  <2> HIDE DEF NoTx
  <2> QED
    BY <1>6
<1> QED
  BY <1>4, <1>7, <1>8

\* Without a DCI, no block begins.
LEMMA ReactKeepsPdu ==
  ASSUME NEW s \in UeProc, NEW hi \in Hearings
  PROVE  LET r == React(s, NoDci, hi)
         IN  /\ r.ue.pdu = s.pdu
             /\ s.rv = 0 => r.ue.rv = 0
<1> DEFINE b == BeforeTx(s, NoDci, hi)
<1>1. NoDci.mcs # "reserved"
  BY DEF NoDci
<1>2. b \in UeProc /\ b.pdu = s.pdu /\ (s.rv = 0 => b.rv = 0)
  BY BeforeTxFacts, BeforeTxKeeps
<1>3. React(s, NoDci, hi).ue \in {Transmitted(b, s.ackFor), [b EXCEPT !.ackFor = {}]}
  <2>1. CASE IsNonAdaptive(b, NoDci, hi)
    <3>1. React(s, NoDci, hi) = [ue |-> Transmitted(b, s.ackFor),
                                 tx |-> Pusch(b, s.ackFor, FALSE)]
      BY <1>1, <2>1, ReactCases
    <3> QED
      BY <3>1
  <2>2. CASE ~ IsNonAdaptive(b, NoDci, hi)
    <3>1. React(s, NoDci, hi) = [ue |-> [b EXCEPT !.ackFor = {}], tx |-> NoTx]
      BY <1>1, <2>2, ReactCases
    <3> QED
      BY <3>1
  <2> QED
    BY <2>1, <2>2
<1> HIDE DEF b
<1>4. Transmitted(b, s.ackFor) \in UeProc /\ [b EXCEPT !.ackFor = {}] \in UeProc
  BY <1>2, UeMethodTypes DEF UeProc
<1>5. Transmitted(b, s.ackFor).pdu = b.pdu /\ Transmitted(b, s.ackFor).rv = b.rv
  BY <1>2, <1>4 DEF Transmitted, UeProc
<1>6. [b EXCEPT !.ackFor = {}].pdu = b.pdu /\ [b EXCEPT !.ackFor = {}].rv = b.rv
  BY <1>2 DEF UeProc
<1> QED
  BY <1>2, <1>3, <1>5, <1>6
\* A grant of a new block: the UE begins it in the size granted.
LEMMA ReactNew ==
  ASSUME NEW s \in UeProc, NEW d \in Dcis, NEW hi \in Hearings,
         s.has => s.ndi # d.ndi, d.mcs = "first", d.rv = 0
  PROVE  LET r == React(s, d, hi)
             tbs == <<"first", Cardinality(d.prbs)>>
         IN  /\ r.ue.tbs = tbs /\ r.ue.lastTbs = tbs /\ r.ue.irv = 1 /\ r.ue.rv = 0
             /\ r.tx = [prbs |-> d.prbs, tbs |-> tbs, rv |-> 0, new |-> TRUE]
<1> DEFINE b == BeforeTx(s, d, hi)
           fresh == [ResetUe(b) EXCEPT !.pdu = "new"]
           new == Granted(fresh, d)
           tbs == <<"first", Cardinality(d.prbs)>>
<1>1. b \in UeProc /\ (b.has => b.ndi # d.ndi)
  BY BeforeTxFacts
<1>2. d # NoDci /\ d.mcs # "reserved"
  BY DEF Dcis, NoDci
<1>3. React(s, d, hi) = [ue |-> Transmitted(new, d.prbs), tx |-> Pusch(new, d.prbs, TRUE)]
  BY <1>1, <1>2, ReactCases DEF IsNewTx
<1> HIDE DEF b
<1>4. fresh \in UeProc /\ fresh.irv = 0
  <2>1. ResetUe(b) \in UeProc
    BY <1>1, UeMethodTypes
  <2>2. ResetUe(b).irv = 0
    BY <1>1 DEF ResetUe, UeProc
  <2> QED
    BY <2>1, <2>2 DEF UeProc
<1> HIDE DEF fresh
<1>5. TbsOf(fresh, d) = tbs
  BY DEF TbsOf
<1>6. new \in UeProc /\ new.tbs = tbs /\ new.lastTbs = tbs /\ new.irv = 0 /\ new.rv = 0
  <2>1. new \in UeProc
    BY <1>4, UeMethodTypes
  <2> QED
    BY <1>4, <1>5, <2>1 DEF Granted, UeProc
<1> HIDE DEF new, tbs
<1> DEFINE e == Transmitted(new, d.prbs)
           x == Pusch(new, d.prbs, TRUE)
<1>7. e.tbs = tbs /\ e.lastTbs = tbs /\ e.irv = 1 /\ e.rv = 0
  <2>1. e \in UeProc
    BY <1>6, UeMethodTypes DEF Dcis
  <2> QED
    BY <1>6, <2>1 DEF Transmitted, UeProc
<1>8. x = [prbs |-> d.prbs, tbs |-> tbs, rv |-> 0, new |-> TRUE]
  BY <1>6 DEF Pusch, RvOf
<1>9. React(s, d, hi) = [ue |-> e, tx |-> x]
  BY <1>3
<1> HIDE DEF e, x
<1>10. React(s, d, hi).ue = e /\ React(s, d, hi).tx = x
  BY <1>9
<1> QED
  BY <1>7, <1>8, <1>10 DEF tbs

\* A DCI that asks for the block once more: it is transmitted in the
\* redundancy version of the DCI, and in the size it had.
LEMMA ReactAgain ==
  ASSUME NEW s \in UeProc, NEW d \in Dcis, NEW hi \in Hearings,
         s.has, s.ndi = d.ndi, d.mcs = "reserved", d.rv # 0,
         s.lastTbs = s.tbs, s.tbs # NoTbs, hi = "nack" => s.nb < MaxRetx
  PROVE  LET r == React(s, d, hi)
         IN  /\ r.ue.tbs = s.tbs /\ r.ue.lastTbs = s.tbs
             /\ r.ue.irv = (d.rv + 1) % 4 /\ r.ue.rv = 0
             /\ r.tx = [prbs |-> d.prbs, tbs |-> s.tbs, rv |-> d.rv, new |-> FALSE]
<1> DEFINE b == HarqFeedback(s, d, hi)
           again == [b EXCEPT !.irv = IF d.rv # 0 THEN d.rv ELSE @]
           adapt == Granted(again, d)
<1>1. TbsOf(s, d) = s.tbs
  BY DEF TbsOf
<1>2. BeforeTx(s, d, hi) = b
  BY <1>1, BeforeTxSame
<1>3. b \in UeProc /\ b.has /\ b.ndi = s.ndi /\ b.lastTbs = s.lastTbs
  <2>1. b \in UeProc /\ b.lastTbs = s.lastTbs
    BY <1>2, BeforeTxFacts, BeforeTxKeeps
  <2> QED
    BY <2>1 DEF HarqFeedback, UeProc
<1>4. d # NoDci /\ d.rv \in 0 .. 3 /\ d.prbs \in SUBSET Prb
  BY DEF Dcis, NoDci
<1> DEFINE t == Transmitted(adapt, d.prbs)
           e == [t EXCEPT !.rv = 0]
           x == Pusch(adapt, d.prbs, FALSE)
<1> HIDE DEF b
<1>5. IsAdaptive(b, d)
  BY <1>3, <1>4 DEF IsAdaptive, IsNewTx
<1>6. React(s, d, hi) = [ue |-> e, tx |-> x]
  BY <1>2, <1>5, ReactCases
<1>7. again \in UeProc /\ again.irv = d.rv /\ again.lastTbs = s.tbs
  BY <1>3, <1>4 DEF UeProc
<1> HIDE DEF again
<1>8. TbsOf(again, d) = s.tbs
  BY <1>7 DEF TbsOf
<1>9. /\ adapt \in UeProc /\ adapt.tbs = s.tbs /\ adapt.lastTbs = s.tbs
      /\ adapt.irv = d.rv /\ adapt.rv = d.rv
  <2>1. adapt \in UeProc
    BY <1>7, UeMethodTypes
  <2> QED
    BY <1>7, <1>8, <2>1 DEF Granted, UeProc
<1> HIDE DEF adapt
<1>10. t \in UeProc /\ t.tbs = s.tbs /\ t.lastTbs = s.tbs /\ t.irv = (d.rv + 1) % 4
  <2>1. t \in UeProc
    BY <1>4, <1>9, UeMethodTypes
  <2> QED
    BY <1>9, <2>1 DEF Transmitted, UeProc
<1> HIDE DEF t
<1>11. e.tbs = s.tbs /\ e.lastTbs = s.tbs /\ e.irv = (d.rv + 1) % 4 /\ e.rv = 0
  BY <1>10 DEF UeProc
<1>12. x = [prbs |-> d.prbs, tbs |-> s.tbs, rv |-> d.rv, new |-> FALSE]
  BY <1>9 DEF Pusch, RvOf
<1> HIDE DEF e, x
<1>13. React(s, d, hi).ue = e /\ React(s, d, hi).tx = x
  BY <1>6
<1> QED
  BY <1>11, <1>12, <1>13

-----------------------------------------------------------------------------
(* The invariant of the two sides, for a UE that receives its DCIs.        *)
(* HandInv says where the eNB's process is between one grant and the next: *)
(* either the UE awaits the PHICH of its last PUSCH (phich), or the process *)
(* was skipped, the UE took that for an ACK, and a DCI must resume it      *)
(* (pdcch). EndedInv says the same of a process that is free. GridInv      *)
(* keeps the grants of a TTI apart. SizeInv adds the sizes and the         *)
(* redundancy versions.                                                    *)

\* The PHICH list holds a PHICH for every UE.
PhichRoom == Cardinality(Ues) <= MaxPhich

\* The UE has, or hears this TTI, an ACK.
Deaf(u) == IF ue[u].ackFor = {} THEN ue[u].feedback ELSE ~ PhichEnabled(u)

HoldsBlock(u) ==
  harq[u].active /\ ~ BeginsWith(u) =>
    ue[u].has /\ ue[u].lastTbs # NoTbs /\ ue[u].pdu = "new"

HandTti(u) ==
  harq[u].active =>
    IF harq[u].phich THEN ue[u].ackFor = harq[u].alloc
    ELSE harq[u].pdcch /\ ue[u].ackFor = {} /\ ue[u].feedback

HandAlloc(u) ==
  /\ ~ harq[u].phich
  /\ harq[u].active =>
       \/ phich[u] = "nack" /\ ue[u].ackFor = harq[u].alloc
       \/ phich[u] = "none" /\ harq[u].pdcch /\ Deaf(u)
  /\ harq[u].active /\ allocs[u] # NoGrant /\ ~ allocs[u].dci =>
       allocs[u].alloc = harq[u].alloc /\ ~ harq[u].pdcch

HandDl(u) ==
  /\ grants[u] # NoGrant =>
       /\ grants[u].alloc = harq[u].alloc /\ harq[u].phich
       /\ ~ grants[u].dci => phich[u] = "nack" /\ ue[u].ackFor = harq[u].alloc
  /\ grants[u] = NoGrant /\ harq[u].active =>
       /\ ~ harq[u].phich /\ harq[u].pdcch
       /\ \/ phich[u] = "ack" /\ ue[u].ackFor = harq[u].alloc
          \/ phich[u] = "none" /\ Deaf(u)

HandUl(u) ==
  /\ grants[u] # NoGrant =>
       /\ harq[u].active /\ harq[u].phich
       /\ grants[u].alloc = harq[u].alloc /\ ue[u].ackFor = harq[u].alloc
       /\ pusch[u].prbs = harq[u].alloc
  /\ grants[u] = NoGrant /\ harq[u].active =>
       /\ ~ harq[u].phich /\ harq[u].pdcch
       /\ ue[u].ackFor = {} /\ ue[u].feedback /\ pusch[u] = NoTx

Hand(u) ==
  /\ HoldsBlock(u)
  /\ phase = "tti" => HandTti(u)
  /\ phase = "alloc" => HandAlloc(u)
  /\ phase = "dl" => HandDl(u)
  /\ phase = "ul" => HandUl(u)

\* The eNB's process ended with its last opportunity.
GivenUp(u) == ~ harq[u].active /\ harq[u].nRtx = MaxRetx - 1

\* If the UE still awaits a PHICH for a process that is free, the eNB gave the
\* block up, or the UE hears an ACK.
Answered(u) ==
  /\ ~ harq[u].active /\ ue[u].ackFor # {} =>
       \/ GivenUp(u)
       \/ phase = "tti" /\ harq[u].phich /\ harq[u].ack
       \/ /\ phase \in {"alloc", "dl"}
          /\ phich[u] = "ack" \/ (phich[u] = "none" /\ ~ PhichEnabled(u))
  /\ phase = "ul" /\ ~ harq[u].active /\ pusch[u].prbs # {} => GivenUp(u)

HandInv == \A u \in Ues : gapKind[u] # "fading" => Hand(u)
EndedInv == \A u \in Ues : gapKind[u] # "fading" => Answered(u)

GridInv ==
  /\ phase = "alloc" =>
       /\ \A u \in Ues : allocs[u].alloc \subseteq ulMask
       /\ \A u, v \in Ues : u # v => allocs[u].alloc \cap allocs[v].alloc = {}
  /\ phase \in {"dl", "ul"} =>
       \A u, v \in Ues : u # v => grants[u].alloc \cap grants[v].alloc = {}

HInv == UInv /\ HandInv /\ EndedInv /\ GridInv

\* While the PHICH list has room, the PHICHs of a TTI are those that are due.
LEMMA PhichsFit ==
  ASSUME PhichRoom, NEW h, NEW u \in Ues
  PROVE  /\ u \in Due(h) => FindsRoom(h, u)
         /\ ~ FindsListFull(h, u)
<1>1. ASSUME u \in Due(h) PROVE FindsRoom(h, u)
  <2>1. IsFiniteSet(Ues) /\ Cardinality(Ues) \in Nat /\ MaxPhich \in Nat
    BY UesAssumption, PhichAssumption, FS_CardinalityType
  <2>2. Cardinality(Ues \ {u}) = Cardinality(Ues) - 1
    BY <2>1, FS_RemoveElement
  <2>3. IsFiniteSet(Ues \ {u})
    BY <2>1, FS_RemoveElement
  <2>4. Ahead(h, u) \subseteq Ues \ {u}
    <3>1. u \in Nat /\ ~ (u < u)
      BY UesAssumption
    <3> QED
      BY <3>1 DEF Ahead, Due
  <2>5. Cardinality(Ahead(h, u)) <= Cardinality(Ues \ {u})
        /\ Cardinality(Ahead(h, u)) \in Nat
    BY <2>3, <2>4, FS_Subset, FS_CardinalityType
  <2> QED
    BY <1>1, <2>1, <2>2, <2>5 DEF FindsRoom, PhichRoom
<1> QED
  BY <1>1 DEF FindsListFull

\* What the eNB does with a process before the allocations of its TTI: it may
\* give it up; a PHICH that is due is sent, or resumed by a DCI after a gap.
LEMMA StartTtiProc ==
  ASSUME UInv, PhichRoom, StartTti, NEW u \in Ues
  PROVE  LET h == harq[u]
             g == harq'[u]
         IN  /\ Keeps(h, g) /\ ~ g.phich
             /\ h.active /\ ~ g.active => h.nRtx = MaxRetx - 1
             /\ g.active => g.pdcch \/ ~ h.pdcch
             /\ phich'[u] = IF h.phich /\ PhichEnabled(u)
                            THEN IF h.ack THEN "ack" ELSE "nack" ELSE "none"
             /\ g.active => ~ h.ack
             /\ g.active /\ h.phich => PhichEnabled(u) \/ g.pdcch
             /\ g.active /\ ~ h.phich => g.pdcch = h.pdcch
<1> DEFINE h == harq[u]
           begun == [v \in Ues |-> HarqNewTti(harq[v])]
           b == begun[u]
           p == PopPhich(b)
           g == harq'[u]
<1>1. harq'[u] = AfterPhich(begun, u) /\ phich'[u] = PhichFor(begun, u)
  BY DEF StartTti
<1>2. h \in Proc /\ Consistent(h) /\ h.nRtx \in 0 .. MaxRetx - 1
  BY DEF UInv, IInv, Proc
<1>3. b = HarqNewTti(h)
  OBVIOUS
<1>4. /\ b \in Proc /\ Keeps(h, b) /\ b.phich = h.phich /\ b.ack = h.ack
      /\ b.active => b.pdcch = h.pdcch
      /\ h.active /\ ~ b.active => h.nRtx = MaxRetx - 1
  <2>1. b \in Proc
    BY <1>2, <1>3, NewTtiSettles DEF Consistent
  <2>2. Keeps(h, b)
    BY <1>2, <1>3, MethodsKeep
  <2>3. b.phich = h.phich /\ b.ack = h.ack /\ (b.active => b.pdcch = h.pdcch)
    BY <1>2, <1>3 DEF HarqNewTti, ResetPendingData, Proc
  <2>4. h.active /\ ~ b.active => h.nRtx + 1 >= MaxRetx
    BY <1>2, <1>3 DEF HarqNewTti, LastTry
  <2>5. h.active /\ ~ b.active => h.nRtx = MaxRetx - 1
    BY <1>2, <2>4, MaxRetxAssumption
  <2> QED
    BY <2>1, <2>2, <2>3, <2>5
<1>5. u \in Due(begun) <=> h.phich
  BY <1>4 DEF Due
<1>6. /\ FindsRoom(begun, u) <=> h.phich
      /\ ~ FindsListFull(begun, u)
  <2>1. FindsRoom(begun, u) => u \in Due(begun)
    BY DEF FindsRoom
  <2> QED
    BY <1>5, <2>1, PhichsFit
<1>7. g = IF ~ h.phich THEN b
          ELSE IF PhichEnabled(u) \/ ~ b.active THEN p ELSE RequestPdcch(p)
  BY <1>1, <1>6 DEF AfterPhich
<1>8. phich'[u] = IF h.phich /\ PhichEnabled(u)
                  THEN IF h.ack THEN "ack" ELSE "nack" ELSE "none"
  BY <1>1, <1>4, <1>6 DEF PhichFor
<1> HIDE DEF b, g, begun
<1>9. /\ p \in Proc /\ Keeps(b, p) /\ ~ p.phich
      /\ p.active = b.active /\ (p.active => p.pdcch = b.pdcch)
  BY <1>4 DEF PopPhich, ResetPendingData, Proc, Keeps
<1> HIDE DEF p
<1>10. LET r == RequestPdcch(p)
       IN  Keeps(p, r) /\ ~ r.phich /\ r.pdcch
  BY <1>9 DEF RequestPdcch, Proc, Keeps
<1>11. Keeps(h, g) /\ ~ g.phich
  BY <1>4, <1>7, <1>9, <1>10 DEF Keeps
<1>12. /\ h.active /\ ~ g.active => h.nRtx = MaxRetx - 1
       /\ g.active => g.pdcch \/ ~ h.pdcch
       /\ g.active /\ h.phich => PhichEnabled(u) \/ g.pdcch
       /\ g.active /\ ~ h.phich => g.pdcch = h.pdcch
  <2>1. RequestPdcch(p).active = p.active
    BY <1>9 DEF RequestPdcch, Proc
  <2> QED
    BY <1>4, <1>7, <1>9, <1>10, <2>1
<1>13. g.active => ~ h.ack
  BY <1>2, <1>11 DEF Keeps, Consistent
<1> QED
  BY <1>8, <1>11, <1>12, <1>13 DEF g

LEMMA InitHInv == Init => HInv
<1> SUFFICES ASSUME Init PROVE HInv
  OBVIOUS
<1>1. UInv
  BY InitUInv
<1>2. ASSUME NEW u \in Ues
      PROVE  /\ harq[u].active = FALSE /\ ue[u].ackFor = {} /\ phase = "tti"
  BY DEF Init, EmptyProc, FreshUe
<1>3. HandInv
  BY <1>2 DEF HandInv, Hand, HoldsBlock, HandTti
<1>4. EndedInv
  BY <1>2 DEF EndedInv, Answered
<1>5. GridInv
  BY DEF GridInv, Init
<1> QED
  BY <1>1, <1>3, <1>4, <1>5 DEF HInv

LEMMA StartTtiHInv == PhichRoom /\ HInv /\ StartTti => HInv'
<1> SUFFICES ASSUME PhichRoom, HInv, StartTti PROVE HInv'
  OBVIOUS
<1>1. UInv /\ UInv'
  BY StartTtiUInv DEF HInv
<1>2. phase = "tti" /\ phase' = "alloc" /\ UNCHANGED <<ue, gapKind, cycle, allocs>>
  BY DEF StartTti
<1>3. ASSUME NEW u \in Ues
      PROVE  /\ allocs[u] = NoGrant /\ harq[u].alloc = harq'[u].alloc
             /\ harq'[u].active => harq[u].active /\ harq[u].alloc # {}
             /\ PhichEnabled(u)' <=> PhichEnabled(u)
             /\ ~ BeginsWith(u) /\ ~ BeginsWith(u)'
  BY <1>1, <1>2, StartTtiProc
     DEF UInv, AllocInv, Keeps, PhichEnabled, InGap, BeginsWith
<1>4. ASSUME NEW u \in Ues, gapKind[u] # "fading"
      PROVE  Hand(u)'
  <2> DEFINE h == harq[u]
             g == harq'[u]
  <2>1. /\ ~ g.phich
        /\ phich'[u] = IF h.phich /\ PhichEnabled(u)
                       THEN IF h.ack THEN "ack" ELSE "nack" ELSE "none"
        /\ g.active => ~ h.ack
        /\ g.active /\ h.phich => PhichEnabled(u) \/ g.pdcch
        /\ g.active /\ ~ h.phich => g.pdcch = h.pdcch
    BY <1>1, StartTtiProc
  <2>2. HandTti(u) /\ HoldsBlock(u)
    BY <1>2, <1>4 DEF HInv, HandInv, Hand
  <2>3. HoldsBlock(u)'
    BY <1>2, <1>3, <2>2 DEF HoldsBlock
  <2>4. g.active => \/ phich'[u] = "nack" /\ ue[u].ackFor = g.alloc
                    \/ phich'[u] = "none" /\ g.pdcch /\ Deaf(u)'
    <3>1. CASE h.phich
      BY <1>2, <1>3, <2>1, <2>2, <3>1 DEF HandTti, Deaf
    <3>2. CASE ~ h.phich
      BY <1>2, <1>3, <2>1, <2>2, <3>2 DEF HandTti, Deaf
    <3> QED
      BY <3>1, <3>2
  <2>5. HandAlloc(u)'
    BY <1>2, <1>3, <2>1, <2>4 DEF HandAlloc
  <2> QED
    BY <1>2, <2>3, <2>5 DEF Hand
<1>5. ASSUME NEW u \in Ues, gapKind[u] # "fading"
      PROVE  Answered(u)'
  <2> DEFINE h == harq[u]
             g == harq'[u]
  <2>1. /\ Keeps(h, g)
        /\ h.active /\ ~ g.active => h.nRtx = MaxRetx - 1
        /\ phich'[u] = IF h.phich /\ PhichEnabled(u)
                       THEN IF h.ack THEN "ack" ELSE "nack" ELSE "none"
    BY <1>1, StartTtiProc
  <2>2. ~ h.active /\ ue[u].ackFor # {} => GivenUp(u) \/ (h.phich /\ h.ack)
    BY <1>2, <1>5 DEF HInv, EndedInv, Answered
  <2>3. GivenUp(u)' <=> ~ g.active /\ h.nRtx = MaxRetx - 1
    BY <2>1 DEF GivenUp, Keeps
  <2> QED
    BY <1>2, <1>3, <2>1, <2>2, <2>3 DEF Answered, GivenUp
<1>6. HandInv' /\ EndedInv'
  BY <1>2, <1>4, <1>5 DEF HandInv, EndedInv
<1>7. GridInv'
  <2>1. \A u \in Ues : allocs'[u].alloc = {}
    BY <1>2, <1>3 DEF NoGrant
  <2> QED
    BY <1>2, <2>1 DEF GridInv
<1> QED
  BY <1>1, <1>6, <1>7 DEF HInv

LEMMA ContiguousIsFree == \A len : Contiguous(len) \cap ulMask = {}
<1> SUFFICES ASSUME NEW len, NEW i \in FreeIntervals(len) PROVE i \cap ulMask = {}
  BY DEF Contiguous
<1> QED
  BY DEF FreeIntervals

\* An allocation that the eNB makes: free PRBs, and for a retransmission as many
\* as before, with a DCI if they moved or the UE was told to stop.
Fits(u, alloc, needs) ==
  /\ alloc \in (SUBSET Prb) \ {{}} /\ needs \in BOOLEAN
  /\ alloc \cap ulMask = {}
  /\ harq[u].active => Cardinality(alloc) = Cardinality(harq[u].alloc)
  /\ ~ needs => harq[u].active /\ alloc = harq[u].alloc /\ ~ harq[u].pdcch

LEMMA AllocChoices ==
  ASSUME UInv, NEW u \in Ues, AllocRetx(u) \/ AllocNewTx(u)
  PROVE  /\ phase = "alloc" /\ queue' = queue \ {u}
         /\ UNCHANGED <<harq, enbTbs, ue, fading, gapKind, cycle, phase, phich,
                        grants, pusch>>
         /\ \/ UNCHANGED <<allocs, ulMask>>
            \/ \E alloc, needs :
                 /\ Fits(u, alloc, needs)
                 /\ allocs' = [allocs EXCEPT ![u] = [alloc |-> alloc, dci |-> needs]]
                 /\ ulMask' = ulMask \cup alloc
<1>1. /\ phase = "alloc" /\ queue' = queue \ {u}
      /\ UNCHANGED <<harq, enbTbs, ue, fading, gapKind, cycle, phase, phich,
                     grants, pusch>>
  BY DEF AllocRetx, AllocNewTx
<1>2. ASSUME NEW alloc, NEW needs, Fits(u, alloc, needs), Allocate(u, alloc, needs)
      PROVE  \/ UNCHANGED <<allocs, ulMask>>
             \/ /\ allocs' = [allocs EXCEPT ![u] = [alloc |-> alloc, dci |-> needs]]
                /\ ulMask' = ulMask \cup alloc
  BY <1>2 DEF Allocate
<1>3. Refuse \/ \E alloc, needs : Fits(u, alloc, needs) /\ Allocate(u, alloc, needs)
  <2>1. CASE AllocRetx(u)
    <3> DEFINE same  == harq[u].alloc
               moved == Contiguous(Cardinality(same))
    <3>1. harq[u] \in Proc /\ harq[u].active
      BY <2>1 DEF UInv, IInv, AllocRetx, HasPendingRetx
    <3>2. same \in (SUBSET Prb) \ {{}}
      <4>1. same \in SUBSET Prb
        BY <3>1 DEF Proc
      <4>2. same # {}
        BY <3>1 DEF UInv, AllocInv
      <4> QED
        BY <4>1, <4>2
    <3>3. moved \in SUBSET Prb /\ moved \cap ulMask = {}
      BY ContiguousInCarrier, ContiguousIsFree
    <3>4. Cardinality(moved) = Cardinality(same) => moved # {}
      <4>1. Cardinality(same) # 0
        BY <3>2, PrbsCounted
      <4>2. Cardinality({}) = 0
        BY FS_EmptySet
      <4> QED
        BY <4>1, <4>2
    <3>5. ASSUME NEW alloc
          PROVE  /\ RetxRequiresPdcch(harq[u], alloc) \in BOOLEAN
                 /\ ~ RetxRequiresPdcch(harq[u], alloc) =>
                      alloc = same /\ ~ harq[u].pdcch
      BY <3>1 DEF RetxRequiresPdcch, Proc
    <3>6. \/ /\ same \cap ulMask = {}
             /\ Allocate(u, same, RetxRequiresPdcch(harq[u], same))
          \/ /\ Cardinality(moved) = Cardinality(same)
             /\ Allocate(u, moved, RetxRequiresPdcch(harq[u], moved))
          \/ Refuse
      BY <2>1 DEF AllocRetx
    <3> HIDE DEF moved
    <3>7. CASE same \cap ulMask = {} /\ Allocate(u, same, RetxRequiresPdcch(harq[u], same))
      <4>1. Fits(u, same, RetxRequiresPdcch(harq[u], same))
        BY <3>1, <3>2, <3>5, <3>7 DEF Fits
      <4> QED
        BY <3>7, <4>1
    <3>8. CASE /\ Cardinality(moved) = Cardinality(same)
               /\ Allocate(u, moved, RetxRequiresPdcch(harq[u], moved))
      <4>1. Fits(u, moved, RetxRequiresPdcch(harq[u], moved))
        BY <3>1, <3>3, <3>4, <3>5, <3>8 DEF Fits
      <4> QED
        BY <3>8, <4>1
    <3> QED
      BY <3>6, <3>7, <3>8
  <2>2. CASE AllocNewTx(u)
    <3>1. ~ harq[u].active
      BY <2>2 DEF AllocNewTx, HasPendingRetx, UInv, IInv, Consistent
    <3>2. \/ Refuse
          \/ \E want \in Wants : /\ Contiguous(want) # {}
                                 /\ Allocate(u, Contiguous(want), TRUE)
      BY <2>2 DEF AllocNewTx
    <3>3. SUFFICES ASSUME NEW want \in Wants, Contiguous(want) # {},
                          Allocate(u, Contiguous(want), TRUE)
                   PROVE  \E alloc, needs : Fits(u, alloc, needs)
                                            /\ Allocate(u, alloc, needs)
      BY <3>2
    <3>4. Contiguous(want) \in SUBSET Prb /\ Contiguous(want) \cap ulMask = {}
      BY ContiguousInCarrier, ContiguousIsFree
    <3>5. Fits(u, Contiguous(want), TRUE)
      BY <3>1, <3>3, <3>4 DEF Fits
    <3> QED
      BY <3>3, <3>5
  <2> QED
    BY <2>1, <2>2
<1>4. \/ UNCHANGED <<allocs, ulMask>>
      \/ \E alloc, needs :
           /\ Fits(u, alloc, needs)
           /\ allocs' = [allocs EXCEPT ![u] = [alloc |-> alloc, dci |-> needs]]
           /\ ulMask' = ulMask \cup alloc
  BY <1>2, <1>3 DEF Refuse
<1> QED
  BY <1>1, <1>4

LEMMA AllocHInv == HInv /\ (\E u \in Ues : AllocRetx(u) \/ AllocNewTx(u)) => HInv'
<1> SUFFICES ASSUME HInv, NEW u \in Ues, AllocRetx(u) \/ AllocNewTx(u) PROVE HInv'
  OBVIOUS
<1>1. UInv /\ UInv'
  BY AllocRetxUInv, AllocNewTxUInv DEF HInv
<1>2. /\ phase = "alloc"
      /\ UNCHANGED <<harq, ue, gapKind, cycle, phase, phich, grants, pusch>>
  BY <1>1, AllocChoices
<1>3. /\ \A v \in Ues : /\ HoldsBlock(v)' <=> HoldsBlock(v)
                        /\ Deaf(v)' <=> Deaf(v)
                        /\ Answered(v)' <=> Answered(v)
  BY <1>2 DEF HoldsBlock, BeginsWith, Deaf, Answered, GivenUp, PhichEnabled, InGap
<1>4. EndedInv'
  BY <1>2, <1>3 DEF HInv, EndedInv
<1>5. CASE UNCHANGED <<allocs, ulMask>>
  <2>1. HandInv'
    BY <1>2, <1>3, <1>5 DEF HInv, HandInv, Hand, HandAlloc
  <2>2. GridInv'
    BY <1>2, <1>5 DEF HInv, GridInv
  <2> QED
    BY <1>1, <1>4, <2>1, <2>2 DEF HInv
<1>6. ASSUME NEW alloc, NEW needs, Fits(u, alloc, needs),
             allocs' = [allocs EXCEPT ![u] = [alloc |-> alloc, dci |-> needs]],
             ulMask' = ulMask \cup alloc
      PROVE  HInv'
  <2> DEFINE new == [alloc |-> alloc, dci |-> needs]
  <2>1. new.alloc = alloc /\ new.dci = needs
    OBVIOUS
  <2>2. allocs'[u] = new /\ \A v \in Ues \ {u} : allocs'[v] = allocs[v]
    BY <1>1, <1>6 DEF UInv, TypeInv
  <2> HIDE DEF new
  <2>3. HandInv'
    <3> SUFFICES ASSUME NEW v \in Ues, gapKind[v] # "fading" PROVE Hand(v)'
      BY <1>2 DEF HandInv
    <3>1. HoldsBlock(v) /\ HandAlloc(v)
      BY <1>2 DEF HInv, HandInv, Hand
    <3>2. HandAlloc(v)'
      BY <1>2, <1>3, <1>6, <2>1, <2>2, <3>1 DEF HandAlloc, Fits
    <3> QED
      BY <1>2, <1>3, <3>1, <3>2 DEF Hand
  <2>4. GridInv'
    <3>1. /\ \A v \in Ues : allocs[v].alloc \subseteq ulMask
          /\ \A v, w \in Ues : v # w => allocs[v].alloc \cap allocs[w].alloc = {}
          /\ alloc \cap ulMask = {}
      BY <1>2, <1>6 DEF HInv, GridInv, Fits
    <3>2. \A v \in Ues : allocs'[v].alloc \subseteq ulMask'
      BY <1>6, <2>1, <2>2, <3>1
    <3>3. \A v, w \in Ues : v # w => allocs'[v].alloc \cap allocs'[w].alloc = {}
      BY <2>1, <2>2, <3>1
    <3> QED
      BY <1>2, <3>2, <3>3 DEF GridInv
  <2> QED
    BY <1>1, <1>4, <2>3, <2>4 DEF HInv
<1> QED
  BY <1>1, <1>5, <1>6, AllocChoices

\* What generate_sched_results makes of a process: it is transmitted where it
\* was allocated, or its retransmission is skipped.
LEMMA ResultsOf ==
  ASSUME UInv, GenerateResults, NEW u \in Ues
  PROVE  LET h == harq[u]
             g == harq'[u]
             a == allocs[u].alloc
         IN  /\ grants'[u] # NoGrant <=> allocs[u] # NoGrant
             /\ grants'[u].alloc = a
             /\ h.active => g.active /\ g.nRtx = h.nRtx + 1
             /\ BeginsWith(u)' <=> allocs[u] # NoGrant /\ ~ h.active
             /\ allocs[u] # NoGrant =>
                  /\ g.active /\ g.alloc = a /\ g.phich
                  /\ grants'[u] = Format0(u) /\ enbTbs'[u] = Format0(u).tbs
                  /\ phich'[u] = phich[u]
                  /\ ~ h.active => g.nRtx = 0
             /\ allocs[u] = NoGrant =>
                  /\ h.active => g.alloc = h.alloc /\ g.phich = h.phich /\ g.pdcch
                  /\ h.active => phich'[u] = IF phich[u] = "none" THEN "none" ELSE "ack"
                  /\ ~ h.active => g = h /\ phich'[u] = phich[u]
                  /\ enbTbs'[u] = enbTbs[u]
<1> DEFINE h == harq[u]
           g == harq'[u]
           a == allocs[u].alloc
<1>1. /\ phase = "alloc" /\ phase' = "dl"
      /\ phich'[u] = FinalPhich(u)
      /\ grants'[u] = IF IsUlAlloc(u) THEN Format0(u) ELSE NoGrant
      /\ enbTbs'[u] = IF IsUlAlloc(u) THEN Format0(u).tbs ELSE enbTbs[u]
      /\ g = AfterResults(u)
  BY DEF GenerateResults
<1>2. h \in Proc
  BY DEF UInv, IInv
<1>3. CASE allocs[u] # NoGrant
  <2>1. Format0(u) \in FullGrant /\ Format0(u).retx = h.active
    BY <1>1, <1>3, Format0Facts DEF IsUlAlloc
  <2>2. Format0(u).alloc = a /\ Format0(u) # NoGrant
    BY <2>1 DEF Format0, FullGrant, NoGrant
  <2>3. g = IF h.active THEN NewRetx(h, a) ELSE NewTx(h, a)
    BY <1>1, <1>3 DEF AfterResults, IsUlAlloc
  <2> HIDE DEF a
  <2>4. /\ g.active /\ g.alloc = a /\ g.phich
        /\ h.active => g.nRtx = h.nRtx + 1
        /\ ~ h.active => g.nRtx = 0
    BY <1>2, <2>3 DEF NewRetx, NewTx, Proc
  <2>5. phich'[u] = phich[u]
    BY <1>1, <1>3 DEF FinalPhich, MissedRetx, IsUlAlloc
  <2>6. grants'[u] = Format0(u) /\ enbTbs'[u] = Format0(u).tbs
    BY <1>1, <1>3 DEF IsUlAlloc
  <2>7. BeginsWith(u)' <=> ~ h.active
    BY <1>1, <2>1, <2>2, <2>6 DEF BeginsWith
  <2> QED
    BY <1>3, <2>2, <2>4, <2>5, <2>6, <2>7 DEF a
<1>4. CASE allocs[u] = NoGrant
  <2>1. grants'[u] = NoGrant /\ enbTbs'[u] = enbTbs[u]
    BY <1>1, <1>4 DEF IsUlAlloc
  <2>2. g = IF h.active THEN RetxSkipped(h) ELSE h
    BY <1>1, <1>4 DEF AfterResults, IsUlAlloc
  <2>3. h.active => /\ g.active /\ g.nRtx = h.nRtx + 1
                    /\ g.alloc = h.alloc /\ g.phich = h.phich /\ g.pdcch
    BY <1>2, <2>2 DEF RetxSkipped, Proc
  <2>4. /\ h.active => phich'[u] = IF phich[u] = "none" THEN "none" ELSE "ack"
        /\ ~ h.active => phich'[u] = phich[u]
    BY <1>1, <1>4 DEF FinalPhich, MissedRetx, IsUlAlloc
  <2>5. ~ BeginsWith(u)'
    BY <2>1 DEF BeginsWith
  <2> QED
    BY <1>4, <2>1, <2>2, <2>3, <2>4, <2>5
<1> QED
  BY <1>3, <1>4

LEMMA GenerateResultsHInv == HInv /\ GenerateResults => HInv'
<1> SUFFICES ASSUME HInv, GenerateResults PROVE HInv'
  OBVIOUS
<1>1. UInv /\ UInv'
  BY GenerateResultsUInv DEF HInv
<1>2. phase = "alloc" /\ phase' = "dl" /\ UNCHANGED <<ue, gapKind, cycle, pusch>>
  BY DEF GenerateResults
<1>3. ASSUME NEW u \in Ues
      PROVE  /\ ~ BeginsWith(u)
             /\ PhichEnabled(u)' <=> PhichEnabled(u)
             /\ Deaf(u)' <=> Deaf(u)
             /\ allocs[u] # NoGrant => harq[u].active \/ allocs[u].dci
  BY <1>1, <1>2 DEF UInv, AllocInv, BeginsWith, Deaf, PhichEnabled, InGap
<1>4. ASSUME NEW u \in Ues, gapKind[u] # "fading"
      PROVE  Hand(u)'
  <2> DEFINE h == harq[u]
             g == harq'[u]
  <2>1. HoldsBlock(u) /\ HandAlloc(u)
    BY <1>2, <1>4 DEF HInv, HandInv, Hand
  <2>2. HoldsBlock(u)'
    <3>1. g.active /\ ~ BeginsWith(u)' => h.active
      BY <1>1, ResultsOf
    <3> QED
      BY <1>2, <1>3, <2>1, <3>1 DEF HoldsBlock
  <2>3. CASE allocs[u] # NoGrant
    <3>1. /\ grants'[u] # NoGrant /\ grants'[u] = Format0(u)
          /\ g.alloc = allocs[u].alloc /\ g.phich /\ phich'[u] = phich[u]
      BY <1>1, <2>3, ResultsOf
    <3>2. Format0(u).dci = allocs[u].dci /\ Format0(u).alloc = allocs[u].alloc
      BY DEF Format0
    <3>3. ~ allocs[u].dci => phich[u] = "nack" /\ ue[u].ackFor = allocs[u].alloc
      BY <1>3, <2>1, <2>3 DEF HandAlloc
    <3>4. HandDl(u)'
      BY <1>2, <3>1, <3>2, <3>3 DEF HandDl
    <3> QED
      BY <1>2, <2>2, <3>4 DEF Hand
  <2>4. CASE allocs[u] = NoGrant
    <3>1. /\ grants'[u] = NoGrant
          /\ h.active => /\ g.alloc = h.alloc /\ g.phich = h.phich /\ g.pdcch
                         /\ phich'[u] = IF phich[u] = "none" THEN "none" ELSE "ack"
          /\ ~ h.active => g = h
      BY <1>1, <2>4, ResultsOf
    <3>2. h.active => /\ ~ h.phich
                      /\ \/ phich[u] = "nack" /\ ue[u].ackFor = h.alloc
                         \/ phich[u] = "none" /\ Deaf(u)
      BY <2>1 DEF HandAlloc
    <3>3. HandDl(u)'
      BY <1>2, <1>3, <3>1, <3>2 DEF HandDl
    <3> QED
      BY <1>2, <2>2, <3>3 DEF Hand
  <2> QED
    BY <2>3, <2>4
<1>5. ASSUME NEW u \in Ues, gapKind[u] # "fading"
      PROVE  Answered(u)'
  <2>1. ~ harq'[u].active =>
          ~ harq[u].active /\ harq'[u] = harq[u] /\ phich'[u] = phich[u]
    BY <1>1, ResultsOf
  <2>2. Answered(u)
    BY <1>5 DEF HInv, EndedInv
  <2> QED
    BY <1>2, <1>3, <2>1, <2>2 DEF Answered, GivenUp
<1>6. HandInv' /\ EndedInv'
  BY <1>2, <1>4, <1>5 DEF HandInv, EndedInv
<1>7. GridInv'
  <2>1. \A u \in Ues : grants'[u].alloc = allocs[u].alloc
    BY <1>1, ResultsOf
  <2> QED
    BY <1>2, <2>1 DEF HInv, GridInv
<1> QED
  BY <1>1, <1>6, <1>7 DEF HInv

\* What a UE that receives its DCIs makes of the TTI.
DciFor(u) == IF u \in Carried THEN Dci(grants[u]) ELSE NoDci

LEMMA UesHear ==
  ASSUME UInv, UesTransmit, NEW u \in Ues, gapKind[u] # "fading"
  PROVE  \E hi \in Hearings :
           /\ ue'[u] = React(ue[u], DciFor(u), hi).ue
           /\ pusch'[u] = React(ue[u], DciFor(u), hi).tx
           /\ ue[u].ackFor = {} => hi = "none"
           /\ ue[u].ackFor # {} /\ phich[u] # "none" => hi = phich[u]
           /\ ue[u].ackFor # {} /\ phich[u] = "none" /\ ~ PhichEnabled(u) => hi = "ack"
<1>1. PICK missed \in MayMiss, noise \in [Ues -> {"ack", "nack"}] :
        LET dci(v)    == IF v \in Carried \ missed THEN Dci(grants[v]) ELSE NoDci
            result(v) == React(ue[v], dci(v), HeardPhich(v, noise[v]))
        IN  /\ ue' = [v \in Ues |-> result(v).ue]
            /\ pusch' = [v \in Ues |-> result(v).tx]
  BY DEF UesTransmit
<1>2. u \notin missed
  BY DEF MayMiss
<1> DEFINE hi == HeardPhich(u, noise[u])
<1>3. ue'[u] = React(ue[u], DciFor(u), hi).ue /\ pusch'[u] = React(ue[u], DciFor(u), hi).tx
  BY <1>1, <1>2 DEF DciFor
<1>4. noise[u] \in {"ack", "nack"} /\ phich[u] \in {"none", "ack", "nack"}
  BY DEF UInv, TypeInv
<1>5. /\ hi \in Hearings
      /\ ue[u].ackFor = {} => hi = "none"
      /\ ue[u].ackFor # {} /\ phich[u] # "none" => hi = phich[u]
      /\ ue[u].ackFor # {} /\ phich[u] = "none" /\ ~ PhichEnabled(u) => hi = "ack"
  BY <1>4 DEF HeardPhich, Hearings
<1> HIDE DEF hi
<1> QED
  BY <1>3, <1>5

\* The DCI of a grant
LEMMA DciOfGrant ==
  ASSUME UInv, phase = "dl", NEW u \in Ues
  PROVE  /\ grants[u] # NoGrant => grants[u] \in FullGrant
         /\ grants[u] # NoGrant /\ grants[u].dci =>
              /\ DciFor(u) \in Dcis
              /\ DciFor(u) = [mcs |-> grants[u].mcs, ndi |-> grants[u].ndi,
                              prbs |-> grants[u].alloc,
                              rv |-> IF grants[u].mcs = "reserved"
                                     THEN grants[u].rv ELSE 0]
         /\ ~ (grants[u] # NoGrant /\ grants[u].dci) => DciFor(u) = NoDci
<1>1. grants[u] \in {NoGrant} \cup FullGrant
  BY DEF UInv, TypeInv
<1>2. u \in Carried <=> grants[u] # NoGrant /\ grants[u].dci
  BY DEF Carried
<1>3. grants[u] \in FullGrant => Dci(grants[u]) \in Dcis
  BY DEF FullGrant, Dci, Dcis
<1> QED
  BY <1>1, <1>2, <1>3 DEF DciFor, Dci

\* What becomes of the UE of a process that is granted: it follows the DCI, or
\* a NACK makes it repeat.
LEMMA GrantedUe ==
  ASSUME HInv, UesTransmit, NEW u \in Ues, gapKind[u] # "fading", grants[u] # NoGrant
  PROVE  /\ ue'[u].has /\ ue'[u].lastTbs # NoTbs /\ ue'[u].pdu = "new"
         /\ ue'[u].ackFor = grants[u].alloc /\ pusch'[u].prbs = grants[u].alloc
<1>1. UInv /\ phase = "dl"
  BY DEF HInv, UesTransmit
<1>2. /\ InStep(u) /\ HoldsBlock(u) /\ HandDl(u) /\ ue[u] \in UeProc
      /\ harq[u].active /\ harq[u].alloc # {}
  BY <1>1 DEF HInv, HandInv, Hand, UInv, StepInv, TypeInv, InStep, GrantOf, AllocInv
<1>3. PICK hi \in Hearings :
        /\ ue'[u] = React(ue[u], DciFor(u), hi).ue
        /\ pusch'[u] = React(ue[u], DciFor(u), hi).tx
        /\ ue[u].ackFor # {} /\ phich[u] # "none" => hi = phich[u]
  BY <1>1, UesHear
<1> DEFINE s == ue[u]
           d == DciFor(u)
<1>4. CASE grants[u].dci
  <2>1. /\ d \in Dcis /\ d.mcs = grants[u].mcs /\ d.ndi = grants[u].ndi
        /\ d.prbs = grants[u].alloc
    BY <1>1, <1>4, DciOfGrant
  <2>2. d.ndi = harq[u].ndi /\ (BeginsWith(u) => d.mcs = "first")
    BY <1>1, <1>2, <2>1 DEF InStep, GrantOf, BeginsWith
  <2>3. BeginsWith(u) => (s.has => s.ndi # d.ndi)
    BY <1>2, <2>2 DEF InStep
  <2>4. ~ BeginsWith(u) => s.lastTbs # NoTbs /\ s.pdu = "new"
    BY <1>2 DEF HoldsBlock
  <2> HIDE DEF s, d
  <2>5. d.mcs = "reserved" => s.lastTbs # NoTbs
    BY <2>2, <2>4
  <2>6. s \in UeProc
    BY <1>2 DEF s
  <2> DEFINE r == React(s, d, hi)
  <2>7. /\ r.ue.has /\ r.ue.ackFor = d.prbs /\ r.ue.lastTbs # NoTbs
        /\ r.tx.prbs = d.prbs
        /\ r.ue.pdu = s.pdu \/ r.ue.pdu = "new"
        /\ (s.has => s.ndi # d.ndi) => r.ue.pdu = "new"
    BY <2>1, <2>5, <2>6, ReactFollows
  <2> QED
    BY <1>3, <2>1, <2>3, <2>4, <2>7 DEF s, d
<1>5. CASE ~ grants[u].dci
  <2>1. d = NoDci
    BY <1>1, <1>5, DciOfGrant
  <2>2. ~ BeginsWith(u)
    BY <1>1, <1>2, <1>5 DEF InStep, GrantOf, BeginsWith
  <2>3. /\ s.has /\ s.lastTbs # NoTbs /\ s.pdu = "new"
        /\ phich[u] = "nack" /\ s.ackFor = harq[u].alloc
        /\ grants[u].alloc = harq[u].alloc
    BY <1>2, <1>5, <2>2 DEF HoldsBlock, HandDl
  <2>4. s.nb < MaxRetx
    <3>1. s.nb <= harq[u].nRtx
      BY <1>1, <1>2, <2>2 DEF InStep, CountOf
    <3>2. harq[u].nRtx \in Nat /\ harq[u].nRtx + 1 <= MaxRetx /\ MaxRetx \in Nat /\ s.nb \in Nat
      BY <1>1, ProcNumbers
    <3> HIDE DEF s
    <3> QED
      BY <3>1, <3>2
  <2>5. hi = "nack"
    BY <1>2, <1>3, <2>3
  <2> HIDE DEF s, d
  <2>6. s \in UeProc
    BY <1>2 DEF s
  <2> DEFINE r == React(s, NoDci, "nack")
  <2>7. /\ r.ue.has /\ r.ue.ackFor = s.ackFor /\ r.ue.lastTbs = s.lastTbs
        /\ r.ue.pdu = s.pdu
        /\ r.tx = [prbs |-> s.ackFor, tbs |-> s.tbs, rv |-> RvOf(s), new |-> FALSE]
    BY <2>3, <2>4, <2>6, ReactRepeats
  <2>8. r.tx.prbs = s.ackFor
    BY <2>7
  <2> HIDE DEF r
  <2>9. ue'[u] = r.ue /\ pusch'[u] = r.tx
    BY <1>3, <2>1, <2>5 DEF s, d, r
  <2> QED
    BY <2>3, <2>7, <2>8, <2>9
<1> QED
  BY <1>4, <1>5

\* What becomes of the UE of a process that is not granted: it is silent, if
\* the eNB has not given its block up.
LEMMA UngrantedUe ==
  ASSUME HInv, UesTransmit, NEW u \in Ues, gapKind[u] # "fading", grants[u] = NoGrant,
         ~ GivenUp(u)
  PROVE  /\ pusch'[u] = NoTx /\ ue'[u].ackFor = {}
         /\ ue'[u].has = ue[u].has /\ ue'[u].lastTbs = ue[u].lastTbs
         /\ ue'[u].tbs = ue[u].tbs /\ ue'[u].pdu = ue[u].pdu /\ ue'[u].rv = ue[u].rv
         /\ harq[u].active => ue'[u].feedback
<1>1. UInv /\ phase = "dl"
  BY DEF HInv, UesTransmit
<1>2. /\ HandDl(u) /\ Answered(u) /\ ue[u] \in UeProc
      /\ harq[u].active => harq[u].alloc # {}
  BY <1>1 DEF HInv, HandInv, EndedInv, Hand, UInv, TypeInv, AllocInv
<1>3. PICK hi \in Hearings :
        /\ ue'[u] = React(ue[u], DciFor(u), hi).ue
        /\ pusch'[u] = React(ue[u], DciFor(u), hi).tx
        /\ ue[u].ackFor = {} => hi = "none"
        /\ ue[u].ackFor # {} /\ phich[u] # "none" => hi = phich[u]
        /\ ue[u].ackFor # {} /\ phich[u] = "none" /\ ~ PhichEnabled(u) => hi = "ack"
  BY <1>1, UesHear
<1>4. DciFor(u) = NoDci
  BY <1>1, DciOfGrant
<1>5. harq[u].active =>
        \/ hi = "ack"
        \/ hi = "none" /\ ue[u].feedback
  BY <1>2, <1>3 DEF HandDl, Deaf
<1>6. ~ harq[u].active => hi \in {"none", "ack"}
  BY <1>1, <1>2, <1>3 DEF Answered
<1> DEFINE s == ue[u]
           r == React(s, NoDci, hi)
<1>7. hi \in {"none", "ack"}
  BY <1>5, <1>6
<1>8. /\ r.tx = NoTx /\ r.ue.ackFor = {}
      /\ r.ue.feedback = IF hi = "ack" THEN TRUE ELSE s.feedback
      /\ r.ue.has = s.has /\ r.ue.lastTbs = s.lastTbs /\ r.ue.tbs = s.tbs
      /\ r.ue.pdu = s.pdu /\ r.ue.rv = s.rv
  <2> HIDE DEF s
  <2>1. s \in UeProc
    BY <1>2 DEF s
  <2> QED
    BY <1>7, <2>1, ReactSilent
<1>9. ue'[u] = r.ue /\ pusch'[u] = r.tx
  BY <1>3, <1>4
<1> HIDE DEF r
<1> QED
  BY <1>5, <1>8, <1>9

LEMMA UesTransmitHInv == HInv /\ UesTransmit => HInv'
<1> SUFFICES ASSUME HInv, UesTransmit PROVE HInv'
  OBVIOUS
<1>1. UInv /\ UInv'
  BY UesTransmitUInv DEF HInv
<1>2. phase = "dl" /\ phase' = "ul" /\ UNCHANGED <<harq, gapKind, cycle, phich, grants>>
  BY DEF UesTransmit
<1>3. ASSUME NEW u \in Ues, gapKind[u] # "fading"
      PROVE  Hand(u)' /\ Answered(u)'
  <2>1. HandDl(u) /\ HoldsBlock(u) /\ Answered(u)
    BY <1>2, <1>3 DEF HInv, HandInv, EndedInv, Hand
  <2>2. grants[u] # NoGrant => harq[u].active
    BY <1>1, <1>2, <1>3 DEF UInv, StepInv, InStep, GrantOf
  <2>3. CASE grants[u] # NoGrant
    <3>1. /\ ue'[u].has /\ ue'[u].lastTbs # NoTbs /\ ue'[u].pdu = "new"
          /\ ue'[u].ackFor = grants[u].alloc /\ pusch'[u].prbs = grants[u].alloc
      BY <1>3, <2>3, GrantedUe
    <3>2. HoldsBlock(u)'
      BY <3>1 DEF HoldsBlock
    <3>3. HandUl(u)'
      BY <1>2, <2>1, <2>2, <2>3, <3>1 DEF HandDl, HandUl
    <3> QED
      BY <1>2, <2>2, <2>3, <3>2, <3>3 DEF Hand, Answered
  <2>4. CASE grants[u] = NoGrant /\ harq[u].active
    <3>1. /\ pusch'[u] = NoTx /\ ue'[u].ackFor = {} /\ ue'[u].feedback
          /\ ue'[u].has = ue[u].has /\ ue'[u].lastTbs = ue[u].lastTbs
          /\ ue'[u].pdu = ue[u].pdu
      BY <1>3, <2>4, UngrantedUe DEF GivenUp
    <3>2. HoldsBlock(u)'
      BY <2>1, <2>4, <3>1 DEF HoldsBlock, BeginsWith
    <3>3. HandUl(u)'
      BY <1>2, <2>1, <2>4, <3>1 DEF HandDl, HandUl
    <3> QED
      BY <1>2, <2>4, <3>2, <3>3 DEF Hand, Answered
  <2>5. CASE ~ harq[u].active
    <3>1. GivenUp(u) \/ (pusch'[u] = NoTx /\ ue'[u].ackFor = {})
      BY <1>3, <2>2, <2>5, UngrantedUe
    <3>2. Answered(u)'
      BY <1>2, <3>1 DEF Answered, GivenUp, NoTx
    <3>3. HoldsBlock(u)' /\ HandUl(u)'
      BY <1>2, <2>2, <2>5 DEF HoldsBlock, HandUl
    <3> QED
      BY <1>2, <3>2, <3>3 DEF Hand
  <2> QED
    BY <2>3, <2>4, <2>5
<1>4. HandInv' /\ EndedInv'
  BY <1>2, <1>3 DEF HandInv, EndedInv
<1>5. GridInv'
  BY <1>2 DEF HInv, GridInv
<1> QED
  BY <1>1, <1>4, <1>5 DEF HInv

\* What the CRCs make of a process and its UE
LEMMA DecodedProc ==
  ASSUME UInv, DecodePusch, NEW u \in Ues
  PROVE  LET h == harq[u]
             g == harq'[u]
         IN  /\ Keeps(h, g) /\ (h.active => g.phich = h.phich)
             /\ grants[u] = NoGrant => g = h /\ ue'[u] = ue[u]
             /\ ~ h.active => g = h
             /\ g.active => g.pdcch = h.pdcch /\ ue'[u] = ue[u]
             /\ h.active /\ ~ g.active => grants[u] # NoGrant /\ g.ack
             /\ h.active /\ ~ g.active => ue'[u] = [ue[u] EXCEPT !.pdu = "delivered"]
             /\ ue'[u] \in {ue[u], [ue[u] EXCEPT !.pdu = "delivered"]}
<1> DEFINE granted == {v \in Ues : grants[v] # NoGrant}
           h == harq[u]
           g == harq'[u]
<1>1. PICK good \in SUBSET granted :
        /\ harq' = [v \in Ues |-> IF v \in granted THEN SetAck(harq[v], v \in good)
                                  ELSE harq[v]]
        /\ ue' = [v \in Ues |-> IF v \in good
                                THEN [ue[v] EXCEPT !.pdu = "delivered"] ELSE ue[v]]
  BY DEF DecodePusch
<1>2. g = (IF grants[u] # NoGrant THEN SetAck(h, u \in good) ELSE h)
  BY <1>1
<1>3. /\ ue'[u] = IF u \in good THEN [ue[u] EXCEPT !.pdu = "delivered"] ELSE ue[u]
      /\ u \in good => grants[u] # NoGrant
  BY <1>1
<1> DEFINE ok == u \in good
<1>4. h \in Proc /\ ok \in BOOLEAN
  BY DEF UInv, IInv
<1>5. Keeps(h, SetAck(h, ok))
  BY <1>4, MethodsKeep
<1>6. LET a == SetAck(h, ok)
      IN  /\ ~ h.active => a = h
          /\ h.active => a.phich = h.phich /\ a.active = ~ ok /\ a.ack = ok
          /\ a.active => a.pdcch = h.pdcch
  BY <1>4 DEF SetAck, ResetPendingData, Proc
<1>7. Keeps(h, h)
  BY DEF Keeps
<1>8. ue'[u] = IF ok THEN [ue[u] EXCEPT !.pdu = "delivered"] ELSE ue[u]
  BY <1>3
<1>9. ok => grants[u] # NoGrant
  BY <1>3
<1> HIDE DEF ok, h, g, granted
<1>10. g = (IF grants[u] # NoGrant THEN SetAck(h, ok) ELSE h)
  BY <1>2 DEF ok
<1>11. CASE grants[u] = NoGrant
  <2>1. g = h /\ ue'[u] = ue[u]
    BY <1>8, <1>9, <1>10, <1>11
  <2> QED
    BY <1>7, <1>11, <2>1 DEF g, h
<1>12. CASE grants[u] # NoGrant
  BY <1>5, <1>6, <1>8, <1>10, <1>12 DEF g, h
<1> QED
  BY <1>11, <1>12

LEMMA DecodePuschHInv == HInv /\ DecodePusch => HInv'
<1> SUFFICES ASSUME HInv, DecodePusch PROVE HInv'
  OBVIOUS
<1>1. UInv /\ UInv'
  BY DecodePuschUInv DEF HInv
<1>2. phase = "ul" /\ phase' = "tti" /\ gapKind' = gapKind
  BY DEF DecodePusch
<1>3. ASSUME NEW u \in Ues, gapKind[u] # "fading"
      PROVE  Hand(u)' /\ Answered(u)'
  <2> DEFINE h == harq[u]
             g == harq'[u]
  <2>1. HandUl(u) /\ HoldsBlock(u) /\ Answered(u) /\ ue[u] \in UeProc
    BY <1>1, <1>2, <1>3 DEF HInv, HandInv, EndedInv, Hand, UInv, TypeInv
  <2>2. /\ Keeps(h, g) /\ (h.active => g.phich = h.phich)
        /\ grants[u] = NoGrant => g = h /\ ue'[u] = ue[u]
        /\ ~ h.active => g = h
        /\ g.active => g.pdcch = h.pdcch /\ ue'[u] = ue[u]
        /\ h.active /\ ~ g.active => grants[u] # NoGrant /\ g.ack
    BY <1>1, DecodedProc
  <2>3. g.active => h.active /\ g.alloc = h.alloc
    BY <2>2 DEF Keeps
  <2>4. HoldsBlock(u)'
    BY <1>2, <2>1, <2>2, <2>3 DEF HoldsBlock, BeginsWith
  <2>5. HandTti(u)'
    BY <2>1, <2>2, <2>3 DEF HandTti, HandUl
  <2>6. Answered(u)'
    <3>1. CASE h.active
      BY <1>2, <2>1, <2>2, <3>1 DEF Answered, HandUl
    <3>2. CASE ~ h.active
      <4>1. grants[u] = NoGrant
        BY <2>1, <3>2 DEF HandUl
      <4> QED
        BY <1>2, <2>1, <2>2, <3>2, <4>1 DEF Answered, GivenUp
    <3> QED
      BY <3>1, <3>2
  <2> QED
    BY <1>2, <2>4, <2>5, <2>6 DEF Hand
<1>4. HandInv' /\ EndedInv'
  BY <1>2, <1>3 DEF HandInv, EndedInv
<1>5. GridInv'
  BY <1>2 DEF GridInv
<1> QED
  BY <1>1, <1>4, <1>5 DEF HInv

LEMMA NextHInv == PhichRoom /\ HInv /\ [Next]_vars => HInv'
<1> SUFFICES ASSUME PhichRoom, HInv, [Next]_vars PROVE HInv'
  OBVIOUS
<1>1. CASE FadingEnds \/ UNCHANGED vars
  <2>1. UInv'
    BY <1>1, NextUInv DEF HInv, Next
  <2>2. UNCHANGED <<harq, ue, gapKind, cycle, phase, ulMask, allocs, phich, grants,
                    pusch>>
    BY <1>1 DEF FadingEnds, vars
  <2>3. ASSUME NEW u \in Ues
        PROVE  (Hand(u)' <=> Hand(u)) /\ (Answered(u)' <=> Answered(u))
    BY <2>2 DEF Hand, HoldsBlock, BeginsWith, HandTti, HandAlloc, HandDl, HandUl,
                Deaf, PhichEnabled, InGap, Answered, GivenUp
  <2>4. HandInv' /\ EndedInv'
    BY <2>2, <2>3 DEF HInv, HandInv, EndedInv
  <2>5. GridInv'
    BY <2>2 DEF HInv, GridInv
  <2> QED
    BY <2>1, <2>4, <2>5 DEF HInv
<1> QED
  BY <1>1, StartTtiHInv, AllocHInv, GenerateResultsHInv, UesTransmitHInv,
     DecodePuschHInv DEF Next

LEMMA HandInvariant ==
  ASSUME PhichRoom PROVE Spec => []HInv
<1>1. HInv /\ [Next]_vars => HInv'
  BY NextHInv
<1> QED
  BY <1>1, InitHInv, PTL DEF Spec

\* While the PHICH list has room and its DCIs arrive, a UE whose retransmission
\* the eNB skips does not transmit in those PRBs, which the eNB may have granted
\* to another UE: it has heard an ACK, or takes the PHICH in its gap for one
\* (generate_sched_results, retx_skipped, new_grant_ul).
THEOREM SkippedStaySilent ==
  ASSUME PhichRoom PROVE Spec => []SkippedIsSilent
<1>1. HInv => SkippedIsSilent
  BY DEF HInv, HandInv, Hand, HandUl, SkippedIsSilent, OnAir
<1>2. Spec => []HInv
  BY HandInvariant
<1> QED
  BY <1>1, <1>2, PTL

\* If no DCI is lost, two UEs transmit on one PRB only when the eNB has given
\* up the block of one of them: nobody else is granted the PRBs of a UE that
\* transmits (sched_ul_users, generate_tti_result).
THEOREM CollisionsOnlyAfterGivingUp ==
  ASSUME PhichRoom, "fading" \notin GapKinds
  PROVE  Spec => []OnlyGivenUpCollide
<1>1. ASSUME HInv PROVE OnlyGivenUpCollide
  <2> SUFFICES ASSUME phase = "ul", NEW u \in Ues, NEW v \in Ues, u # v,
                      pusch[u].prbs \cap pusch[v].prbs # {},
                      ~ GivenUp(u), ~ GivenUp(v)
               PROVE  FALSE
    BY DEF OnlyGivenUpCollide, OnAir, GivenUp
  <2>1. ASSUME NEW w \in {u, v}
        PROVE  pusch[w].prbs = grants[w].alloc
    <3>1. gapKind[w] # "fading"
      BY <1>1 DEF HInv, UInv, TypeInv
    <3>2. HandUl(w) /\ Answered(w)
      BY <1>1, <3>1 DEF HInv, HandInv, EndedInv, Hand
    <3>3. pusch[w].prbs # {}
      BY <2>1
    <3>4. harq[w].active
      BY <2>1, <3>2, <3>3 DEF Answered
    <3>5. grants[w] # NoGrant
      BY <3>2, <3>3, <3>4 DEF HandUl, NoTx
    <3> QED
      BY <3>2, <3>5 DEF HandUl
  <2>2. grants[u].alloc \cap grants[v].alloc = {}
    BY <1>1 DEF HInv, GridInv
  <2> QED
    BY <2>1, <2>2
<1>2. Spec => []HInv
  BY HandInvariant
<1> QED
  BY <1>1, <1>2, PTL

-----------------------------------------------------------------------------
(* Sizes and redundancy versions. The size of a block is that of its first *)
(* grant: a move keeps the number of PRBs. The eNB numbers redundancy      *)
(* versions by its count of opportunities, the UE by its own; where the    *)
(* counts part, at a skipped retransmission, a DCI names the version. With *)
(* more than four transmissions the versions start again from 0, which a   *)
(* reserved MCS cannot name.                                               *)

TbsFor(u) == <<"first", Cardinality(harq[u].alloc)>>

Size(u) ==
  /\ ue[u].rv = 0
  /\ harq[u].active => enbTbs[u] = TbsFor(u)
  /\ harq[u].active /\ ~ BeginsWith(u) => ue[u].tbs = TbsFor(u) /\ ue[u].lastTbs = TbsFor(u)
  /\ phase = "alloc" /\ harq[u].active /\ allocs[u] # NoGrant =>
       Cardinality(allocs[u].alloc) = Cardinality(harq[u].alloc)
  /\ phase # "dl" /\ harq[u].active /\ ~ harq[u].pdcch =>
       ue[u].irv = (harq[u].nRtx + 1) % 4
  /\ phase \in {"dl", "ul"} /\ grants[u] # NoGrant => grants[u].tbs = TbsFor(u)
  /\ phase = "dl" /\ grants[u] # NoGrant =>
       /\ grants[u].rv = harq[u].nRtx /\ (grants[u].retx <=> grants[u].rv # 0)
       /\ grants[u].retx /\ grants[u].dci => grants[u].mcs = "reserved"
       /\ ~ grants[u].dci => ue[u].irv = grants[u].rv

SizeInv == \A u \in Ues : gapKind[u] # "fading" => Size(u) /\ GrantServed(u)

SInv == HInv /\ SizeInv

LEMMA InitSInv == Init => SInv
<1> SUFFICES ASSUME Init PROVE SInv
  OBVIOUS
<1>1. HInv
  BY InitHInv
<1>2. ASSUME NEW u \in Ues
      PROVE  harq[u].active = FALSE /\ ue[u].rv = 0 /\ phase = "tti"
  BY DEF Init, EmptyProc, FreshUe
<1>3. SizeInv
  BY <1>2 DEF SizeInv, Size, GrantServed, OnAir
<1> QED
  BY <1>1, <1>3 DEF SInv

LEMMA StartTtiSInv == PhichRoom /\ SInv /\ StartTti => SInv'
<1> SUFFICES ASSUME PhichRoom, SInv, StartTti PROVE SInv'
  OBVIOUS
<1>1. UInv /\ HInv'
  BY StartTtiHInv DEF SInv, HInv
<1>2. /\ phase = "tti" /\ phase' = "alloc"
      /\ UNCHANGED <<enbTbs, ue, gapKind, allocs, grants, pusch>>
  BY DEF StartTti
<1>3. ASSUME NEW u \in Ues, gapKind[u] # "fading"
      PROVE  Size(u)' /\ GrantServed(u)'
  <2> DEFINE h == harq[u]
             g == harq'[u]
  <2>1. Size(u)
    BY <1>3 DEF SInv, SizeInv
  <2>2. Keeps(h, g) /\ (g.active => g.pdcch \/ ~ h.pdcch)
    BY <1>1, StartTtiProc
  <2>3. allocs[u] = NoGrant
    BY <1>1, <1>2 DEF UInv, AllocInv
  <2>4. TbsFor(u)' = TbsFor(u) /\ g.nRtx = h.nRtx /\ (g.active => h.active)
    BY <2>2 DEF Keeps, TbsFor
  <2> QED
    BY <1>2, <2>1, <2>2, <2>3, <2>4 DEF Size, BeginsWith, GrantServed, OnAir
<1>4. SizeInv'
  BY <1>2, <1>3 DEF SizeInv
<1> QED
  BY <1>1, <1>4 DEF SInv

LEMMA AllocSInv == SInv /\ (\E u \in Ues : AllocRetx(u) \/ AllocNewTx(u)) => SInv'
<1> SUFFICES ASSUME SInv, NEW u \in Ues, AllocRetx(u) \/ AllocNewTx(u) PROVE SInv'
  OBVIOUS
<1>1. UInv /\ HInv'
  BY AllocHInv DEF SInv, HInv
<1>2. /\ phase = "alloc"
      /\ UNCHANGED <<harq, enbTbs, ue, gapKind, phase, grants, pusch>>
  BY <1>1, AllocChoices
<1>3. \/ UNCHANGED <<allocs, ulMask>>
      \/ \E alloc, needs :
           /\ Fits(u, alloc, needs)
           /\ allocs' = [allocs EXCEPT ![u] = [alloc |-> alloc, dci |-> needs]]
           /\ ulMask' = ulMask \cup alloc
  BY <1>1, AllocChoices
<1>4. ASSUME NEW v \in Ues
      PROVE  \/ allocs'[v] = allocs[v]
             \/ harq[v].active => Cardinality(allocs'[v].alloc) = Cardinality(harq[v].alloc)
  <2>1. allocs \in [Ues -> {NoGrant} \cup Alloc]
    BY <1>1 DEF UInv, TypeInv
  <2> QED
    BY <1>3, <2>1 DEF Fits
<1>5. ASSUME NEW v \in Ues, gapKind[v] # "fading"
      PROVE  Size(v)' /\ GrantServed(v)'
  <2>1. Size(v)
    BY <1>5 DEF SInv, SizeInv
  <2> QED
    BY <1>2, <1>4, <2>1 DEF Size, TbsFor, BeginsWith, GrantServed, OnAir
<1>6. SizeInv'
  BY <1>2, <1>5 DEF SizeInv
<1> QED
  BY <1>1, <1>6 DEF SInv

\* generate_format0() for a retransmission: with at most four transmissions, its
\* redundancy version is the number of opportunities before it and not 0, and its
\* size is the block's.
LEMMA RetxFormat0 ==
  ASSUME SInv, MaxRetx <= 4, phase = "alloc", NEW u \in Ues, gapKind[u] # "fading",
         harq[u].active, allocs[u] # NoGrant
  PROVE  LET g == Format0(u)
         IN  /\ g.rv = harq[u].nRtx + 1 /\ g.rv # 0
             /\ g.dci => g.mcs = "reserved"
             /\ g.tbs = <<"first", Cardinality(allocs[u].alloc)>>
             /\ ~ g.dci => ue[u].irv = g.rv
<1> DEFINE rv == (harq[u].nRtx + 1) % 4
<1>1. UInv /\ HandAlloc(u) /\ Size(u) /\ HasTriesLeft(harq[u])
  BY DEF SInv, HInv, HandInv, Hand, SizeInv, UInv, IInv, SettledIn
<1>2. harq[u].nRtx \in Nat /\ MaxRetx \in Nat
  BY <1>1, ProcNumbers
<1>3. harq[u].nRtx + 1 < MaxRetx
  BY <1>1 DEF HasTriesLeft
<1>4. rv = harq[u].nRtx + 1 /\ rv # 0
  BY <1>2, <1>3
<1>5. Cardinality(allocs[u].alloc) = Cardinality(harq[u].alloc)
      /\ enbTbs[u] = <<"first", Cardinality(harq[u].alloc)>>
  BY <1>1 DEF Size, TbsFor
<1>6. ~ allocs[u].dci => ue[u].irv = rv
  BY <1>1 DEF HandAlloc, Size
<1> HIDE DEF rv
<1>7. Format0(u).rv = rv /\ Format0(u).dci = allocs[u].dci
  BY DEF Format0, rv
<1>8. /\ allocs[u].dci => Format0(u).mcs = "reserved"
      /\ Format0(u).tbs = <<"first", Cardinality(allocs[u].alloc)>>
  BY <1>4, <1>5 DEF Format0, rv
<1> QED
  BY <1>4, <1>6, <1>7, <1>8

LEMMA GenerateResultsSInv == MaxRetx <= 4 /\ SInv /\ GenerateResults => SInv'
<1> SUFFICES ASSUME MaxRetx <= 4, SInv, GenerateResults PROVE SInv'
  OBVIOUS
<1>1. UInv /\ HInv'
  BY GenerateResultsHInv DEF SInv, HInv
<1>2. phase = "alloc" /\ phase' = "dl" /\ UNCHANGED <<ue, gapKind, pusch>>
  BY DEF GenerateResults
<1>3. ASSUME NEW u \in Ues, gapKind[u] # "fading"
      PROVE  Size(u)' /\ GrantServed(u)'
  <2> DEFINE h == harq[u]
             g == harq'[u]
  <2>1. Size(u) /\ ~ BeginsWith(u)
    BY <1>2, <1>3 DEF SInv, SizeInv, BeginsWith
  <2>2. CASE allocs[u] # NoGrant /\ h.active
    <3>1. /\ g.active /\ g.nRtx = h.nRtx + 1 /\ g.alloc = allocs[u].alloc
          /\ grants'[u] = Format0(u) /\ enbTbs'[u] = Format0(u).tbs
          /\ ~ BeginsWith(u)'
      BY <1>1, <2>2, ResultsOf
    <3>2. /\ Format0(u).rv = h.nRtx + 1 /\ Format0(u).rv # 0
          /\ Format0(u).dci => Format0(u).mcs = "reserved"
          /\ Format0(u).tbs = <<"first", Cardinality(allocs[u].alloc)>>
          /\ ~ Format0(u).dci => ue[u].irv = Format0(u).rv
      BY <1>2, <1>3, <2>2, RetxFormat0
    <3>3. Format0(u).retx = TRUE
      BY <2>2 DEF Format0
    <3>4. Cardinality(allocs[u].alloc) = Cardinality(h.alloc)
      BY <1>2, <2>1, <2>2 DEF Size
    <3>5. TbsFor(u)' = TbsFor(u) /\ Format0(u).tbs = TbsFor(u)
      BY <3>1, <3>2, <3>4 DEF TbsFor
    <3> QED
      BY <1>2, <2>1, <2>2, <3>1, <3>2, <3>3, <3>5 DEF Size, GrantServed, OnAir
  <2>3. CASE allocs[u] # NoGrant /\ ~ h.active
    <3>1. /\ g.active /\ g.nRtx = 0 /\ g.alloc = allocs[u].alloc
          /\ grants'[u] = Format0(u) /\ enbTbs'[u] = Format0(u).tbs
          /\ BeginsWith(u)' /\ (allocs[u] # NoGrant => allocs[u].dci)
      BY <1>1, <2>3, ResultsOf DEF UInv, AllocInv
    <3>2. /\ Format0(u).rv = 0 /\ Format0(u).retx = FALSE /\ Format0(u).dci = allocs[u].dci
          /\ Format0(u).tbs = <<"first", Cardinality(allocs[u].alloc)>>
      BY <1>1, <2>3 DEF Format0, UInv, IInv, Proc
    <3>3. Format0(u).tbs = TbsFor(u)'
      BY <3>1, <3>2 DEF TbsFor
    <3> QED
      BY <1>2, <2>1, <2>3, <3>1, <3>2, <3>3 DEF Size, GrantServed, OnAir
  <2>4. CASE allocs[u] = NoGrant
    <3>1. /\ h.active => g.active /\ g.alloc = h.alloc /\ g.pdcch
          /\ ~ h.active => g = h
          /\ enbTbs'[u] = enbTbs[u] /\ grants'[u] = NoGrant
      BY <1>1, <2>4, ResultsOf
    <3>2. h.active => TbsFor(u)' = TbsFor(u)
      BY <3>1 DEF TbsFor
    <3> QED
      BY <1>2, <2>1, <3>1, <3>2 DEF Size, GrantServed, OnAir
  <2> QED
    BY <2>2, <2>3, <2>4
<1>4. SizeInv'
  BY <1>2, <1>3 DEF SizeInv
<1> QED
  BY <1>1, <1>4 DEF SInv

\* What a granted UE transmits is what the eNB expects.
LEMMA GrantedSize ==
  ASSUME SInv, UesTransmit, NEW u \in Ues, gapKind[u] # "fading", grants[u] # NoGrant
  PROVE  /\ ue'[u].tbs = TbsFor(u) /\ ue'[u].lastTbs = TbsFor(u) /\ ue'[u].rv = 0
         /\ ue'[u].irv = (harq[u].nRtx + 1) % 4
         /\ pusch'[u] = [prbs |-> grants[u].alloc, tbs |-> TbsFor(u),
                         rv |-> grants[u].rv, new |-> ~ grants[u].retx]
<1>1. UInv /\ phase = "dl"
  BY DEF SInv, HInv, UesTransmit
<1>2. /\ InStep(u) /\ HoldsBlock(u) /\ HandDl(u) /\ Size(u) /\ ue[u] \in UeProc
      /\ harq[u].active /\ harq[u].alloc # {} /\ grants[u] \in FullGrant
  BY <1>1 DEF SInv, SizeInv, HInv, HandInv, Hand, UInv, StepInv, TypeInv, InStep,
              GrantOf, AllocInv
<1>3. PICK hi \in Hearings :
        /\ ue'[u] = React(ue[u], DciFor(u), hi).ue
        /\ pusch'[u] = React(ue[u], DciFor(u), hi).tx
        /\ ue[u].ackFor # {} /\ phich[u] # "none" => hi = phich[u]
  BY <1>1, UesHear
<1>4. /\ grants[u].alloc = harq[u].alloc /\ grants[u].rv = harq[u].nRtx
      /\ grants[u].retx \in BOOLEAN /\ (grants[u].retx <=> grants[u].rv # 0)
      /\ grants[u].retx /\ grants[u].dci => grants[u].mcs = "reserved"
      /\ ~ grants[u].dci => ue[u].irv = grants[u].rv
      /\ harq[u].nRtx \in 0 .. MaxRetx - 1 /\ grants[u].rv \in 0 .. 3
  BY <1>1, <1>2 DEF HandDl, Size, FullGrant, UInv, IInv, Proc
<1>5. BeginsWith(u) <=> ~ grants[u].retx
  BY <1>1 DEF BeginsWith
<1> DEFINE s == ue[u]
           d == DciFor(u)
           r == React(s, d, hi)
<1>6. ue'[u] = r.ue /\ pusch'[u] = r.tx
  BY <1>3
<1>7. CASE ~ grants[u].retx
  <2>1. grants[u].dci /\ grants[u].mcs = "first" /\ grants[u].ndi = harq[u].ndi
    BY <1>1, <1>2, <1>7 DEF InStep, GrantOf
  <2>2. d \in Dcis /\ d.mcs = "first" /\ d.rv = 0 /\ d.prbs = grants[u].alloc
        /\ d.ndi = grants[u].ndi
    BY <1>1, <2>1, DciOfGrant
  <2>3. s.has => s.ndi # d.ndi
    BY <1>2, <1>5, <1>7, <2>1, <2>2 DEF InStep
  <2>4. TbsFor(u) = <<"first", Cardinality(d.prbs)>>
    BY <1>4, <2>2 DEF TbsFor
  <2>5. harq[u].nRtx = 0 /\ grants[u].rv = 0
    BY <1>4, <1>7
  <2> HIDE DEF d, s
  <2>6. s \in UeProc
    BY <1>2 DEF s
  <2> DEFINE tbs == <<"first", Cardinality(d.prbs)>>
  <2>7. /\ r.ue.tbs = tbs /\ r.ue.lastTbs = tbs /\ r.ue.irv = 1 /\ r.ue.rv = 0
        /\ r.tx = [prbs |-> d.prbs, tbs |-> tbs, rv |-> 0, new |-> TRUE]
    BY <2>2, <2>3, <2>6, ReactNew
  <2> HIDE DEF r, tbs
  <2>8. tbs = TbsFor(u)
    BY <2>4 DEF tbs
  <2>9. (harq[u].nRtx + 1) % 4 = 1
    BY <2>5
  <2>10. r.tx = [prbs |-> grants[u].alloc, tbs |-> TbsFor(u), rv |-> grants[u].rv,
                 new |-> ~ grants[u].retx]
    <3>1. (~ grants[u].retx) = TRUE
      BY <1>7
    <3> QED
      BY <2>2, <2>5, <2>7, <2>8, <3>1
  <2> QED
    BY <1>6, <2>7, <2>8, <2>9, <2>10
<1>8. CASE grants[u].retx /\ grants[u].dci
  <2>1. d \in Dcis /\ d.mcs = "reserved" /\ d.rv = grants[u].rv
        /\ d.prbs = grants[u].alloc /\ d.ndi = harq[u].ndi
    BY <1>1, <1>2, <1>4, <1>8, DciOfGrant DEF InStep, GrantOf
  <2>2. s.has /\ s.ndi = d.ndi /\ s.tbs = TbsFor(u) /\ s.lastTbs = TbsFor(u)
    BY <1>2, <1>5, <1>8, <2>1 DEF InStep, HoldsBlock, Size
  <2>3. d.rv # 0 /\ s.tbs # NoTbs
    BY <1>4, <1>8, <2>1, <2>2 DEF TbsFor, NoTbs
  <2>4. s.nb < MaxRetx
    <3>1. s.nb <= harq[u].nRtx
      BY <1>1, <1>2, <1>5, <1>8 DEF InStep, CountOf
    <3>2. harq[u].nRtx \in Nat /\ harq[u].nRtx + 1 <= MaxRetx /\ MaxRetx \in Nat /\ s.nb \in Nat
      BY <1>1, ProcNumbers
    <3> HIDE DEF s
    <3> QED
      BY <3>1, <3>2
  <2> HIDE DEF d, s
  <2>5. s \in UeProc
    BY <1>2 DEF s
  <2>6. /\ r.ue.tbs = s.tbs /\ r.ue.lastTbs = s.tbs
        /\ r.ue.irv = (d.rv + 1) % 4 /\ r.ue.rv = 0
        /\ r.tx = [prbs |-> d.prbs, tbs |-> s.tbs, rv |-> d.rv, new |-> FALSE]
    BY <2>1, <2>2, <2>3, <2>4, <2>5, ReactAgain
  <2> HIDE DEF r
  <2> QED
    BY <1>4, <1>6, <1>8, <2>1, <2>2, <2>6
<1>9. CASE ~ grants[u].dci
  <2>1. grants[u].retx /\ d = NoDci
    BY <1>1, <1>2, <1>4, <1>9, DciOfGrant DEF InStep, GrantOf
  <2>2. /\ s.has /\ s.tbs = TbsFor(u) /\ s.lastTbs = TbsFor(u)
        /\ phich[u] = "nack" /\ s.ackFor = harq[u].alloc /\ s.rv = 0
        /\ s.irv = grants[u].rv
    BY <1>2, <1>4, <1>5, <1>9, <2>1 DEF HoldsBlock, HandDl, Size
  <2>3. s.nb < MaxRetx
    <3>1. s.nb <= harq[u].nRtx
      BY <1>1, <1>2, <1>5, <2>1 DEF InStep, CountOf
    <3>2. harq[u].nRtx \in Nat /\ harq[u].nRtx + 1 <= MaxRetx /\ MaxRetx \in Nat /\ s.nb \in Nat
      BY <1>1, ProcNumbers
    <3> HIDE DEF s
    <3> QED
      BY <3>1, <3>2
  <2>4. hi = "nack"
    BY <1>2, <1>3, <2>2
  <2>5. RvOf(s) = grants[u].rv
    BY <2>2 DEF RvOf
  <2> HIDE DEF d, s
  <2>6. s \in UeProc
    BY <1>2 DEF s
  <2>7. r = React(s, NoDci, "nack")
    BY <2>1, <2>4
  <2> HIDE DEF r
  <2>8. /\ r.ue.lastTbs = s.lastTbs /\ r.ue.tbs = s.tbs
        /\ r.ue.irv = (s.irv + 1) % 4 /\ r.ue.rv = s.rv
        /\ r.tx = [prbs |-> s.ackFor, tbs |-> s.tbs, rv |-> RvOf(s), new |-> FALSE]
    BY <2>2, <2>3, <2>6, <2>7, ReactRepeats
  <2> QED
    BY <1>4, <1>6, <2>1, <2>2, <2>5, <2>8
<1> QED
  BY <1>4, <1>7, <1>8, <1>9

LEMMA UesTransmitSInv == SInv /\ UesTransmit => SInv'
<1> SUFFICES ASSUME SInv, UesTransmit PROVE SInv'
  OBVIOUS
<1>1. UInv /\ HInv /\ HInv'
  BY UesTransmitHInv DEF SInv, HInv
<1>2. phase = "dl" /\ phase' = "ul" /\ UNCHANGED <<harq, enbTbs, gapKind, allocs, grants>>
  BY DEF UesTransmit
<1>3. ASSUME NEW u \in Ues, gapKind[u] # "fading"
      PROVE  Size(u)' /\ GrantServed(u)'
  <2>1. Size(u) /\ TbsFor(u)' = TbsFor(u)
    BY <1>2, <1>3 DEF SInv, SizeInv, TbsFor
  <2>2. CASE grants[u] # NoGrant
    <3>1. /\ ue'[u].tbs = TbsFor(u) /\ ue'[u].lastTbs = TbsFor(u) /\ ue'[u].rv = 0
          /\ ue'[u].irv = (harq[u].nRtx + 1) % 4
          /\ pusch'[u] = [prbs |-> grants[u].alloc, tbs |-> TbsFor(u),
                          rv |-> grants[u].rv, new |-> ~ grants[u].retx]
      BY <1>3, <2>2, GrantedSize
    <3>2. Size(u)'
      BY <1>2, <2>1, <3>1 DEF Size
    <3>3. /\ grants[u].alloc # {} /\ grants[u].retx \in BOOLEAN
          /\ grants[u].tbs = TbsFor(u)
      BY <1>1, <1>2, <2>1, <2>2 DEF UInv, TypeInv, FullGrant, Size
    <3>4. GrantServed(u)'
      <4>1. /\ pusch'[u].prbs = grants[u].alloc /\ pusch'[u].tbs = TbsFor(u)
            /\ pusch'[u].rv = grants[u].rv /\ pusch'[u].new = ~ grants[u].retx
        BY <3>1
      <4>2. pusch'[u] # NoTx
        BY <3>3, <4>1 DEF NoTx
      <4> HIDE DEF NoTx
      <4>3. Expected(u)'
        BY <1>2, <3>3, <4>1, <4>2 DEF Expected
      <4> QED
        BY <1>2, <4>1, <4>3 DEF GrantServed
    <3> QED
      BY <3>2, <3>4
  <2>3. CASE grants[u] = NoGrant
    <3>1. ue[u].rv = 0 => ue'[u].rv = 0
      <4>1. PICK hi \in Hearings : ue'[u] = React(ue[u], DciFor(u), hi).ue
        BY <1>1, <1>3, UesHear
      <4>2. DciFor(u) = NoDci /\ ue[u] \in UeProc
        BY <1>1, <1>2, <2>3, DciOfGrant DEF UInv, TypeInv
      <4> QED
        BY <4>1, <4>2, ReactKeepsPdu
    <3>2. harq[u].active => /\ ue'[u].lastTbs = ue[u].lastTbs /\ ue'[u].tbs = ue[u].tbs
                            /\ harq[u].pdcch /\ ~ BeginsWith(u)
      <4>1. HandDl(u)
        BY <1>1, <1>2, <1>3 DEF HInv, HandInv, Hand
      <4> QED
        BY <1>1, <1>3, <2>3, <4>1, UngrantedUe DEF GivenUp, HandDl, BeginsWith
    <3>3. Size(u)'
      BY <1>2, <2>1, <2>3, <3>1, <3>2 DEF Size
    <3>4. GrantServed(u)'
      BY <1>2, <2>3 DEF GrantServed
    <3> QED
      BY <3>3, <3>4
  <2> QED
    BY <2>2, <2>3
<1>4. SizeInv'
  BY <1>2, <1>3 DEF SizeInv
<1> QED
  BY <1>1, <1>4 DEF SInv

LEMMA DecodePuschSInv == SInv /\ DecodePusch => SInv'
<1> SUFFICES ASSUME SInv, DecodePusch PROVE SInv'
  OBVIOUS
<1>1. UInv /\ HInv'
  BY DecodePuschHInv DEF SInv, HInv
<1>2. /\ phase = "ul" /\ phase' = "tti" /\ UNCHANGED <<enbTbs, gapKind>>
      /\ \A u \in Ues : allocs'[u] = NoGrant
  BY <1>1 DEF DecodePusch, UInv, AllocInv
<1>3. ASSUME NEW u \in Ues, gapKind[u] # "fading"
      PROVE  Size(u)' /\ GrantServed(u)'
  <2> DEFINE h == harq[u]
             g == harq'[u]
  <2>1. Size(u) /\ ue[u] \in UeProc
    BY <1>1, <1>3 DEF SInv, SizeInv, UInv, TypeInv
  <2>2. /\ Keeps(h, g) /\ (g.active => g.pdcch = h.pdcch /\ ue'[u] = ue[u])
        /\ ue'[u] \in {ue[u], [ue[u] EXCEPT !.pdu = "delivered"]}
    BY <1>1, DecodedProc
  <2>3. g.active => h.active /\ g.nRtx = h.nRtx /\ TbsFor(u)' = TbsFor(u)
    BY <2>2 DEF Keeps, TbsFor
  <2>4. ue'[u].rv = 0
    BY <2>1, <2>2 DEF Size, UeProc
  <2> QED
    BY <1>2, <2>1, <2>2, <2>3, <2>4 DEF Size, BeginsWith, GrantServed, OnAir
<1>4. SizeInv'
  BY <1>2, <1>3 DEF SizeInv
<1> QED
  BY <1>1, <1>4 DEF SInv

LEMMA NextSInv == PhichRoom /\ MaxRetx <= 4 /\ SInv /\ [Next]_vars => SInv'
<1> SUFFICES ASSUME PhichRoom, MaxRetx <= 4, SInv, [Next]_vars PROVE SInv'
  OBVIOUS
<1>1. CASE FadingEnds \/ UNCHANGED vars
  <2>1. HInv'
    BY <1>1, NextHInv DEF SInv, Next
  <2>2. UNCHANGED <<harq, enbTbs, ue, gapKind, phase, allocs, grants, pusch>>
    BY <1>1 DEF FadingEnds, vars
  <2>3. ASSUME NEW u \in Ues
        PROVE  (Size(u)' <=> Size(u)) /\ (GrantServed(u)' <=> GrantServed(u))
    BY <2>2 DEF Size, TbsFor, BeginsWith, GrantServed, Expected, OnAir
  <2>4. SizeInv'
    BY <2>2, <2>3 DEF SInv, SizeInv
  <2> QED
    BY <2>1, <2>4 DEF SInv
<1> QED
  BY <1>1, StartTtiSInv, AllocSInv, GenerateResultsSInv, UesTransmitSInv,
     DecodePuschSInv DEF Next

\* While the PHICH list has room, its DCIs arrive and a block has at most four
\* transmissions, a UE does for every grant what the eNB expects: it transmits on
\* those PRBs, in that redundancy version and size, and a new PDU if and only if
\* the eNB began a new block (new_grant_ul against generate_format0).
THEOREM EveryGrantServed ==
  ASSUME PhichRoom, MaxRetx <= 4 PROVE Spec => []GrantsServed
<1>1. SInv /\ [Next]_vars => SInv'
  BY NextSInv
<1>2. SInv => GrantsServed
  BY DEF SInv, SizeInv, GrantsServed
<1> QED
  BY <1>1, <1>2, InitSInv, PTL DEF Spec

-----------------------------------------------------------------------------
(* One block after the other                                               *)

\* The block of a process, step by step
BlockStep(u) ==
  LET b == Block(u)
      c == Block(u)'
  IN  \/ c = b
      \/ b.state # "busy" /\ c = [state |-> "busy", tries |-> 1]
      \/ /\ b.state = "busy" /\ b.tries < MaxRetx
         /\ c = [state |-> "busy", tries |-> b.tries + 1]
      \/ b.state = "busy" /\ c = [state |-> "delivered", tries |-> 0]
      \/ /\ b.state = "busy" /\ b.tries = MaxRetx
         /\ c = [state |-> "given_up", tries |-> 0]

\* What Block is for a UE that receives its DCIs: the block of an active process
\* is never stale.
FreeBlock(u) ==
  [state |-> IF ue[u].pdu = "new" THEN "given_up" ELSE ue[u].pdu, tries |-> 0]

LEMMA BlockOf ==
  ASSUME HInv, NEW u \in Ues, gapKind[u] # "fading"
  PROVE  /\ harq[u].active => Block(u) = [state |-> "busy", tries |-> harq[u].nRtx + 1]
         /\ ~ harq[u].active => Block(u) = FreeBlock(u) /\ Block(u).state # "busy"
<1>1. harq[u].active => BeginsWith(u) \/ ue[u].pdu = "new"
  BY DEF HInv, HandInv, Hand, HoldsBlock
<1>2. ue[u].pdu # "busy"
  BY DEF HInv, UInv, TypeInv, UeProc
<1> QED
  BY <1>1, <1>2 DEF Block, FreeBlock

LEMMA BlockMoves ==
  ASSUME PhichRoom, HInv, [Next]_vars, NEW u \in Ues
  PROVE  BlockStep(u)
<1>1. HInv' /\ UInv
  BY NextHInv DEF HInv
<1>2. gapKind' = gapKind
  BY DEF Next, StartTti, AllocRetx, AllocNewTx, GenerateResults, UesTransmit,
         DecodePusch, FadingEnds, vars
<1>3. CASE gapKind[u] = "fading"
  BY <1>2, <1>3 DEF BlockStep, Block
<1>4. CASE gapKind[u] # "fading"
  <2> DEFINE h == harq[u]
             g == harq'[u]
  <2>1. /\ h.active => Block(u) = [state |-> "busy", tries |-> h.nRtx + 1]
        /\ ~ h.active => Block(u) = FreeBlock(u) /\ Block(u).state # "busy"
    BY <1>4, BlockOf
  <2>2. /\ g.active => Block(u)' = [state |-> "busy", tries |-> g.nRtx + 1]
        /\ ~ g.active => Block(u)' = FreeBlock(u)'
    <3>1. ASSUME gapKind'[u] # "fading"
          PROVE  /\ harq[u]'.active =>
                      Block(u)' = [state |-> "busy", tries |-> harq[u]'.nRtx + 1]
                 /\ ~ harq[u]'.active => Block(u)' = FreeBlock(u)'
      <4>1. harq[u]'.active => BeginsWith(u)' \/ ue'[u].pdu = "new"
        BY <1>1, <3>1 DEF HInv, HandInv, Hand, HoldsBlock
      <4> QED
        BY <3>1, <4>1 DEF Block, FreeBlock
    <3> QED
      BY <1>2, <1>4, <3>1
  <2>3. h.nRtx \in 0 .. MaxRetx - 1 /\ MaxRetx \in Nat
    BY <1>1, MaxRetxAssumption DEF UInv, IInv, Proc
  <2>s. ASSUME g.active = h.active, g.nRtx = h.nRtx, ue'[u].pdu = ue[u].pdu
        PROVE  BlockStep(u)
    BY <2>1, <2>2, <2>s DEF BlockStep, FreeBlock
  <2>4. CASE StartTti
    <3>1. /\ Keeps(h, g) /\ ue' = ue
          /\ h.active /\ ~ g.active => h.nRtx = MaxRetx - 1
      BY <1>1, <2>4, StartTtiProc DEF StartTti
    <3>2. CASE h.active /\ ~ g.active
      <4>1. ue[u].pdu = "new"
        BY <1>4, <2>4, <3>2 DEF HInv, HandInv, Hand, HoldsBlock, BeginsWith, StartTti
      <4>2. h.nRtx + 1 = MaxRetx
        BY <2>3, <3>1, <3>2
      <4> QED
        BY <2>1, <2>2, <3>1, <3>2, <4>1, <4>2 DEF BlockStep, FreeBlock
    <3>3. CASE ~ (h.active /\ ~ g.active)
      <4>1. h.active \in BOOLEAN /\ g.active \in BOOLEAN
        BY <1>1 DEF HInv, UInv, IInv, Proc
      <4>2. g.active = h.active /\ g.nRtx = h.nRtx
        BY <3>1, <3>3, <4>1 DEF Keeps
      <4> QED
        BY <2>s, <3>1, <4>2
    <3> QED
      BY <3>2, <3>3
  <2>5. CASE \E v \in Ues : AllocRetx(v) \/ AllocNewTx(v)
    <3>1. harq' = harq /\ ue' = ue
      BY <2>5 DEF AllocRetx, AllocNewTx
    <3> QED
      BY <2>s, <3>1
  <2>6. CASE GenerateResults
    <3>1. /\ h.active => g.active /\ g.nRtx = h.nRtx + 1
          /\ allocs[u] # NoGrant => g.active /\ (~ h.active => g.nRtx = 0)
          /\ allocs[u] = NoGrant /\ ~ h.active => g = h
      BY <1>1, <2>6, ResultsOf
    <3>2. ue' = ue /\ phase = "alloc"
      BY <2>6 DEF GenerateResults
    <3>3. CASE h.active
      <4>1. h.nRtx + 1 < MaxRetx
        BY <1>1, <3>2, <3>3 DEF UInv, IInv, SettledIn, HasTriesLeft
      <4> QED
        BY <2>1, <2>2, <3>1, <3>3, <4>1 DEF BlockStep
    <3>4. CASE ~ h.active /\ allocs[u] # NoGrant
      <4>1. g.active /\ g.nRtx + 1 = 1
        BY <3>1, <3>4
      <4> QED
        BY <2>1, <2>2, <3>4, <4>1 DEF BlockStep
    <3>5. CASE ~ h.active /\ allocs[u] = NoGrant
      BY <2>s, <3>1, <3>2, <3>5
    <3> QED
      BY <3>3, <3>4, <3>5
  <2>7. CASE UesTransmit
    <3>1. harq' = harq /\ phase = "dl"
      BY <2>7 DEF UesTransmit
    <3>2. CASE h.active
      BY <2>1, <2>2, <3>1, <3>2 DEF BlockStep
    <3>3. CASE ~ h.active
      <4>1. grants[u] = NoGrant
        BY <1>1, <1>4, <3>1, <3>3 DEF UInv, StepInv, InStep, GrantOf
      <4>2. PICK hi \in Hearings : ue'[u] = React(ue[u], DciFor(u), hi).ue
        BY <1>1, <1>4, <2>7, UesHear
      <4>3. DciFor(u) = NoDci /\ ue[u] \in UeProc
        BY <1>1, <3>1, <4>1, DciOfGrant DEF UInv, TypeInv
      <4>4. ue'[u].pdu = ue[u].pdu
        BY <4>2, <4>3, ReactKeepsPdu
      <4> QED
        BY <2>s, <3>1, <4>4
    <3> QED
      BY <3>2, <3>3
  <2>8. CASE DecodePusch
    <3>1. /\ Keeps(h, g) /\ (g.active => ue'[u] = ue[u])
          /\ grants[u] = NoGrant => g = h /\ ue'[u] = ue[u]
          /\ h.active /\ ~ g.active => ue'[u] = [ue[u] EXCEPT !.pdu = "delivered"]
      BY <1>1, <2>8, DecodedProc
    <3>2. ue[u] \in UeProc /\ h.active \in BOOLEAN /\ g.active \in BOOLEAN
      BY <1>1 DEF HInv, UInv, IInv, TypeInv, Proc
    <3>3. CASE g.active
      <4>1. g.active = h.active /\ g.nRtx = h.nRtx
        BY <3>1, <3>2, <3>3 DEF Keeps
      <4> QED
        BY <2>s, <3>1, <3>3, <4>1
    <3>4. CASE h.active /\ ~ g.active
      <4>1. ue'[u].pdu = "delivered"
        BY <3>1, <3>2, <3>4 DEF UeProc
      <4> QED
        BY <2>1, <2>2, <3>4, <4>1 DEF BlockStep, FreeBlock
    <3>5. CASE ~ h.active
      <4>1. grants[u] = NoGrant
        BY <1>4, <2>8, <3>5 DEF HInv, HandInv, Hand, HandUl, DecodePusch
      <4> QED
        BY <2>s, <3>1, <4>1
    <3> QED
      BY <3>3, <3>4, <3>5
  <2>9. CASE FadingEnds \/ UNCHANGED vars
    <3>1. harq' = harq /\ ue' = ue
      BY <2>9 DEF FadingEnds, vars
    <3> QED
      BY <2>s, <3>1
  <2> QED
    BY <2>4, <2>5, <2>6, <2>7, <2>8, <2>9 DEF Next
<1> QED
  BY <1>3, <1>4

\* While the PHICH list has room, the two ends carry one block after the other as
\* TbTransfer says: each gets at most MaxRetx opportunities, and is delivered once
\* or given up, but only after the last; it is never lost, and the eNB is never
\* busy with a block its UE has delivered or does not have. The blocks of UEs that
\* miss DCIs are left out (Block).
THEOREM UlImplementsTbTransfer ==
  ASSUME PhichRoom
  PROVE  Spec => Transfer!Init /\ [][Transfer!Next]_<<[u \in Ues |-> Block(u)], {}>>
<1>1. Init => Transfer!Init
  <2> SUFFICES ASSUME Init PROVE Transfer!Init
    OBVIOUS
  <2>1. ASSUME NEW u \in Ues
        PROVE  Block(u) = [state |-> "none", tries |-> 0]
    BY DEF Init, Block, EmptyProc, FreshUe
  <2> QED
    BY <2>1 DEF Transfer!Init, Transfer!Ended
<1>2. ASSUME HInv, [Next]_vars
      PROVE  [Transfer!Next]_<<[u \in Ues |-> Block(u)], {}>>
  <2>1. ASSUME NEW u \in Ues
        PROVE  \/ [v \in Ues |-> Block(v)]'[u] = [v \in Ues |-> Block(v)][u]
               \/ Transfer!Begin(u) \/ Transfer!Retry(u) \/ Transfer!Deliver(u)
               \/ Transfer!GiveUp(u) \/ Transfer!Lose(u)
    <3>1. BlockStep(u)
      BY <1>2, BlockMoves
    <3>2. /\ [v \in Ues |-> Block(v)][u] = Block(u)
          /\ [v \in Ues |-> Block(v)]'[u] = Block(u)'
      OBVIOUS
    <3> QED
      BY <3>1, <3>2 DEF BlockStep, Transfer!Begin, Transfer!Retry, Transfer!Deliver,
         Transfer!GiveUp, Transfer!Lose, Transfer!Busy, Transfer!Ended, Transfer!IsBusy
  <2> QED
    BY <2>1 DEF Transfer!Next
<1>3. HInv /\ [Next]_vars => HInv'
  BY NextHInv
<1> QED
  BY <1>1, <1>2, <1>3, InitHInv, PTL DEF Spec
=============================================================================
