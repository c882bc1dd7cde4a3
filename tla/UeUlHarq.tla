----------------------------- MODULE UeUlHarq -----------------------------
(***************************************************************************)
(* One uplink HARQ process of the UE: ul_harq_process (ul_harq.cc) with    *)
(* what the PHY keeps for it (cc_worker.cc, phy_common.cc): the grant of   *)
(* the transmission whose PHICH is awaited and the last transport block    *)
(* size. The UE is connected, so every grant is for its C-RNTI.            *)
(*                                                                         *)
(* A DCI format 0 is a record: NDI, PRBs, and the MCS field, which either  *)
(* gives a size ("first": the MCS of the transport block's first grant;    *)
(* "28") or is one of the reserved values 29 to 31, which name a           *)
(* redundancy version and keep the size. Redundancy versions are known by  *)
(* their place 0 .. 3 in the order 0, 2, 3, 1. A size is <<MCS, PRBs>>.    *)
(***************************************************************************)
EXTENDS Integers, FiniteSets

CONSTANT MaxRetx  \* harq_cfg.max_harq_tx

NoDci == [mcs |-> "none"]
NoTbs == << >>
NoTx == [prbs |-> {}]

FreshUe ==
  [has |-> FALSE, ndi |-> FALSE, tbs |-> NoTbs, nb |-> 0, feedback |-> FALSE,
   irv |-> 0, rv |-> 0,
   lastTbs |-> NoTbs,  \* phy_common::last_ul_tb of this process
   ackFor |-> {},      \* PRBs of the PUSCH whose PHICH is awaited
   pdu |-> "none"]     \* the buffered PDU: is it new to the eNB or delivered

\* ul_fill_ra_mcs: the size a DCI grants
TbsOf(s, d) == IF d.mcs = "reserved" THEN s.lastTbs
                                     ELSE <<d.mcs, Cardinality(d.prbs)>>

ResetUe(s) ==
  [s EXCEPT !.nb = 0, !.irv = 0, !.has = FALSE, !.ndi = FALSE, !.tbs = NoTbs,
            !.rv = 0]

\* The head of new_grant_ul: hi is the PHICH value, "none" if none is awaited.
HarqFeedback(s, d, hi) ==
  IF hi = "none" THEN s
  ELSE [s EXCEPT !.feedback =
          hi = "ack" /\ ~ (d # NoDci /\ d.ndi = s.ndi)]

MaxReached(s, hi) == IF hi = "nack" /\ s.nb >= MaxRetx THEN ResetUe(s) ELSE s

TbChanged(s, d) ==
  IF d # NoDci /\ s.feedback /\ s.has /\ TbsOf(s, d) # s.tbs
  THEN ResetUe(s) ELSE s

BeforeTx(s, d, hi) == TbChanged(MaxReached(HarqFeedback(s, d, hi), hi), d)

IsNewTx(s, d) == d # NoDci /\ (d.ndi # s.ndi \/ ~ s.has)
IsAdaptive(s, d) == d # NoDci /\ ~ IsNewTx(s, d)
IsNonAdaptive(s, d, hi) ==
  d = NoDci /\ hi # "none" /\ s.has /\ ~ s.feedback

\* generate_tx: the redundancy version is the grant's, if it names one.
RvOf(s) == IF s.rv # 0 THEN s.rv ELSE s.irv

\* The code only compares nb with MaxRetx, so it is not counted past NbBound.
NbBound == MaxRetx + 1
Transmitted(s, prbs) ==
  [s EXCEPT !.nb = IF @ < NbBound THEN @ + 1 ELSE @, !.irv = (@ + 1) % 4,
            !.ackFor = prbs]
Pusch(s, prbs, new) ==
  [prbs |-> prbs, tbs |-> s.tbs, rv |-> RvOf(s), new |-> new]

Granted(s, d) ==
  [s EXCEPT !.has = TRUE, !.ndi = d.ndi, !.tbs = TbsOf(s, d),
            !.lastTbs = TbsOf(s, d), !.rv = d.rv, !.feedback = FALSE]

\* The UE's next state and its PUSCH, given the DCI and the PHICH it received.
\* A reserved MCS without a stored size is no grant for the PHY, and then the
\* MAC does not learn of the PHICH either.
React(s, d, hi) ==
  LET b     == BeforeTx(s, d, hi)
      quiet == [b EXCEPT !.ackFor = {}]
      new   == Granted([ResetUe(b) EXCEPT !.pdu = "new"], d)
      adapt == Granted([b EXCEPT !.irv = IF d.rv # 0 THEN d.rv ELSE @], d)
  IN  IF d.mcs = "reserved" /\ s.lastTbs = NoTbs
      THEN [ue |-> [s EXCEPT !.ackFor = {}], tx |-> NoTx]
      ELSE IF IsNewTx(b, d)
      THEN [ue |-> Transmitted(new, d.prbs), tx |-> Pusch(new, d.prbs, TRUE)]
      ELSE IF IsAdaptive(b, d)
      THEN [ue |-> [Transmitted(adapt, d.prbs) EXCEPT !.rv = 0],
            tx |-> Pusch(adapt, d.prbs, FALSE)]
      ELSE IF IsNonAdaptive(b, d, hi)
      THEN [ue |-> Transmitted(b, s.ackFor), tx |-> Pusch(b, s.ackFor, FALSE)]
      ELSE [ue |-> quiet, tx |-> NoTx]
=============================================================================
