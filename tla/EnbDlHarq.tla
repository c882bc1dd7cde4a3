---------------------------- MODULE EnbDlHarq ----------------------------
(***************************************************************************)
(* The downlink HARQ processes of a UE in the eNB: dl_harq_proc over       *)
(* harq_proc, and the downlink half of harq_entity (sched_harq.cc). HARQ   *)
(* is asynchronous: any process may be used in any TTI. A process is a     *)
(* record; every method that changes it is an operator from the old record *)
(* to the new one. One transport block per process.                        *)
(*                                                                         *)
(* The code stores the TTI of a transmission (tti); the record stores its  *)
(* age, the TTI being scheduled minus that one. Both are taken modulo      *)
(* TtiMod, as tti_point does.                                              *)
(***************************************************************************)
EXTENDS Integers

CONSTANTS
  DelayDl,   \* FDD_HARQ_DELAY_DL_MS: from a transmission to its ACK (4)
  DelayUl,   \* FDD_HARQ_DELAY_UL_MS: from the ACK to a retransmission (4)
  NofProcs,  \* SCHED_MAX_HARQ_PROC (8)
  MaxRetx,   \* max_retx, from maxharq_tx of the UE's configuration
  TtiMod     \* a tti_point counts modulo this (10240)

ASSUME DelaysAssumption == DelayDl \in Nat \ {0} /\ DelayUl \in Nat \ {0}
ASSUME ProcsAssumption == NofProcs \in Nat \ {0}

\* RRC configures n1, n2, ...: never 0, so finish_tti() has nothing to reset.
ASSUME MaxRetxAssumption == MaxRetx \in Nat \ {0}

NofHarq == DelayDl + DelayUl  \* SRSRAN_FDD_NOF_HARQ

\* 10240 = 8 * 1280, so that last_ttis[tti % NofHarq] has no seam.
ASSUME TtiModAssumption ==
  TtiMod \in Nat /\ TtiMod >= 3 * NofHarq /\ TtiMod % NofHarq = 0

Pid == 0 .. NofProcs - 1
NoPid == -1
NoAge == -1  \* the process has never been used

EmptyProc ==
  [active |-> FALSE, ack |-> FALSE, nRtx |-> 0, ndi |-> FALSE, tbs |-> 0,
   age |-> NoAge]

\* tti_tx_dl >= to_tx_dl_ack(tti), a comparison over half the range
AckIsDue(h) == (h.age - NofHarq) % TtiMod <= TtiMod \div 2

HasPendingRetx(h) == h.active /\ ~ h.ack /\ AckIsDue(h)

\* Mutant: as if nRtx counted transmissions.
LastTryLate(h) == h.nRtx >= MaxRetx

LastTry(h) == h.nRtx + 1 >= MaxRetx

HarqNewTti(h) ==
  IF HasPendingRetx(h) /\ LastTry(h) THEN [h EXCEPT !.active = FALSE] ELSE h

\* Mutant: the NDI is not toggled.
NewTxSameNdi(h, tbs) ==
  [active |-> TRUE, ack |-> FALSE, nRtx |-> 0, ndi |-> h.ndi, tbs |-> tbs,
   age |-> 0]

NewTx(h, tbs) ==
  [active |-> TRUE, ack |-> FALSE, nRtx |-> 0, ndi |-> ~ h.ndi, tbs |-> tbs,
   age |-> 0]

\* Mutant: the count is not updated.
NewRetxUncounted(h) == [h EXCEPT !.ack = FALSE, !.age = 0]

NewRetx(h) == [h EXCEPT !.ack = FALSE, !.nRtx = @ + 1, !.age = 0]

\* Mutant: an ACK leaves the process active.
SetAckOnly(h, ok) == IF h.active THEN [h EXCEPT !.ack = ok] ELSE h

SetAck(h, ok) ==
  IF h.active THEN [h EXCEPT !.ack = ok, !.active = ~ ok] ELSE h

\* A TTI goes by.
Older(h) == IF h.age = NoAge THEN h ELSE [h EXCEPT !.age = (@ + 1) % TtiMod]

-----------------------------------------------------------------------------
(* harq_entity, for the processes hs                                       *)

\* Mutant: the last one.
GetEmptyLast(hs) ==
  IF \E p \in Pid : ~ hs[p].active
  THEN CHOOSE p \in Pid :
         ~ hs[p].active /\ \A q \in Pid : q > p => hs[q].active
  ELSE NoPid

\* get_empty_dl_harq: the first process that is empty
GetEmpty(hs) ==
  IF \E p \in Pid : ~ hs[p].active
  THEN CHOOSE p \in Pid :
         ~ hs[p].active /\ \A q \in Pid : q < p => hs[q].active
  ELSE NoPid

\* The ACK's TTI is one of the last NofHarq TTIs, those that new_tti has
\* written to last_ttis and not yet overwritten.
AckTtiIsRecent(h) == h.age \in NofHarq .. 2 * NofHarq - 1

\* get_oldest_dl_harq: the first of the oldest that wait to be retransmitted
Candidates(hs) ==
  {p \in Pid : HasPendingRetx(hs[p]) /\ AckTtiIsRecent(hs[p])}

GetOldest(hs) ==
  IF Candidates(hs) = {} THEN NoPid
  ELSE CHOOSE p \in Candidates(hs) :
         \A q \in Candidates(hs) :
           hs[q].age <= hs[p].age /\ (q < p => hs[q].age < hs[p].age)

\* set_ack_info: the first process whose tti fits the ACK's, used or not
AckTarget(hs) ==
  IF \E p \in Pid : hs[p].age = NofHarq
  THEN CHOOSE p \in Pid :
         hs[p].age = NofHarq /\ \A q \in Pid : q < p => hs[q].age # NofHarq
  ELSE NoPid
=============================================================================
