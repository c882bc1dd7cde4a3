---------------------------- MODULE EnbUlHarq ----------------------------
(***************************************************************************)
(* One uplink HARQ process of the eNB: ul_harq_proc over harq_proc         *)
(* (sched_harq.cc). A process is a record; every method that changes it is *)
(* an operator from the old record to the new one. An allocation is the    *)
(* set of its PRBs. Uplink carries one transport block per process.        *)
(***************************************************************************)
EXTENDS Integers

CONSTANT MaxRetx  \* max_retx, from maxharq_tx of the UE's configuration

\* RRC configures n1, n2, ...: never 0, so finish_tti() has nothing to reset.
ASSUME MaxRetxAssumption == MaxRetx \in Nat \ {0}

EmptyProc ==
  [active |-> FALSE, ack |-> FALSE, nRtx |-> 0, ndi |-> FALSE, alloc |-> {},
   phich |-> FALSE, pdcch |-> FALSE]

HasPendingRetx(h) == h.active /\ ~ h.ack

\* Mutant: as if nRtx counted transmissions.
LastTryLate(h) == h.nRtx >= MaxRetx

\* Transmissions are counted from the first one, so the last one has
\* nRtx = MaxRetx - 1.
LastTry(h) == h.nRtx + 1 >= MaxRetx

\* reset_pending_data(), where what it resets is modelled
ResetPendingData(h) == [h EXCEPT !.active = FALSE, !.pdcch = FALSE]

\* The process is given up before the PHICH of the same TTI is made; while
\* one is due, the full reset waits for it.
HarqNewTti(h) ==
  IF HasPendingRetx(h) /\ LastTry(h)
  THEN IF h.phich THEN [h EXCEPT !.active = FALSE] ELSE ResetPendingData(h)
  ELSE h

\* Mutants: the NDI is not toggled; the counter is not reset.
NewTxSameNdi(h, alloc) ==
  [active |-> TRUE, ack |-> FALSE, nRtx |-> 0, ndi |-> h.ndi,
   alloc |-> alloc, phich |-> TRUE, pdcch |-> FALSE]
NewTxCounting(h, alloc) ==
  [active |-> TRUE, ack |-> FALSE, nRtx |-> h.nRtx, ndi |-> ~ h.ndi,
   alloc |-> alloc, phich |-> TRUE, pdcch |-> FALSE]

NewTx(h, alloc) ==
  [active |-> TRUE, ack |-> FALSE, nRtx |-> 0, ndi |-> ~ h.ndi,
   alloc |-> alloc, phich |-> TRUE, pdcch |-> FALSE]

\* Mutant: retransmissions are not counted.
NewRetxUncounted(h, alloc) ==
  [h EXCEPT !.ack = FALSE, !.alloc = alloc, !.phich = TRUE, !.pdcch = FALSE]

NewRetx(h, alloc) ==
  [h EXCEPT !.ack = FALSE, !.nRtx = @ + 1, !.alloc = alloc,
            !.phich = TRUE, !.pdcch = FALSE]

\* Mutant: the change of PRBs is forgotten.
RetxRequiresPdcchIfResumed(h, alloc) == h.pdcch

RetxRequiresPdcch(h, alloc) == alloc # h.alloc \/ h.pdcch

\* Mutant: an ACK leaves the process active.
SetAckOnly(h, ok) == IF h.active THEN [h EXCEPT !.ack = ok] ELSE h

SetAck(h, ok) ==
  IF ~ h.active THEN h
  ELSE LET acked == [h EXCEPT !.ack = ok, !.active = ~ ok]
       IN  IF ok /\ ~ h.phich THEN ResetPendingData(acked) ELSE acked

RequestPdcch(h) == [h EXCEPT !.pdcch = TRUE]

\* Mutant: a skipped retransmission is not counted.
RetxSkippedUncounted(h) == [h EXCEPT !.pdcch = TRUE]

RetxSkipped(h) == [h EXCEPT !.pdcch = TRUE, !.nRtx = @ + 1]

PopPhich(h) ==
  LET popped == [h EXCEPT !.phich = FALSE]
  IN  IF h.active THEN popped ELSE ResetPendingData(popped)
=============================================================================
