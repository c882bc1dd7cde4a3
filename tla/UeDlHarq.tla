----------------------------- MODULE UeDlHarq -----------------------------
(***************************************************************************)
(* One downlink HARQ process of the UE: dl_tb_process (srsue dl_harq.cc),  *)
(* as cc_worker::work_dl_regular drives it: new_grant_dl, decode_pdsch,    *)
(* tb_decoded, in one TTI and with the process locked throughout.          *)
(***************************************************************************)
EXTENDS Integers

CONSTANT DuplicateTimeout  \* RESET_DUPLICATE_TIMEOUT (6)

ASSUME TimeoutAssumption == DuplicateTimeout \in Nat \ {0}

\* first: is_first_tb; ndi, tbs: of cur_grant; n: n_retx
FreshUe == [first |-> TRUE, ndi |-> FALSE, tbs |-> 0, ack |-> FALSE, n |-> 0]

\* calc_is_new_transmission; the eNB's DCIs always carry the NDI.
IsNewTransmission(u, dci) == u.first \/ dci.ndi # u.ndi

StartsOver(u, dci) == IsNewTransmission(u, dci) \/ dci.tbs # u.tbs

\* n_retx is only compared with the timeout: it need not count beyond it.
NBound == DuplicateTimeout + 1

\* new_grant_dl up to the test of "ack"
AfterGrant(u, dci) ==
  [u EXCEPT !.first = FALSE,
            !.ack = @ /\ ~ StartsOver(u, dci),
            !.n = IF StartsOver(u, dci) THEN 1
                  ELSE IF @ < NBound THEN @ + 1 ELSE @]

\* The block is decoded (good), or not, for want of a buffer or by its CRC.
Decode(u, dci, good) ==
  [u EXCEPT !.ndi = dci.ndi, !.tbs = dci.tbs, !.ack = good]

\* Mutant: a duplicate is forgotten at once.
DiscardDuplicateReset(u) == FreshUe

\* A block that has been decoded is acknowledged again and not decoded.
DiscardDuplicate(u) == IF u.n > DuplicateTimeout THEN FreshUe ELSE u

\* What the UE does with a grant: its new state, whether it sends an ACK, and
\* whether it pushes the block to the demultiplexer. (It sends a NACK for a
\* block it cannot decode, nothing if it had no buffer.)
React(u, dci, good) ==
  LET v == AfterGrant(u, dci)
  IN  IF v.ack
      THEN [ue |-> DiscardDuplicate(v), ack |-> TRUE, push |-> FALSE]
      ELSE [ue |-> Decode(v, dci, good), ack |-> good, push |-> good]
=============================================================================
