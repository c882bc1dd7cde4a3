------------------------------ MODULE RlcAmTx ------------------------------
(***************************************************************************)
(* The transmitting side of an RLC AM bearer, rlc_am_lte_tx.               *)
(*                                                                         *)
(* A PDU carries the pieces lo .. hi of the stream, of one SDU or of       *)
(* several: its length indicators are Ends \cap lo .. hi. A MAC            *)
(* opportunity of n bytes is one for n pieces.                             *)
(*                                                                         *)
(* Two threads use the entity. The stack thread writes SDUs, runs timers   *)
(* and handles status PDUs; a PHY worker reads PDUs. handle_control_pdu    *)
(* lets go of the mutex between any two sequence numbers, so that a PDU    *)
(* may be read in the middle of it: ctl says how far it has come.          *)
(***************************************************************************)
EXTENDS RlcLink

CONSTANTS
  PollPdu,   \* poll_pdu; 0 for "infinity" (the code has -1)
  MaxRetx,   \* max_retx_thresh
  Grants     \* sizes of MAC opportunities

ASSUME PollAssumption == PollPdu \in Nat /\ MaxRetx \in Nat \ {0}
ASSUME GrantsAssumption == Grants \subseteq Nat \ {0}

VARIABLES
  written,      \* the last piece PDCP has written
  sent,         \* the last piece that is in a PDU
  vtA, vtS,     \* vt_a, vt_s
  pollSn,       \* poll_sn
  withoutPoll,  \* pdu_without_poll
  txWindow,     \* tx_window: the PDU of each sequence number, or NoPdu
  retxQueue,    \* retx_queue
  pollTimer,    \* poll_retx_timer: "stopped", "running" or "expired"
  ctl,          \* the status PDU in hand, or NoCtl
  confirmed,    \* SDUs that PDCP was told have been delivered
  maxRetxReached,    \* rrc->max_retx_attempted(): the RRC releases the UE
  protocolFailure    \* rrc->protocol_failure(): so does this

txVars == <<written, sent, vtA, vtS, pollSn, withoutPoll, txWindow, retxQueue,
            pollTimer, ctl, confirmed, maxRetxReached, protocolFailure>>

NoPdu == [lo |-> 0, hi |-> 0, retx |-> 0]
NoCtl == [active |-> FALSE, ack |-> 0, nacks |-> {}, i |-> 0, end |-> 0,
          advance |-> FALSE, acked |-> {}]

Up == ~ maxRetxReached /\ ~ protocolFailure

\* A bearer that has been idle for a while, or a new one
TxInit ==
  /\ written = 0 /\ sent = 0
  /\ vtA = FirstSn /\ vtS = FirstSn
  /\ pollSn = IF FirstSn = 0 THEN 0 ELSE FirstSn - 1
  /\ withoutPoll = 0
  /\ txWindow = [sn \in Sn |-> NoPdu]
  /\ retxQueue = << >>
  /\ pollTimer = "stopped"
  /\ ctl = NoCtl
  /\ confirmed = {}
  /\ maxRetxReached = FALSE /\ protocolFailure = FALSE

-----------------------------------------------------------------------------
Offset(sn) == (sn - vtA) % Mod  \* TX_MOD_BASE
InWindow(sn) == txWindow[sn] # NoPdu
SizeOf(sn) == txWindow[sn].hi - txWindow[sn].lo + 1
WindowFull == Offset(vtS) >= Window

\* tx_sdu_queue.size() = 0: there may still be an SDU of which a part is sent.
SduQueueEmpty(s) == written <= (IF s \in Ends \cup {0} THEN s ELSE EndOf[s])

\* poll_required, with q for the retransmission queue and s for the last piece
\* taken from the SDU queue at the moment of the call. pdu_without_poll has
\* been incremented.
PollRequired(q, s) ==
  \/ (PollPdu > 0 /\ withoutPoll + 1 > PollPdu)
  \/ pollTimer = "expired"
  \/ WindowFull
  \/ (SduQueueEmpty(s) /\ q = << >>)

\* What sending a PDU does to the state of polling
Polled(poll) ==
  /\ withoutPoll' = IF poll THEN 0 ELSE withoutPoll + 1
  /\ pollTimer' = IF poll THEN "running" ELSE pollTimer

WholePduTooLong(sn) == [sn |-> sn, seg |-> FALSE, from |-> 0, to |-> SizeOf(sn) + 1]
WholePdu(sn) == [sn |-> sn, seg |-> FALSE, from |-> 0, to |-> SizeOf(sn)]

\* retx_queue is a ring of Window entries that holds one less: a push into a full
\* one, past an assert that only a debug build has, makes it look empty.
Pushed(q, e) == IF Len(q) + 1 < Window THEN Append(q, e) ELSE << >>

\* A retransmission is counted when it is queued, not when it is sent.
CountRetx(sn) ==
  /\ txWindow' = [txWindow EXCEPT ![sn].retx = @ + 1]
  /\ maxRetxReached' = (maxRetxReached \/ txWindow[sn].retx + 1 = MaxRetx)

-----------------------------------------------------------------------------
(* read_pdu                                                                *)

\* "if tx_window is full and retx_queue empty, retransmit PDU"
FullWindowRetx == WindowFull /\ retxQueue = << >> /\ InWindow(vtA)

\* Entries whose PDU has been acknowledged meanwhile are dropped.
Live ==
  LET alive == {k \in 1 .. Len(retxQueue) : InWindow(retxQueue[k].sn)}
  IN IF alive = {} THEN << >>
     ELSE SubSeq(retxQueue, CHOOSE k \in alive : \A j \in alive : k <= j,
                 Len(retxQueue))

\* "schedule next SN for retx", when all entries were dropped
NextSnRetx == retxQueue # << >> /\ Live = << >> /\ InWindow(vtA)

RetransmitVtA == FullWindowRetx \/ NextSnRetx
ToRetransmit == IF RetransmitVtA THEN <<WholePdu(vtA)>> ELSE Live

CountReadRetx ==
  IF RetransmitVtA THEN CountRetx(vtA)
  ELSE UNCHANGED <<txWindow, maxRetxReached>>

\* build_retx_pdu, without resegmentation: the entry is still queued when the
\* need for a poll is found out.
RetxWhole(n) ==
  LET e == Head(ToRetransmit)
      poll == PollRequired(ToRetransmit, sent)
  IN /\ ToRetransmit # << >>
     /\ ~ e.seg /\ SizeOf(e.sn) <= n
     /\ SendDown([sn |-> e.sn, rf |-> FALSE, so |-> 0, lo |-> txWindow[e.sn].lo,
                  hi |-> txWindow[e.sn].hi, lsf |-> TRUE, p |-> poll])
     /\ retxQueue' = Tail(ToRetransmit)
     /\ Polled(poll)
     /\ CountReadRetx
     /\ UNCHANGED <<written, sent, vtA, vtS, pollSn, ctl, confirmed, protocolFailure>>

\* build_segment
RetxSegment(n) ==
  LET e == Head(ToRetransmit)
      to == IF e.from + n < e.to THEN e.from + n ELSE e.to
      rest == IF to \in {e.to, SizeOf(e.sn)} THEN Tail(ToRetransmit)
              ELSE <<[e EXCEPT !.seg = TRUE, !.from = to]>> \o Tail(ToRetransmit)
      poll == PollRequired(rest, sent)
  IN /\ ToRetransmit # << >>
     /\ e.seg \/ SizeOf(e.sn) > n
     /\ SendDown([sn |-> e.sn, rf |-> TRUE, so |-> e.from,
                  lo |-> txWindow[e.sn].lo + e.from, hi |-> txWindow[e.sn].lo + to - 1,
                  lsf |-> to = SizeOf(e.sn), p |-> poll])
     /\ retxQueue' = rest
     /\ Polled(poll)
     /\ CountReadRetx
     /\ UNCHANGED <<written, sent, vtA, vtS, pollSn, ctl, confirmed, protocolFailure>>

\* build_data_pdu
NewPdu(n) ==
  LET hi == IF sent + n < written THEN sent + n ELSE written
      poll == PollRequired(<< >>, hi)
  IN /\ ToRetransmit = << >>
     /\ sent < written /\ ~ WindowFull
     /\ SendDown([sn |-> vtS, rf |-> FALSE, so |-> 0, lo |-> sent + 1, hi |-> hi,
                  lsf |-> TRUE, p |-> poll])
     /\ sent' = hi
     /\ txWindow' = [txWindow EXCEPT ![vtS] =
                       [lo |-> sent + 1, hi |-> hi, retx |-> 0]]
     /\ vtS' = (vtS + 1) % Mod
     /\ pollSn' = IF poll THEN vtS ELSE pollSn
     /\ retxQueue' = << >>
     /\ Polled(poll)
     /\ UNCHANGED <<written, vtA, ctl, confirmed, maxRetxReached, protocolFailure>>

ReadPdu(n) == Up /\ (RetxWhole(n) \/ RetxSegment(n) \/ NewPdu(n))

\* Nothing to send, but dead entries are dropped.
ReadNothing ==
  /\ Up /\ retxQueue # << >> /\ ToRetransmit = << >>
  /\ sent = written \/ WindowFull
  /\ retxQueue' = << >>
  /\ UNCHANGED <<written, sent, vtA, vtS, pollSn, withoutPoll, txWindow,
                 pollTimer, ctl, confirmed, maxRetxReached, protocolFailure>>

\* get_buffer_state: the MAC gives opportunities while this holds.
HasBuffer ==
  \/ retxQueue # << >> /\ InWindow(Head(retxQueue).sn)
  \/ ~ WindowFull /\ sent < written

-----------------------------------------------------------------------------
(* The stack thread                                                        *)

\* write_sdu
WriteSdu ==
  /\ Up /\ ~ ctl.active
  /\ written < Total
  /\ written' = EndOf[written + 1]
  /\ UNCHANGED <<sent, vtA, vtS, pollSn, withoutPoll, txWindow, retxQueue,
                 pollTimer, ctl, confirmed, maxRetxReached, protocolFailure>>

\* timer_expired, with retransmit_pdu
PollTimerExpires ==
  /\ Up /\ ~ ctl.active
  /\ pollTimer = "running"
  /\ pollTimer' = "expired"
  /\ IF ((retxQueue = << >> /\ SduQueueEmpty(sent)) \/ WindowFull) /\ InWindow(vtA)
     THEN CountRetx(vtA) /\ retxQueue' = Pushed(retxQueue, WholePdu(vtA))
     ELSE UNCHANGED <<txWindow, retxQueue, maxRetxReached>>
  /\ UNCHANGED <<written, sent, vtA, vtS, pollSn, withoutPoll, ctl, confirmed,
                 protocolFailure>>

\* handle_control_pdu: "make sure ACK_SN is within our Tx window"
ValidAck(ack) ==
  /\ (ack - vtA) % Mod <= Window
  /\ (vtS - ack) % Mod <= Window

StatusBegin(status) ==
  /\ Up /\ ~ ctl.active
  /\ IF ValidAck(status.ack)
     THEN /\ pollTimer' = IF pollTimer = "running" /\ Offset(pollSn) < Offset(status.ack)
                          THEN "stopped" ELSE pollTimer
          /\ retxQueue' = IF status.nacks # {} THEN << >> ELSE retxQueue
          /\ ctl' = [active |-> TRUE, ack |-> status.ack, nacks |-> status.nacks,
                     i |-> vtA, end |-> vtS, advance |-> TRUE, acked |-> {}]
     ELSE UNCHANGED <<pollTimer, retxQueue, ctl>>
  /\ UNCHANGED <<written, sent, vtA, vtS, pollSn, withoutPoll, txWindow,
                 confirmed, maxRetxReached, protocolFailure>>

StatusGoesOn == Offset(ctl.i) < Offset(ctl.ack) /\ Offset(ctl.i) < Offset(ctl.end)

StatusNackAdvances ==
  /\ Up /\ ctl.active /\ StatusGoesOn
  /\ ctl.i \in ctl.nacks
  /\ IF InWindow(ctl.i) /\ \A k \in 1 .. Len(retxQueue) : retxQueue[k].sn # ctl.i
     THEN CountRetx(ctl.i) /\ retxQueue' = Pushed(retxQueue, WholePdu(ctl.i))
     ELSE UNCHANGED <<txWindow, retxQueue, maxRetxReached>>
  /\ ctl' = [ctl EXCEPT !.i = (@ + 1) % Mod]
  /\ UNCHANGED <<written, sent, vtA, vtS, pollSn, withoutPoll, pollTimer,
                 confirmed, protocolFailure>>

StatusNackRepeats ==
  /\ Up /\ ctl.active /\ StatusGoesOn
  /\ ctl.i \in ctl.nacks
  /\ IF InWindow(ctl.i)
     THEN CountRetx(ctl.i) /\ retxQueue' = Pushed(retxQueue, WholePdu(ctl.i))
     ELSE UNCHANGED <<txWindow, retxQueue, maxRetxReached>>
  /\ ctl' = [ctl EXCEPT !.i = (@ + 1) % Mod, !.advance = FALSE]
  /\ UNCHANGED <<written, sent, vtA, vtS, pollSn, withoutPoll, pollTimer,
                 confirmed, protocolFailure>>

StatusNack ==
  /\ Up /\ ctl.active /\ StatusGoesOn
  /\ ctl.i \in ctl.nacks
  /\ IF InWindow(ctl.i) /\ \A k \in 1 .. Len(retxQueue) : retxQueue[k].sn # ctl.i
     THEN CountRetx(ctl.i) /\ retxQueue' = Pushed(retxQueue, WholePdu(ctl.i))
     ELSE UNCHANGED <<txWindow, retxQueue, maxRetxReached>>
  /\ ctl' = [ctl EXCEPT !.i = (@ + 1) % Mod, !.advance = FALSE]
  /\ UNCHANGED <<written, sent, vtA, vtS, pollSn, withoutPoll, pollTimer,
                 confirmed, protocolFailure>>

FullyAckedAlone(sn) ==
  {e \in Ends : e <= sent /\ \E p \in txWindow[sn].lo .. txWindow[sn].hi : EndOf[p] = e}

\* update_notification_ack_info: the SDUs that were sent to the end and have no
\* piece in any PDU of the window but sn
FullyAcked(sn) ==
  {e \in Ends :
     /\ e <= sent
     /\ \E p \in txWindow[sn].lo .. txWindow[sn].hi : EndOf[p] = e
     /\ \A s \in Sn \ {sn} : InWindow(s) =>
          \A p \in txWindow[s].lo .. txWindow[s].hi : EndOf[p] # e}

StatusAck ==
  /\ Up /\ ctl.active /\ StatusGoesOn
  /\ ctl.i \notin ctl.nacks
  /\ ctl' = [ctl EXCEPT !.i = (@ + 1) % Mod,
               !.acked = @ \cup IF InWindow(ctl.i) THEN FullyAcked(ctl.i) ELSE {}]
  /\ txWindow' = [txWindow EXCEPT ![ctl.i] = NoPdu]
  /\ vtA' = IF ctl.advance THEN (vtA + 1) % Mod ELSE vtA
  /\ UNCHANGED <<written, sent, vtS, pollSn, withoutPoll, retxQueue, pollTimer,
                 confirmed, maxRetxReached, protocolFailure>>

\* "Make sure vt_a points to valid SN", and notify_delivery
StatusEnd ==
  /\ Up /\ ctl.active /\ ~ StatusGoesOn
  /\ protocolFailure' = (~ InWindow(vtA) /\ \E sn \in Sn : InWindow(sn))
  /\ confirmed' = confirmed \cup ctl.acked
  /\ ctl' = NoCtl
  /\ UNCHANGED <<written, sent, vtA, vtS, pollSn, withoutPoll, txWindow,
                 retxQueue, pollTimer, maxRetxReached>>
=============================================================================
