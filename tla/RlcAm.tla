------------------------------- MODULE RlcAm -------------------------------
(***************************************************************************)
(* One direction of an RLC AM bearer: the transmitting side of one entity, *)
(* the receiving side of its peer, and between them MAC, HARQ and the      *)
(* radio, which lose PDUs and let one overtake another. The SDUs of the    *)
(* run are finite in number. A timer that runs may expire at any moment.   *)
(***************************************************************************)
EXTENDS RlcAmTx, RlcAmRx

vars == <<txVars, rxVars, linkVars>>

Init == TxInit /\ RxInit /\ LinkInit

-----------------------------------------------------------------------------
\* A PDU is on its way for less time than a window of new PDUs takes.
Recent ==
  /\ \A k \in 1 .. Len(down) : (vtS' - down[k].pdu.sn) % Mod <= Window
  /\ \A k \in 1 .. Len(up) : (vtS' - up[k].pdu.ack) % Mod <= Window

\* A PHY worker of the sender gives the entity an opportunity.
Read ==
  /\ UNCHANGED <<rxVars, up, overtaking>>
  /\ \E n \in Grants : ReadPdu(n)
  /\ Recent

ReceiveData ==
  /\ down # << >>
  /\ UNCHANGED <<txVars, up, overtaking>>
  /\ down' = Tail(down)
  /\ HandleData(Head(down).pdu)

LoseData ==
  /\ UNCHANGED <<txVars, rxVars, up, overtaking>>
  /\ \E k \in 1 .. Len(down) : down' = Without(down, k)

\* The peer's MAC gives its entity an opportunity.
Report == UNCHANGED <<txVars, down, overtaking>> /\ SendStatus

ReceiveStatus ==
  /\ up # << >>
  /\ UNCHANGED <<rxVars, down, overtaking>>
  /\ up' = Tail(up)
  /\ StatusBegin(Head(up).pdu)

LoseStatus ==
  /\ UNCHANGED <<txVars, rxVars, down, overtaking>>
  /\ \E k \in 1 .. Len(up) : up' = Without(up, k)

Sender(step) == UNCHANGED <<rxVars, linkVars>> /\ step
Receiver(step) == UNCHANGED <<txVars, linkVars>> /\ step

Next ==
  \/ Read \/ Sender(ReadNothing)
  \/ ReceiveData \/ LoseData
  \/ Report \/ ReceiveStatus \/ LoseStatus
  \/ Sender(WriteSdu) \/ Sender(PollTimerExpires)
  \/ Sender(StatusNack) \/ Sender(StatusAck) \/ Sender(StatusEnd)
  \/ Receiver(ReorderingExpires) \/ Receiver(ProhibitExpires)

Spec == Init /\ [][Next]_vars

\* The MAC schedules an entity that reports data or a status PDU; threads and
\* timers run; what is sent and not lost arrives. A behaviour is finite, as are
\* the traffic and the number of retransmissions, so that the weak fairness of
\* all these steps together is that of each.
FairStep ==
  \/ HasBuffer /\ Read
  \/ Report \/ ReceiveData \/ ReceiveStatus
  \/ Sender(StatusNack) \/ Sender(StatusAck) \/ Sender(StatusEnd)
  \/ Sender(PollTimerExpires)
  \/ Receiver(ReorderingExpires) \/ Receiver(ProhibitExpires)

FairSpec == Spec /\ WF_vars(FairStep)

-----------------------------------------------------------------------------
(* Properties                                                              *)

Pdus == [sn : Sn, rf : BOOLEAN, so : 0 .. Total - 1, lo : Piece, hi : Piece,
         lsf : BOOLEAN, p : BOOLEAN]
Statuses == [ack : Sn, nacks : SUBSET Sn]

\* Type invariant. Beyond types: what is queued and on its way is bounded.
TypeOK ==
  /\ written \in Ends \cup {0} /\ sent \in 0 .. written
  /\ {vtA, vtS, pollSn, vrR, vrH, vrX, vrMs} \subseteq Sn
  /\ withoutPoll \in Nat
  /\ \A sn \in Sn : InWindow(sn) =>
       /\ txWindow[sn].lo \in 1 .. txWindow[sn].hi
       /\ txWindow[sn].hi \in 1 .. sent
       /\ txWindow[sn].retx \in Nat
  /\ Len(retxQueue) < Window
  /\ pollTimer \in {"stopped", "running", "expired"}
  /\ confirmed \subseteq Ends
  /\ \A k \in 1 .. Len(down) : down[k].pdu \in Pdus
  /\ \A k \in 1 .. Len(up) : up[k].pdu \in Statuses
  /\ segKeys \subseteq Sn /\ doStatus \in BOOLEAN
  /\ maxRetxReached \in BOOLEAN /\ protocolFailure \in BOOLEAN

\* However late, lost or out of order the status PDUs are, and whatever is read
\* in the middle of one, vt_a points to a PDU that waits for its ACK: the bearer
\* does not report a protocol failure.
NoProtocolFailure == ~ protocolFailure

\* The windows of the two sides overlap: the receiver has all that the sender
\* takes for acknowledged, and nothing that the sender has not sent.
WindowsOverlap ==
  /\ Offset(vrR) <= Offset(vtS)
  /\ Offset(vrR) <= Offset(vrH) /\ Offset(vrH) <= Offset(vtS)

\* The SDUs that the receiver has: passed on, or waiting in its window
HeldPieces ==
  {got[k] : k \in 1 .. Len(got)} \cup
  UNION {rxWindow[sn].lo .. rxWindow[sn].hi : sn \in {s \in Sn : rxWindow[s] # None}}
Received == Ends \ {EndOf[p] : p \in Piece \ HeldPieces}

Delivery == INSTANCE ReliableDelivery WITH received <- Received

\* The two entities together deliver SDUs in order, without loss or repetition,
\* and confirm only what has arrived.
ImplementsReliableDelivery == Delivery!Spec

\* The numbers in retx_queue
Queued == {retxQueue[k].sn : k \in 1 .. Len(retxQueue)}

\* A NACK adds its number to those in retx_queue and forgets none: the push of
\* handle_control_pdu keeps to assert(not full()), although the ring holds one
\* PDU less than a window, and a PHY worker may queue vt_a half way through.
NacksKept ==
  [][ctl.active /\ ctl.i \in ctl.nacks /\ ctl'.i # ctl.i =>
       Queued' = Queued \cup {sn \in {ctl.i} : InWindow(sn)}]_vars

\* Every SDU is delivered, or the bearer is given up after too many attempts.
AllDelivered ==
  \A e \in Ends : written >= e ~> e \in Received \/ ~ Up
=============================================================================
