------------------------------ MODULE RlcAmInv ------------------------------
(***************************************************************************)
(* The inductive invariant of RlcAm. Sequence numbers are counted without  *)
(* wrapping: SnOf(j) is the one of the PDU number j. The state is that of  *)
(* numbers a, s, r, h, m for vt_a, vt_s, vr_r, vr_h, vr_ms, with i, k, e   *)
(* for where the status PDU in hand is, its ACK and its end, with a set U  *)
(* of the reports the receiver may have sent, and the set D of those the   *)
(* sender has begun to handle. A report is its ACK and what the receiver   *)
(* had when it was sent.                                                   *)
(***************************************************************************)
EXTENDS RlcAm

SnOf(j) == j % Mod

Carried(ch) == {ch[n].pdu : n \in 1 .. Len(ch)}

-----------------------------------------------------------------------------
Entries == [sn : Sn, seg : BOOLEAN, from : Nat, to : Nat]
Ctls == [active : BOOLEAN, ack : Sn, nacks : SUBSET Sn, i : Sn, end : Sn,
         advance : BOOLEAN, acked : SUBSET Ends]
Segments == {x \in [so : 0 .. Total - 1, lo : Piece, hi : Piece, lsf : BOOLEAN, p : BOOLEAN] :
               x.lo <= x.hi}
DataPdus == {x \in Pdus : x.lo <= x.hi}

TxTypes ==
  /\ written \in Ends \cup {0} /\ sent \in 0 .. written
  /\ pollSn \in Sn /\ withoutPoll \in Nat
  /\ txWindow \in [Sn -> [lo : Nat, hi : Nat, retx : Nat]]
  /\ \A sn \in Sn : InWindow(sn) =>
       1 <= txWindow[sn].lo /\ txWindow[sn].lo <= txWindow[sn].hi /\ txWindow[sn].hi <= sent
  /\ retxQueue \in Seq(Entries) /\ Len(retxQueue) < Window
  /\ pollTimer \in {"stopped", "running", "expired"}
  /\ ctl \in Ctls
  /\ confirmed \subseteq Ends
  /\ maxRetxReached \in BOOLEAN /\ protocolFailure = FALSE

\* An entry of retx_queue is about the PDU that has its sequence number.
QueueFits ==
  \A n \in 1 .. Len(retxQueue) : InWindow(retxQueue[n].sn) =>
    retxQueue[n].from < retxQueue[n].to /\ retxQueue[n].to = SizeOf(retxQueue[n].sn)

RxTypes ==
  /\ rxWindow \in [Sn -> [lo : Nat, hi : Nat]]
  /\ rxSegments \in [Sn -> SUBSET Segments] /\ segKeys \subseteq Sn
  /\ pollReceived \in BOOLEAN /\ doStatus \in BOOLEAN
  /\ reordering \in BOOLEAN /\ prohibited \in BOOLEAN /\ vrX \in Sn

LinkTypes ==
  /\ down \in Seq([pdu : DataPdus, late : BOOLEAN])
  /\ up \in Seq([pdu : Statuses, late : BOOLEAN])

Types == TxTypes /\ QueueFits /\ RxTypes /\ LinkTypes

-----------------------------------------------------------------------------
\* The windows and where they are
Frame(a, s, r, h, m) ==
  /\ vtA = SnOf(a) /\ vtS = SnOf(s) /\ vrR = SnOf(r) /\ vrH = SnOf(h) /\ vrMs = SnOf(m)
  /\ FirstSn <= a /\ a <= r /\ r <= m /\ m <= h /\ h <= s /\ s <= a + Window

\* What the receiver has by number
Held(r, h) == {j \in FirstSn .. h - 1 : j < r \/ rxWindow[SnOf(j)] # None}

RxHolds(r, h, m) ==
  /\ \A sn \in Sn : rxWindow[sn] # None => \E j \in r .. h - 1 : sn = SnOf(j)
  /\ rxWindow[SnOf(r)] = None /\ rxWindow[SnOf(m)] = None
  /\ reordering => \E x \in r + 1 .. h : vrX = SnOf(x)

DownIsRecent(s) ==
  \A p \in Carried(down) : \E d \in s - Window .. s - 1 : p.sn = SnOf(d)

-----------------------------------------------------------------------------
Reports == [k : Int, have : SUBSET Int]
Acks(u) == {j \in u.have : j < u.k}

\* The ACK of a report is a number the receiver does not have, or the last one
\* before the NACK that was cut off.
AckFits(u) ==
  u.k \in u.have =>
    /\ u.k + 1 \notin u.have
    /\ \E n \in FirstSn .. u.k - 1 : n \notin u.have /\ \A j \in n + 1 .. u.k : j \in u.have

\* Later reports tell of more.
Chain(U) == \A u, v \in U : u.have \subseteq v.have \/ v.have \subseteq u.have

\* status says what report u does of the numbers from a on.
Says(status, u, a) ==
  /\ status.ack = SnOf(u.k)
  /\ \A j \in a .. u.k - 1 : SnOf(j) \in status.nacks <=> j \notin u.have

ReportsTrue(a, s, r, h, U) ==
  /\ \A u \in U : AckFits(u) /\ u.have \subseteq Held(r, h) /\ u.k <= h
  /\ Chain(U)
  /\ \A status \in Carried(up) : \E u \in U : s - Window <= u.k /\ Says(status, u, a)

-----------------------------------------------------------------------------
\* j is acknowledged by the status PDU in hand.
InHand(j, k, e) == ctl.active /\ j < k /\ j < e /\ SnOf(j) \notin ctl.nacks

AckedBy(D, j) == \E u \in D : j \in Acks(u)

\* tx_window holds what no report that was handled acknowledges; of the one in
\* hand, only the numbers before i have been handled.
TxHolds(a, s, i, k, e, D) ==
  /\ \A sn \in Sn : InWindow(sn) => \E j \in a .. s - 1 : sn = SnOf(j)
  /\ \A j \in FirstSn .. a - 1 : AckedBy(D, j)
  /\ \A j \in a .. s - 1 : InWindow(SnOf(j)) \/ AckedBy(D, j)
  /\ \A u \in D : \A j \in Acks(u) : a <= j => ~ InWindow(SnOf(j)) \/ (i <= j /\ InHand(j, k, e))

\* Where the status PDU in hand stops vt_a: at a PDU that waits for its ACK
Stop(g, a, s, k, e) ==
  /\ a <= g /\ g <= s
  /\ \A j \in a .. g - 1 : InHand(j, k, e)
  /\ g = k \/ g = e \/ SnOf(g) \in ctl.nacks
  /\ g = s \/ InWindow(SnOf(g))

CtlHolds(a, s, i, k, e, D) ==
  IF ctl.active
  THEN /\ ctl.i = SnOf(i) /\ ctl.ack = SnOf(k) /\ ctl.end = SnOf(e)
       /\ a <= i /\ i <= k /\ i <= e /\ e <= s /\ k <= a + Window
       /\ \A j \in i .. e - 1 : InHand(j, k, e) => AckedBy(D, j)
       /\ IF ctl.advance THEN i = a /\ \E g \in a .. s : Stop(g, a, s, k, e)
          ELSE a < i /\ InWindow(SnOf(a))
  ELSE a = s \/ InWindow(SnOf(a))

-----------------------------------------------------------------------------
Core(a, s, r, h, m, i, k, e, U, D) ==
  /\ Frame(a, s, r, h, m)
  /\ RxHolds(r, h, m)
  /\ DownIsRecent(s)
  /\ ReportsTrue(a, s, r, h, U)
  /\ TxHolds(a, s, i, k, e, D)
  /\ CtlHolds(a, s, i, k, e, D)

IInv ==
  /\ Types
  /\ \E a, s, r, h, m, i, k, e \in Int : \E U \in SUBSET Reports : \E D \in SUBSET U :
       Core(a, s, r, h, m, i, k, e, U, D)
=============================================================================
