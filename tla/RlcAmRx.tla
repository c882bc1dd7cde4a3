------------------------------ MODULE RlcAmRx ------------------------------
(***************************************************************************)
(* The receiving side of an RLC AM bearer, rlc_am_lte_rx, and the status   *)
(* PDUs that the transmitting side of the same entity sends for it. All of *)
(* a handler runs under one mutex.                                         *)
(***************************************************************************)
EXTENDS RlcLink

CONSTANTS
  NackRooms,  \* how many NACKs may fit into a status PDU
  Prohibit    \* is t_status_prohibit > 0?

ASSUME NackRoomsAssumption == NackRooms \subseteq Nat /\ NackRooms # {}
ASSUME ProhibitAssumption == Prohibit \in BOOLEAN

VARIABLES
  rxWindow,      \* rx_window: the pieces of each PDU, or None
  rxSegments,    \* rx_segments: the segments of each sequence number
  segKeys,       \* the keys of rx_segments; one may map to an empty list
  vrR, vrH, vrX, vrMs,  \* vr_r, vr_h, vr_x, vr_ms; vr_mr is vr_r + Window
  pollReceived, doStatus,
  reordering,    \* is the reordering timer running?
  prohibited,    \* is the status prohibit timer running?
  got            \* the pieces reassembled so far: SDUs go to PDCP in this order

rxVars == <<rxWindow, rxSegments, segKeys, vrR, vrH, vrX, vrMs, pollReceived,
            doStatus, reordering, prohibited, got>>

None == [lo |-> 0, hi |-> 0]

RxInit ==
  /\ rxWindow = [sn \in Sn |-> None]
  /\ rxSegments = [sn \in Sn |-> {}]
  /\ segKeys = {}
  /\ vrR = FirstSn /\ vrH = FirstSn /\ vrX = FirstSn /\ vrMs = FirstSn
  /\ pollReceived = FALSE /\ doStatus = FALSE
  /\ reordering = FALSE /\ prohibited = FALSE
  /\ got = << >>

-----------------------------------------------------------------------------
Ahead(sn, base) == (sn - base) % Mod  \* RX_MOD_BASE, where base is vr_r
InsideRxWindow(sn, base) == Ahead(sn, base) < Window

\* The first sequence number from sn on that win does not have
FirstMissing(win, sn) ==
  LET missing == {k \in 0 .. Window : win[(sn + k) % Mod] = None}
  IN (sn + CHOOSE k \in missing : \A j \in missing : k <= j) % Mod

Later(sn, old) == IF Ahead(sn, vrR) >= Ahead(old, vrR) THEN (sn + 1) % Mod ELSE old

PiecesOf(pdu) == [k \in 1 .. pdu.hi - pdu.lo + 1 |-> pdu.lo + k - 1]

\* reassemble_rx_sdus: got, with n PDUs from vr_r on
Reassembled(win, n) ==
  LET upTo[k \in 0 .. n] ==
        IF k = 0 THEN got ELSE upTo[k - 1] \o PiecesOf(win[(vrR + k - 1) % Mod])
  IN upTo[n]

-----------------------------------------------------------------------------
\* A PDU that is discarded may still ask for a status.
Discard(p) ==
  /\ doStatus' = (doStatus \/ p)
  /\ UNCHANGED <<rxWindow, rxSegments, segKeys, vrR, vrH, vrX, vrMs, pollReceived,
                 reordering, prohibited, got>>

\* handle_data_pdu_full for a PDU that is kept; asked is do_status as the caller
\* leaves it, and done the keys of rx_segments that the caller erases.
KeepFull(sn, lo, hi, p, asked, done) ==
  LET win == [rxWindow EXCEPT ![sn] = [lo |-> lo, hi |-> hi]]
      r == FirstMissing(win, vrR)
      n == Ahead(r, vrR)
      h == Later(sn, vrH)
      ms == FirstMissing(win, vrMs)
      passed == {s \in Sn : Ahead(s, vrR) < n}
      runs == reordering /\ vrX # r
                /\ (InsideRxWindow(vrX, r) \/ vrX = (r + Window) % Mod)
      starts == ~ runs /\ Ahead(h, r) > 0
  IN /\ rxWindow' = [s \in Sn |-> IF s \in passed THEN None ELSE win[s]]
     /\ rxSegments' = [s \in Sn |-> IF s \in passed \cup done THEN {} ELSE rxSegments[s]]
     /\ segKeys' = segKeys \ done
     /\ got' = Reassembled(win, n)
     /\ vrR' = r /\ vrH' = h /\ vrMs' = ms
     /\ pollReceived' = (pollReceived \/ p)
     /\ doStatus' = (asked \/ (p /\ Ahead(sn, vrR) < Ahead(ms, vrR)))
     /\ reordering' = (runs \/ starts)
     /\ vrX' = IF starts THEN h ELSE vrX
     /\ UNCHANGED prohibited

\* handle_data_pdu_full
HandleFull(pdu) ==
  IF InsideRxWindow(pdu.sn, vrR) /\ rxWindow[pdu.sn] = None
  THEN KeepFull(pdu.sn, pdu.lo, pdu.hi, pdu.p, doStatus, {})
  ELSE Discard(pdu.p)

\* add_segment_and_check: the list of segments, ordered by so, holds one for
\* each so, the longest; the PDU is complete when they leave no gap.
WithSegment(segs, seg) ==
  IF \E s \in segs : s.so = seg.so /\ s.hi >= seg.hi THEN segs
  ELSE {s \in segs : s.so # seg.so} \cup {seg}

Complete(segs) ==
  \E s \in segs : s.lsf /\ \A off \in 0 .. s.so + s.hi - s.lo :
    \E t \in segs : t.so <= off /\ off <= t.so + t.hi - t.lo

FirstOf(segs) == CHOOSE s \in segs : s.so = 0
LastOf(segs) == CHOOSE s \in segs : s.lsf

\* handle_data_pdu_segment
HandleSegment(pdu) ==
  LET sn == pdu.sn
      seg == [so |-> pdu.so, lo |-> pdu.lo, hi |-> pdu.hi, lsf |-> pdu.lsf, p |-> pdu.p]
      segs == WithSegment(rxSegments[sn], seg)
  IN \/ /\ ~ InsideRxWindow(sn, vrR)
        /\ Discard(pdu.p)
     \/ /\ InsideRxWindow(sn, vrR) /\ sn \in segKeys /\ Complete(segs)
        /\ IF rxWindow[sn] = None
           THEN KeepFull(sn, FirstOf(segs).lo, LastOf(segs).hi,
                         \E s \in segs : s.p, doStatus \/ pdu.p, {sn})
           ELSE /\ doStatus' = (doStatus \/ pdu.p \/ \E s \in segs : s.p)
                /\ rxSegments' = [rxSegments EXCEPT ![sn] = {}]
                /\ segKeys' = segKeys \ {sn}
                /\ UNCHANGED <<rxWindow, vrR, vrH, vrX, vrMs, pollReceived,
                               reordering, prohibited, got>>
     \/ /\ InsideRxWindow(sn, vrR) /\ sn \in segKeys /\ ~ Complete(segs)
        /\ doStatus' = (doStatus \/ pdu.p)
        /\ rxSegments' = [rxSegments EXCEPT ![sn] = segs]
        /\ UNCHANGED <<rxWindow, segKeys, vrR, vrH, vrX, vrMs, pollReceived,
                       reordering, prohibited, got>>
     \/ /\ InsideRxWindow(sn, vrR) /\ sn \notin segKeys
        /\ segKeys' = segKeys \cup {sn}
        /\ rxSegments' = [rxSegments EXCEPT ![sn] = {seg}]
        /\ vrH' = Later(sn, vrH)
        /\ pollReceived' = (pollReceived \/ pdu.p)
        /\ doStatus' = (doStatus \/ (pdu.p /\ Ahead(sn, vrR) < Ahead(vrMs, vrR)))
        /\ UNCHANGED <<rxWindow, vrR, vrX, vrMs, reordering, prohibited, got>>

HandleData(pdu) == IF pdu.rf THEN HandleSegment(pdu) ELSE HandleFull(pdu)

\* timer_expired of the reordering timer
ReorderingExpires ==
  LET ms == FirstMissing(rxWindow, vrX)
      again == Ahead(vrH, vrR) > Ahead(ms, vrR)
  IN /\ reordering
     /\ vrMs' = ms
     /\ doStatus' = (doStatus \/ pollReceived)
     /\ reordering' = again
     /\ vrX' = IF again THEN vrH ELSE vrX
     /\ UNCHANGED <<rxWindow, rxSegments, segKeys, vrR, vrH, pollReceived,
                    prohibited, got>>

ProhibitExpires ==
  /\ prohibited
  /\ prohibited' = FALSE
  /\ UNCHANGED <<rxWindow, rxSegments, segKeys, vrR, vrH, vrX, vrMs, pollReceived,
                 doStatus, reordering, got>>

StatusWithCut(room) ==
  LET missing == {s \in Sn : Ahead(s, vrR) < Ahead(vrMs, vrR) /\ rxWindow[s] = None}
      before(s) == {m \in missing : Ahead(m, vrR) < Ahead(s, vrR)}
  IN [ack |-> vrMs, nacks |-> {s \in missing : Cardinality(before(s)) < room}]

\* get_status_pdu: the NACKs that do not fit are left out, and ACK_SN goes back
\* to the last sequence number received before them. If that one would itself
\* be NACKed, or come before a NACK, all NACKs are dropped.
StatusWith(room) ==
  LET missing == {s \in Sn : Ahead(s, vrR) < Ahead(vrMs, vrR) /\ rxWindow[s] = None}
      before(s) == {m \in missing : Ahead(m, vrR) < Ahead(s, vrR)}
      nacks == {s \in missing : Cardinality(before(s)) < room}
      cut == CHOOSE s \in missing \ nacks : before(s) = nacks
      had == {s \in Sn : Ahead(s, vrR) < Ahead(cut, vrR) /\ rxWindow[s] # None}
      last == CHOOSE s \in had : \A t \in had : Ahead(t, vrR) <= Ahead(s, vrR)
  IN CASE missing = nacks -> [ack |-> vrMs, nacks |-> nacks]
       [] missing # nacks /\ had # {} /\ before(last) = nacks ->
            [ack |-> last, nacks |-> nacks]
       [] OTHER -> [ack |-> vrR, nacks |-> {}]

\* build_status_pdu
SendStatus ==
  /\ doStatus /\ ~ prohibited
  /\ \E room \in NackRooms : SendUp(StatusWith(room))
  /\ doStatus' = FALSE /\ pollReceived' = FALSE
  /\ prohibited' = Prohibit
  /\ UNCHANGED <<rxWindow, rxSegments, segKeys, vrR, vrH, vrX, vrMs, reordering, got>>
=============================================================================
