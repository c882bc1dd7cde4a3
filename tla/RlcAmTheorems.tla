--------------------------- MODULE RlcAmTheorems ---------------------------
(***************************************************************************)
(* The transmitting side of RLC AM, and what holds of the two sides: their *)
(* windows overlap, and vt_a points to a PDU that waits for its ACK.       *)
(***************************************************************************)
EXTENDS RlcAmProofs

-----------------------------------------------------------------------------
(* Reports                                                                 *)

\* A report that acknowledges all from a up to g comes before no report that
\* acknowledges g and was handled while a waited for its ACK.
LEMMA StopWaits ==
  ASSUME NEW U \in SUBSET Reports, NEW D \in SUBSET U, NEW u \in U, Chain(U),
         \A v \in U : AckFits(v),
         NEW a \in Int, NEW g \in Int, a < g,
         \A j \in FirstSn .. a - 1 : AckedBy(D, j), \A v \in D : a \notin Acks(v),
         \A j \in a .. g - 1 : j \in Acks(u), g <= u.k, g = u.k \/ g \notin u.have,
         AckedBy(D, g)
  PROVE  FALSE
<1>0. /\ FirstSn \in Int /\ \A v \in U : v.k \in Int /\ v.have \subseteq Int
      /\ u.k \in Int
  BY Constants DEF Reports
<1>1. PICK t \in D : g \in Acks(t)
  BY DEF AckedBy
<1>2. t \in U /\ a \in u.have /\ g \in t.have /\ g < t.k /\ t.k \in Int
  <2>1. a \in a .. g - 1
    OBVIOUS
  <2> QED  BY <1>0, <1>1, <2>1 DEF Acks
<1>3. a \notin t.have
  <2>1. a < t.k
    BY <1>2
  <2> QED  BY <1>1, <2>1 DEF Acks
<1>4. t.have \subseteq u.have
  BY <1>2, <1>3 DEF Chain
<1>5. g = u.k /\ u.k \in u.have
  BY <1>2, <1>4
<1>6. PICK n \in FirstSn .. u.k - 1 : n \notin u.have /\ \A j \in n + 1 .. u.k : j \in u.have
  BY <1>5 DEF AckFits
<1>7. n \in Int /\ FirstSn <= n /\ n < g /\ u.k + 1 \notin u.have
  BY <1>0, <1>5, <1>6 DEF AckFits
<1>8. n < a
  <2> SUFFICES ASSUME a <= n PROVE FALSE
    BY <1>7
  <2>1. n \in a .. g - 1
    BY <1>7
  <2> QED  BY <2>1, <1>6 DEF Acks
<1>9. PICK v \in D : n \in Acks(v)
  <2>1. n \in FirstSn .. a - 1
    BY <1>0, <1>7, <1>8
  <2> QED  BY <2>1 DEF AckedBy
<1>10. v \in U /\ v.k \in Int /\ n \in v.have /\ n < v.k
  BY <1>0, <1>9 DEF Acks
<1>11. u.have \subseteq v.have
  BY <1>6, <1>10 DEF Chain
<1>12. v.k <= a
  <2> SUFFICES ASSUME a < v.k PROVE FALSE
    BY <1>10
  <2> QED  BY <1>2, <1>9, <1>11 DEF Acks
<1>13. v.k \in n + 1 .. u.k /\ v.k + 1 \in n + 1 .. u.k
  BY <1>0, <1>5, <1>7, <1>10, <1>12
<1>14. v.k \in v.have /\ v.k + 1 \in v.have
  BY <1>6, <1>11, <1>13
<1> QED  BY <1>10, <1>14 DEF AckFits

\* What a status PDU says of the numbers from a on, it says of later ones.
LEMMA SaysLater ==
  ASSUME NEW status, NEW u \in Reports, NEW a \in Int, NEW a1 \in Int, a <= a1,
         Says(status, u, a)
  PROVE  Says(status, u, a1)
<1>1. u.k \in Int
  BY DEF Reports
<1>2. \A j \in a1 .. u.k - 1 : j \in a .. u.k - 1
  BY <1>1
<1> QED  BY <1>2 DEF Says

-----------------------------------------------------------------------------
(* Steps of the receiver and of the link                                   *)

\* The receiver goes on, PDUs arrive or are lost: all that the sender has
\* stays true.
LEMMA ReceiverStep ==
  ASSUME NEW a \in Int, NEW s \in Int, NEW r \in Int, NEW h \in Int, NEW m \in Int,
         NEW i \in Int, NEW k \in Int, NEW e \in Int,
         NEW U \in SUBSET Reports, NEW D \in SUBSET U,
         Core(a, s, r, h, m, i, k, e, U, D), UNCHANGED txVars,
         NEW r1 \in Int, NEW h1 \in Int, NEW m1 \in Int,
         RxGoesOn(s, r, h, r1, h1, m1),
         Carried(down)' \subseteq Carried(down), Carried(up)' \subseteq Carried(up)
  PROVE  Core(a, s, r1, h1, m1, i, k, e, U, D)'
<1>1. /\ vtA' = vtA /\ vtS' = vtS /\ txWindow' = txWindow /\ ctl' = ctl
  BY DEF txVars
<1>2. Frame(a, s, r1, h1, m1)'
  BY <1>1, Constants DEF Core, Frame, RxGoesOn
<1>3. RxHolds(r1, h1, m1)'
  BY DEF RxGoesOn
<1>4. DownIsRecent(s)'
  BY DEF Core, DownIsRecent
<1>5. \A j : InWindow(SnOf(j))' <=> InWindow(SnOf(j))
  BY <1>1 DEF InWindow
<1>6. \A sn : InWindow(sn)' <=> InWindow(sn)
  BY <1>1 DEF InWindow
<1>7. \A j : InHand(j, k, e)' <=> InHand(j, k, e)
  BY <1>1 DEF InHand
<1>8. TxHolds(a, s, i, k, e, D)'
  BY <1>5, <1>6, <1>7 DEF Core, TxHolds
<1>9. CtlHolds(a, s, i, k, e, D)'
  BY <1>1, <1>5, <1>7 DEF Core, CtlHolds, Stop
<1>10. ReportsTrue(a, s, r1, h1, U)'
  <2>1. ReportsTrue(a, s, r, h, U)
    BY DEF Core
  <2>2. ASSUME NEW u \in U
        PROVE  AckFits(u) /\ u.have \subseteq Held(r1, h1)' /\ u.k <= h1
    <3>1. AckFits(u) /\ u.have \subseteq Held(r, h) /\ u.k <= h /\ u.k \in Int
      BY <2>1 DEF ReportsTrue, Reports
    <3>2. h <= h1 /\ Held(r, h) \subseteq Held(r1, h1)'
      BY DEF RxGoesOn
    <3> QED  BY <3>1, <3>2
  <2>3. \A status \in Carried(up)' : \E u \in U : s - Window <= u.k /\ Says(status, u, a)
    BY <2>1 DEF ReportsTrue
  <2> QED  BY <2>1, <2>2, <2>3 DEF ReportsTrue
<1> QED  BY <1>2, <1>3, <1>4, <1>8, <1>9, <1>10 DEF Core

LEMMA TxTypesStay ==
  ASSUME TxTypes, QueueFits, UNCHANGED txVars
  PROVE  TxTypes' /\ QueueFits'
BY DEF TxTypes, QueueFits, InWindow, SizeOf, txVars

LEMMA ReceiverKeeps ==
  ASSUME NEW a \in Int, NEW s \in Int, NEW r \in Int, NEW h \in Int, NEW m \in Int,
         NEW i \in Int, NEW k \in Int, NEW e \in Int,
         NEW U \in SUBSET Reports, NEW D \in SUBSET U,
         Types, Core(a, s, r, h, m, i, k, e, U, D), UNCHANGED txVars,
         RxTypes', \E r1, h1, m1 \in Int : RxGoesOn(s, r, h, r1, h1, m1),
         LinkTypes', Carried(down)' \subseteq Carried(down), Carried(up)' \subseteq Carried(up)
  PROVE  IInv'
<1>1. PICK r1, h1, m1 \in Int : RxGoesOn(s, r, h, r1, h1, m1)
  OBVIOUS
<1>2. Core(a, s, r1, h1, m1, i, k, e, U, D)'
  BY <1>1, ReceiverStep
<1>3. Types'
  BY TxTypesStay DEF Types
<1> QED  BY <1>1, <1>2, <1>3 DEF IInv

LEMMA ReceiveDataKeeps ==
  ASSUME IInv, ReceiveData
  PROVE  IInv'
<1>1. Types
  BY DEF IInv
<1>2. PICK a, s, r, h, m, i, k, e \in Int : \E U \in SUBSET Reports : \E D \in SUBSET U :
        Core(a, s, r, h, m, i, k, e, U, D)
  BY DEF IInv
<1>3. PICK U \in SUBSET Reports : \E D \in SUBSET U : Core(a, s, r, h, m, i, k, e, U, D)
  BY <1>2
<1>4. PICK D \in SUBSET U : Core(a, s, r, h, m, i, k, e, U, D)
  BY <1>3
<1>5. /\ down # << >> /\ down' = Tail(down) /\ HandleData(Head(down).pdu)
      /\ UNCHANGED txVars /\ up' = up
  BY DEF ReceiveData
<1>6. /\ down \in Seq([pdu : DataPdus, late : BOOLEAN])
      /\ RxTypes /\ LinkTypes
  BY <1>1 DEF Types, LinkTypes
<1>7. /\ down' \in Seq([pdu : DataPdus, late : BOOLEAN])
      /\ Carried(down') \subseteq Carried(down)
      /\ Head(down).pdu \in Carried(down) /\ Head(down).pdu \in DataPdus
  BY <1>5, <1>6, TailCarries
<1>8. Frame(a, s, r, h, m) /\ RxHolds(r, h, m) /\ DownIsRecent(s)
  BY <1>4 DEF Core
<1>9. PICK d \in s - Window .. s - 1 : Head(down).pdu.sn = SnOf(d)
  BY <1>7, <1>8 DEF DownIsRecent
<1>10. RxTypes' /\ \E r1, h1, m1 \in Int : RxGoesOn(s, r, h, r1, h1, m1)
  BY <1>5, <1>6, <1>7, <1>8, <1>9, HandleDataMoves
<1>11. LinkTypes' /\ Carried(down)' \subseteq Carried(down) /\ Carried(up)' \subseteq Carried(up)
  BY <1>5, <1>6, <1>7 DEF LinkTypes, Carried
<1> QED  BY <1>1, <1>4, <1>5, <1>10, <1>11, ReceiverKeeps

\* The receiver does nothing, or only changes flags.
LEMMA FlagsStep ==
  ASSUME IInv, UNCHANGED txVars, RxTypes', LinkTypes',
         UNCHANGED <<rxWindow, vrR, vrH, vrMs, vrX, reordering>>,
         Carried(down)' \subseteq Carried(down), Carried(up)' \subseteq Carried(up)
  PROVE  IInv'
<1>1. Types
  BY DEF IInv
<1>2. PICK a, s, r, h, m, i, k, e \in Int : \E U \in SUBSET Reports : \E D \in SUBSET U :
        Core(a, s, r, h, m, i, k, e, U, D)
  BY DEF IInv
<1>3. PICK U \in SUBSET Reports : \E D \in SUBSET U : Core(a, s, r, h, m, i, k, e, U, D)
  BY <1>2
<1>4. PICK D \in SUBSET U : Core(a, s, r, h, m, i, k, e, U, D)
  BY <1>3
<1>5. RxTypes /\ Frame(a, s, r, h, m) /\ RxHolds(r, h, m)
  BY <1>1, <1>4 DEF Types, Core
<1>6. RxGoesOn(s, r, h, r, h, m)
  BY <1>5, DiscardStays
<1> QED  BY <1>1, <1>4, <1>6, ReceiverKeeps

LEMMA LoseDataKeeps ==
  ASSUME IInv, LoseData
  PROVE  IInv'
<1>1. PICK n \in 1 .. Len(down) : down' = Without(down, n)
  BY DEF LoseData
<1>2. UNCHANGED txVars /\ UNCHANGED rxVars /\ up' = up
  BY DEF LoseData
<1>3. /\ down \in Seq([pdu : DataPdus, late : BOOLEAN]) /\ RxTypes /\ LinkTypes
  BY DEF IInv, Types, LinkTypes
<1>4. /\ down' \in Seq([pdu : DataPdus, late : BOOLEAN])
      /\ Carried(down') \subseteq Carried(down)
  BY <1>1, <1>3, WithoutCarries
<1>5. RxTypes' /\ UNCHANGED <<rxWindow, vrR, vrH, vrMs, vrX, reordering>>
  BY <1>2, <1>3 DEF RxTypes, rxVars
<1>6. LinkTypes' /\ Carried(down)' \subseteq Carried(down) /\ Carried(up)' \subseteq Carried(up)
  BY <1>2, <1>3, <1>4 DEF LinkTypes, Carried
<1> QED  BY <1>2, <1>5, <1>6, FlagsStep

LEMMA LoseStatusKeeps ==
  ASSUME IInv, LoseStatus
  PROVE  IInv'
<1>1. PICK n \in 1 .. Len(up) : up' = Without(up, n)
  BY DEF LoseStatus
<1>2. UNCHANGED txVars /\ UNCHANGED rxVars /\ down' = down
  BY DEF LoseStatus
<1>3. /\ up \in Seq([pdu : Statuses, late : BOOLEAN]) /\ RxTypes /\ LinkTypes
  BY DEF IInv, Types, LinkTypes
<1>4. /\ up' \in Seq([pdu : Statuses, late : BOOLEAN])
      /\ Carried(up') \subseteq Carried(up)
  BY <1>1, <1>3, WithoutCarries
<1>5. RxTypes' /\ UNCHANGED <<rxWindow, vrR, vrH, vrMs, vrX, reordering>>
  BY <1>2, <1>3 DEF RxTypes, rxVars
<1>6. LinkTypes' /\ Carried(down)' \subseteq Carried(down) /\ Carried(up)' \subseteq Carried(up)
  BY <1>2, <1>3, <1>4 DEF LinkTypes, Carried
<1> QED  BY <1>2, <1>5, <1>6, FlagsStep

LEMMA ProhibitKeeps ==
  ASSUME IInv, Receiver(ProhibitExpires)
  PROVE  IInv'
<1>1. UNCHANGED txVars /\ UNCHANGED linkVars /\ ProhibitExpires
  BY DEF Receiver
<1>2. RxTypes /\ LinkTypes
  BY DEF IInv, Types
<1>3. RxTypes' /\ UNCHANGED <<rxWindow, vrR, vrH, vrMs, vrX, reordering>>
  BY <1>1, <1>2 DEF RxTypes, ProhibitExpires
<1>4. LinkTypes' /\ Carried(down)' \subseteq Carried(down) /\ Carried(up)' \subseteq Carried(up)
  BY <1>1, <1>2 DEF LinkTypes, Carried, linkVars
<1> QED  BY <1>1, <1>3, <1>4, FlagsStep

LEMMA ReorderingKeeps ==
  ASSUME IInv, Receiver(ReorderingExpires)
  PROVE  IInv'
<1>1. Types
  BY DEF IInv
<1>2. PICK a, s, r, h, m, i, k, e \in Int : \E U \in SUBSET Reports : \E D \in SUBSET U :
        Core(a, s, r, h, m, i, k, e, U, D)
  BY DEF IInv
<1>3. PICK U \in SUBSET Reports : \E D \in SUBSET U : Core(a, s, r, h, m, i, k, e, U, D)
  BY <1>2
<1>4. PICK D \in SUBSET U : Core(a, s, r, h, m, i, k, e, U, D)
  BY <1>3
<1>5. UNCHANGED txVars /\ UNCHANGED linkVars /\ ReorderingExpires
  BY DEF Receiver
<1>6. RxTypes /\ LinkTypes /\ Frame(a, s, r, h, m) /\ RxHolds(r, h, m)
  BY <1>1, <1>4 DEF Types, Core
<1>7. RxTypes' /\ \E m1 \in Int : RxGoesOn(s, r, h, r, h, m1)
  BY <1>5, <1>6, ReorderingMoves
<1>8. LinkTypes' /\ Carried(down)' \subseteq Carried(down) /\ Carried(up)' \subseteq Carried(up)
  BY <1>5, <1>6 DEF LinkTypes, Carried, linkVars
<1> QED  BY <1>1, <1>4, <1>5, <1>7, <1>8, ReceiverKeeps

LEMMA ReportKeeps ==
  ASSUME IInv, Report
  PROVE  IInv'
<1>1. Types
  BY DEF IInv
<1>2. PICK a, s, r, h, m, i, k, e \in Int : \E U \in SUBSET Reports : \E D \in SUBSET U :
        Core(a, s, r, h, m, i, k, e, U, D)
  BY DEF IInv
<1>3. PICK U \in SUBSET Reports : \E D \in SUBSET U : Core(a, s, r, h, m, i, k, e, U, D)
  BY <1>2
<1>4. PICK D \in SUBSET U : Core(a, s, r, h, m, i, k, e, U, D)
  BY <1>3
<1>5. UNCHANGED txVars /\ down' = down /\ SendStatus
  BY DEF Report
<1>6. PICK room \in NackRooms : SendUp(StatusWith(room))
  BY <1>5 DEF SendStatus
<1>7. room \in Nat
  BY NackRoomsAssumption
<1>8. RxTypes /\ LinkTypes /\ Frame(a, s, r, h, m) /\ RxHolds(r, h, m) /\ ReportsTrue(a, s, r, h, U)
  BY <1>1, <1>4 DEF Types, Core
<1>9. /\ StatusWith(room) \in Statuses
      /\ \E u \in Reports : /\ u.have = Held(r, h) /\ AckFits(u)
                            /\ r <= u.k /\ u.k <= h /\ Says(StatusWith(room), u, a)
  BY <1>7, <1>8, StatusWithTrue
<1>10. PICK u \in Reports : /\ u.have = Held(r, h) /\ AckFits(u)
                            /\ r <= u.k /\ u.k <= h /\ Says(StatusWith(room), u, a)
  BY <1>9
<1> DEFINE U1 == U \cup {u}
           status == StatusWith(room)
<1>11. /\ up' \in Seq([pdu : Statuses, late : BOOLEAN])
       /\ Carried(up') \subseteq Carried(up) \cup {status}
  <2>1. up \in Seq([pdu : Statuses, late : BOOLEAN]) /\ up' \in Sent(up, status)
    BY <1>6, <1>8 DEF LinkTypes, SendUp
  <2> HIDE DEF status
  <2>2. status \in Statuses
    BY <1>9 DEF status
  <2> QED  BY <2>1, <2>2, SentCarries
<1>12. /\ UNCHANGED <<rxWindow, rxSegments, segKeys, vrR, vrH, vrX, vrMs, reordering>>
       /\ doStatus' = FALSE /\ pollReceived' = FALSE /\ prohibited' = Prohibit
  BY <1>5 DEF SendStatus
<1>13. RxTypes' /\ LinkTypes'
  BY <1>5, <1>8, <1>11, <1>12, ProhibitAssumption DEF RxTypes, LinkTypes
<1>14. Types'
  BY <1>1, <1>5, <1>13, TxTypesStay DEF Types
<1>15. RxGoesOn(s, r, h, r, h, m)
  BY <1>8, <1>12, DiscardStays
<1> HIDE DEF status
<1>16. \A v \in U : v.have \subseteq u.have /\ AckFits(v) /\ v.k <= h
  BY <1>8, <1>10 DEF ReportsTrue
<1>17. Chain(U1)
  BY <1>8, <1>16 DEF Chain, ReportsTrue
<1>18. s - Window <= u.k
  <2>1. s <= r + Window /\ u.k \in Int
    BY <1>8, FrameBounds DEF Reports
  <2> QED  BY <1>10, <2>1, Constants
<1>19. Held(r, h)' = Held(r, h)
  BY <1>12 DEF Held
<1>20. ReportsTrue(a, s, r, h, U1)'
  <2>1. \A v \in U1 : AckFits(v) /\ v.have \subseteq Held(r, h)' /\ v.k <= h
    BY <1>10, <1>16, <1>19
  <2>2. ASSUME NEW st \in Carried(up)'
        PROVE  \E v \in U1 : s - Window <= v.k /\ Says(st, v, a)
    <3>1. CASE st \in Carried(up)
      BY <3>1, <1>8 DEF ReportsTrue
    <3>2. CASE st = status
      BY <3>2, <1>10, <1>18 DEF status
    <3>3. Carried(up)' = Carried(up')
      BY DEF Carried
    <3> QED  BY <1>11, <3>1, <3>2, <3>3
  <2> QED  BY <1>17, <2>1, <2>2 DEF ReportsTrue
<1>21. /\ vtA' = vtA /\ vtS' = vtS /\ txWindow' = txWindow /\ ctl' = ctl
  BY <1>5 DEF txVars
<1>22. /\ \A j : InWindow(SnOf(j))' <=> InWindow(SnOf(j))
       /\ \A sn : InWindow(sn)' <=> InWindow(sn)
       /\ \A j : InHand(j, k, e)' <=> InHand(j, k, e)
  BY <1>21 DEF InWindow, InHand
<1>23. TxHolds(a, s, i, k, e, D)'
  BY <1>4, <1>22 DEF Core, TxHolds
<1>24. CtlHolds(a, s, i, k, e, D)'
  BY <1>4, <1>21, <1>22 DEF Core, CtlHolds, Stop
<1>25. Frame(a, s, r, h, m)' /\ RxHolds(r, h, m)'
  BY <1>8, <1>12, <1>21 DEF Frame, RxHolds
<1>26. DownIsRecent(s)'
  BY <1>4, <1>5 DEF Core, DownIsRecent, Carried
<1>27. Core(a, s, r, h, m, i, k, e, U1, D)'
  BY <1>20, <1>23, <1>24, <1>25, <1>26 DEF Core
<1>28. U1 \in SUBSET Reports /\ D \in SUBSET U1
  OBVIOUS
<1> HIDE DEF U1
<1> QED  BY <1>14, <1>27, <1>28 DEF IInv

-----------------------------------------------------------------------------
(* The sender: types                                                       *)

LEMMA CountRetxIs ==
  ASSUME TxTypes, NEW sn \in Sn, InWindow(sn), CountRetx(sn)
  PROVE  /\ txWindow' \in [Sn -> [lo : Nat, hi : Nat, retx : Nat]]
         /\ \A x \in Sn : txWindow'[x].lo = txWindow[x].lo /\ txWindow'[x].hi = txWindow[x].hi
         /\ \A x \in Sn : InWindow(x)' <=> InWindow(x)
         /\ maxRetxReached' \in BOOLEAN
<1> DEFINE one == [txWindow[sn] EXCEPT !.retx = @ + 1]
<1>1. /\ txWindow \in [Sn -> [lo : Nat, hi : Nat, retx : Nat]]
      /\ txWindow[sn] \in [lo : Nat, hi : Nat, retx : Nat]
      /\ 1 <= txWindow[sn].lo
  BY DEF TxTypes
<1>2. /\ one \in [lo : Nat, hi : Nat, retx : Nat] /\ one.lo = txWindow[sn].lo
      /\ one.hi = txWindow[sn].hi /\ one # NoPdu
  <2>1. one.lo # 0 /\ NoPdu.lo = 0
    BY <1>1 DEF NoPdu
  <2> QED  BY <1>1, <2>1
<1>3. txWindow' = [txWindow EXCEPT ![sn] = one] /\ maxRetxReached' \in BOOLEAN
  BY DEF CountRetx
<1> HIDE DEF one
<1>4. txWindow' \in [Sn -> [lo : Nat, hi : Nat, retx : Nat]]
  BY <1>1, <1>2, <1>3
<1>5. ASSUME NEW x \in Sn
      PROVE  /\ txWindow'[x].lo = txWindow[x].lo /\ txWindow'[x].hi = txWindow[x].hi
             /\ InWindow(x)' <=> InWindow(x)
  <2>1. CASE x = sn
    BY <2>1, <1>1, <1>2, <1>3 DEF InWindow
  <2>2. CASE x # sn
    <3>1. txWindow'[x] = txWindow[x]
      BY <2>2, <1>1, <1>3
    <3> QED  BY <3>1 DEF InWindow
  <2> QED  BY <2>1, <2>2
<1> QED  BY <1>3, <1>4, <1>5

\* The entries that read_pdu may serve are about PDUs of the window.
LEMMA WholePduFits ==
  ASSUME TxTypes, NEW sn \in Sn, InWindow(sn)
  PROVE  /\ WholePdu(sn) \in Entries /\ WholePdu(sn).sn = sn
         /\ WholePdu(sn).from < WholePdu(sn).to /\ WholePdu(sn).to = SizeOf(sn)
         /\ SizeOf(sn) \in Nat \ {0}
<1>1. /\ txWindow[sn].lo \in Nat /\ txWindow[sn].hi \in Nat /\ txWindow[sn].lo <= txWindow[sn].hi
  BY DEF TxTypes
<1>2. SizeOf(sn) \in Nat \ {0}
  BY <1>1 DEF SizeOf
<1> QED  BY <1>2 DEF WholePdu, Entries

LEMMA LiveIs ==
  ASSUME retxQueue \in Seq(Entries), Live # << >>
  PROVE  \E n \in 1 .. Len(retxQueue) :
           /\ Live = SubSeq(retxQueue, n, Len(retxQueue)) /\ InWindow(retxQueue[n].sn)
<1> DEFINE alive == {n \in 1 .. Len(retxQueue) : InWindow(retxQueue[n].sn)}
           c == CHOOSE n \in alive : \A j \in alive : n <= j
<1>1. alive # {} /\ Live = SubSeq(retxQueue, c, Len(retxQueue))
  BY DEF Live
<1>2. alive \in SUBSET Nat
  OBVIOUS
<1>3. \E n \in alive : \A j \in alive : n <= j
  <2> HIDE DEF alive
  <2> QED  BY <1>1, <1>2, LeastNat
<1>4. c \in alive
  BY <1>3
<1> HIDE DEF c
<1> QED  BY <1>1, <1>4

LEMMA SuffixIs ==
  ASSUME NEW E, NEW q \in Seq(E), NEW n \in 1 .. Len(q)
  PROVE  /\ SubSeq(q, n, Len(q)) \in Seq(E) /\ Len(SubSeq(q, n, Len(q))) = Len(q) - n + 1
         /\ Len(q) \in Nat /\ n \in Nat
         /\ \A x \in 1 .. Len(q) - n + 1 : SubSeq(q, n, Len(q))[x] = q[n + x - 1]
<1> DEFINE l == Len(q)
<1>1. l \in Nat /\ n \in Nat \ {0} /\ l \in 0 .. l /\ n <= l + 1
  OBVIOUS
<1>2. SubSeq(q, n, l) \in Seq(E) /\ Len(SubSeq(q, n, l)) = l - n + 1
      /\ \A x \in 1 .. l - n + 1 : SubSeq(q, n, l)[x] = q[n + x - 1]
  BY <1>1, SubSeqIs
<1> QED  BY <1>1, <1>2

\* What read_pdu serves: a queue of the same kind, whose head is in the window
LEMMA ToRetransmitIs ==
  ASSUME TxTypes, QueueFits, vtA \in Sn
  PROVE  /\ ToRetransmit \in Seq(Entries) /\ Len(ToRetransmit) < Window
         /\ \A n \in 1 .. Len(ToRetransmit) : InWindow(ToRetransmit[n].sn) =>
              /\ ToRetransmit[n].from < ToRetransmit[n].to
              /\ ToRetransmit[n].to = SizeOf(ToRetransmit[n].sn)
         /\ ToRetransmit # << >> =>
              ToRetransmit[1] \in Entries /\ InWindow(ToRetransmit[1].sn)
<1>1. CASE RetransmitVtA
  <2> DEFINE w == WholePdu(vtA)
  <2>1. InWindow(vtA)
    BY <1>1 DEF RetransmitVtA, FullWindowRetx, NextSnRetx
  <2>2. w \in Entries /\ w.sn = vtA /\ w.from < w.to /\ w.to = SizeOf(w.sn)
    BY <2>1, WholePduFits
  <2>3. ToRetransmit = <<w>>
    BY <1>1 DEF ToRetransmit
  <2> HIDE DEF w
  <2>4. /\ ToRetransmit \in Seq(Entries) /\ Len(ToRetransmit) = 1
        /\ ToRetransmit[1] = w /\ \A n \in 1 .. Len(ToRetransmit) : n = 1
    BY <2>2, <2>3
  <2> QED  BY <2>1, <2>2, <2>4, Constants
<1>2. CASE ~ RetransmitVtA /\ Live # << >>
  <2>0. retxQueue \in Seq(Entries) /\ Len(retxQueue) < Window
    BY DEF TxTypes
  <2>1. PICK n \in 1 .. Len(retxQueue) :
          /\ Live = SubSeq(retxQueue, n, Len(retxQueue)) /\ InWindow(retxQueue[n].sn)
    BY <1>2, <2>0, LiveIs
  <2> DEFINE q == SubSeq(retxQueue, n, Len(retxQueue))
             l == Len(retxQueue)
  <2>2. /\ q \in Seq(Entries) /\ Len(q) = l - n + 1 /\ l \in Nat /\ n \in Nat
        /\ \A x \in 1 .. l - n + 1 : q[x] = retxQueue[n + x - 1]
    BY <2>0, SuffixIs
  <2>3. ToRetransmit = q /\ n <= l /\ 1 <= n
    BY <1>2, <2>1 DEF ToRetransmit
  <2> HIDE DEF q
  <2>4. Len(q) < Window
    BY <2>0, <2>2, <2>3, Constants
  <2>5. ASSUME NEW x \in 1 .. Len(q), InWindow(q[x].sn)
        PROVE  q[x].from < q[x].to /\ q[x].to = SizeOf(q[x].sn)
    <3>1. n + x - 1 \in 1 .. l /\ q[x] = retxQueue[n + x - 1]
      BY <2>2, <2>3
    <3> QED  BY <2>5, <3>1 DEF QueueFits
  <2>6. q[1] \in Entries /\ InWindow(q[1].sn)
    <3>1. 1 \in 1 .. l - n + 1 /\ n + 1 - 1 = n
      BY <2>2, <2>3
    <3>2. q[1] = retxQueue[n]
      BY <2>2, <3>1
    <3> QED  BY <2>0, <2>1, <3>2
  <2> QED  BY <2>2, <2>3, <2>4, <2>5, <2>6
<1>3. CASE ~ RetransmitVtA /\ Live = << >>
  BY <1>3, Constants DEF ToRetransmit
<1> QED  BY <1>1, <1>2, <1>3

LEMMA Polling ==
  ASSUME TxTypes, NEW q, NEW n
  PROVE  /\ PollRequired(q, n) \in BOOLEAN
         /\ Polled(PollRequired(q, n)) =>
              withoutPoll' \in Nat /\ pollTimer' \in {"stopped", "running", "expired"}
<1>1. PollRequired(q, n) \in BOOLEAN
  BY DEF PollRequired
<1> DEFINE p == PollRequired(q, n)
<1> HIDE DEF p
<1>2. Polled(p) => withoutPoll' \in Nat /\ pollTimer' \in {"stopped", "running", "expired"}
  BY DEF Polled, TxTypes
<1> QED  BY <1>1, <1>2 DEF p

\* A queue into which nothing is put but what fits
LEMMA PushedFits ==
  ASSUME NEW q \in Seq(Entries), Len(q) < Window, NEW x \in Entries
  PROVE  /\ Pushed(q, x) \in Seq(Entries) /\ Len(Pushed(q, x)) < Window
         /\ \A n \in 1 .. Len(Pushed(q, x)) :
              Pushed(q, x)[n] = x \/ \E j \in 1 .. Len(q) : Pushed(q, x)[n] = q[j]
<1>1. CASE Len(q) + 1 < Window
  <2> DEFINE c == Append(q, x)
  <2>1. /\ c \in Seq(Entries) /\ Len(q) \in Nat /\ Len(c) = Len(q) + 1
        /\ c[Len(q) + 1] = x /\ \A n \in 1 .. Len(q) : c[n] = q[n]
    BY AppendIs
  <2>2. Pushed(q, x) = c
    BY <1>1 DEF Pushed
  <2> HIDE DEF c
  <2>3. \A n \in 1 .. Len(c) : n \in 1 .. Len(q) \/ n = Len(q) + 1
    BY <2>1
  <2> QED  BY <1>1, <2>1, <2>2, <2>3
<1>2. CASE ~ (Len(q) + 1 < Window)
  BY <1>2, Constants DEF Pushed
<1> QED  BY <1>1, <1>2

\* An entry fits as long as its PDU keeps its pieces.
LEMMA SizesStay ==
  ASSUME NEW q \in Seq(Entries),
         \A n \in 1 .. Len(q) : InWindow(q[n].sn) => q[n].from < q[n].to /\ q[n].to = SizeOf(q[n].sn),
         \A x \in Sn : InWindow(x)' =>
           InWindow(x) /\ txWindow'[x].lo = txWindow[x].lo /\ txWindow'[x].hi = txWindow[x].hi
  PROVE  \A n \in 1 .. Len(q) : InWindow(q[n].sn)' => q[n].from < q[n].to /\ q[n].to = SizeOf(q[n].sn)'
<1> SUFFICES ASSUME NEW n \in 1 .. Len(q), InWindow(q[n].sn)'
             PROVE  q[n].from < q[n].to /\ q[n].to = SizeOf(q[n].sn)'
  OBVIOUS
<1>1. q[n] \in Entries
  OBVIOUS
<1>2. q[n].sn \in Sn
  BY <1>1 DEF Entries
<1> QED  BY <1>2 DEF SizeOf

LEMMA CountReadRetxIs ==
  ASSUME TxTypes, vtA \in Sn, CountReadRetx
  PROVE  /\ txWindow' \in [Sn -> [lo : Nat, hi : Nat, retx : Nat]]
         /\ \A x \in Sn : txWindow'[x].lo = txWindow[x].lo /\ txWindow'[x].hi = txWindow[x].hi
         /\ \A x \in Sn : InWindow(x)' <=> InWindow(x)
         /\ maxRetxReached' \in BOOLEAN
<1>1. CASE RetransmitVtA
  <2>1. InWindow(vtA) /\ CountRetx(vtA)
    BY <1>1 DEF RetransmitVtA, FullWindowRetx, NextSnRetx, CountReadRetx
  <2> QED  BY <2>1, CountRetxIs
<1>2. CASE ~ RetransmitVtA
  <2>1. UNCHANGED <<txWindow, maxRetxReached>>
    BY <1>2 DEF CountReadRetx
  <2> QED  BY <2>1 DEF TxTypes, InWindow
<1> QED  BY <1>1, <1>2

\* The pieces of a PDU of the window, or of a part of it
LEMMA PduOf ==
  ASSUME TxTypes, NEW sn \in Sn, InWindow(sn), NEW from \in Nat, NEW to \in Nat,
         from < to, to <= SizeOf(sn), NEW rf \in BOOLEAN, NEW lsf \in BOOLEAN, NEW p \in BOOLEAN,
         NEW lo, lo = txWindow[sn].lo + from, NEW hi, hi = txWindow[sn].lo + to - 1
  PROVE  [sn |-> sn, rf |-> rf, so |-> from, lo |-> lo, hi |-> hi, lsf |-> lsf, p |-> p]
           \in DataPdus
<1> DEFINE l == txWindow[sn].lo
           u == txWindow[sn].hi
<1>1. /\ l \in Nat /\ u \in Nat /\ 1 <= l /\ l <= u /\ u <= sent
      /\ sent \in 0 .. written /\ written \in Ends \cup {0}
  BY DEF TxTypes
<1>2. Total \in Nat \ {0} /\ Piece = 1 .. Total /\ \A f \in Ends : f \in Nat /\ f <= Total
  BY EndsAre DEF Piece
<1>3. written \in Nat /\ written <= Total
  BY <1>1, <1>2
<1>4. to <= u - l + 1
  BY DEF SizeOf
<1> HIDE DEF l, u
<1>5. from \in 0 .. Total - 1 /\ l + from \in 1 .. Total /\ l + to - 1 \in 1 .. Total
      /\ l + from <= l + to - 1
  BY <1>1, <1>2, <1>3, <1>4
<1> QED  BY <1>2, <1>5 DEF DataPdus, Pdus, l

\* Retransmission of a PDU, or of a segment of one
LEMMA RetxSends ==
  ASSUME TxTypes, QueueFits, vtA \in Sn, NEW n \in Nat \ {0}, RetxWhole(n) \/ RetxSegment(n)
  PROVE  /\ TxTypes' /\ QueueFits' /\ UNCHANGED <<vtA, vtS, ctl>>
         /\ \A x \in Sn : InWindow(x)' <=> InWindow(x)
         /\ \E pdu \in DataPdus : SendDown(pdu) /\ InWindow(pdu.sn)
<1> DEFINE q == ToRetransmit
           e == q[1]
<1>0. /\ q \in Seq(Entries) /\ Len(q) < Window
      /\ \A x \in 1 .. Len(q) : InWindow(q[x].sn) =>
           q[x].from < q[x].to /\ q[x].to = SizeOf(q[x].sn)
      /\ q # << >> => e \in Entries /\ InWindow(e.sn)
  BY ToRetransmitIs
<1>1. /\ q # << >> /\ CountReadRetx
      /\ UNCHANGED <<written, sent, vtA, vtS, pollSn, ctl, confirmed, protocolFailure>>
  BY DEF RetxWhole, RetxSegment
<1>2. Head(q) = e
  OBVIOUS
<1> HIDE DEF q
<1>3. /\ e \in Entries /\ InWindow(e.sn) /\ e.from < e.to /\ e.to = SizeOf(e.sn)
      /\ Len(q) \in Nat /\ Len(q) >= 1
      /\ Tail(q) \in Seq(Entries) /\ Len(Tail(q)) = Len(q) - 1
      /\ \A x \in 1 .. Len(q) - 1 : Tail(q)[x] = q[x + 1]
  <2>1. Len(q) \in Nat /\ Len(q) >= 1 /\ Tail(q) \in Seq(Entries) /\ Len(Tail(q)) = Len(q) - 1
        /\ \A x \in 1 .. Len(q) - 1 : Tail(q)[x] = q[x + 1]
    BY <1>0, <1>1, TailIs
  <2>2. 1 \in 1 .. Len(q)
    BY <2>1
  <2> QED  BY <1>0, <1>1, <2>1, <2>2
<1>4. /\ txWindow' \in [Sn -> [lo : Nat, hi : Nat, retx : Nat]]
      /\ \A x \in Sn : txWindow'[x].lo = txWindow[x].lo /\ txWindow'[x].hi = txWindow[x].hi
      /\ \A x \in Sn : InWindow(x)' <=> InWindow(x)
      /\ maxRetxReached' \in BOOLEAN
  BY <1>1, CountReadRetxIs
<1>5. ASSUME NEW t \in Seq(Entries), retxQueue' = t, Len(t) < Window,
             \A x \in 1 .. Len(t) : InWindow(t[x].sn) =>
               t[x].from < t[x].to /\ t[x].to = SizeOf(t[x].sn),
             withoutPoll' \in Nat, pollTimer' \in {"stopped", "running", "expired"}
      PROVE  TxTypes' /\ QueueFits'
  <2>1. TxTypes'
    BY <1>1, <1>4, <1>5 DEF TxTypes
  <2>2. \A x \in 1 .. Len(t) : InWindow(t[x].sn)' =>
          t[x].from < t[x].to /\ t[x].to = SizeOf(t[x].sn)'
    BY <1>4, <1>5, SizesStay
  <2> QED  BY <1>5, <2>1, <2>2 DEF QueueFits
<1>6. ASSUME NEW x \in 1 .. Len(Tail(q)), InWindow(Tail(q)[x].sn)
      PROVE  /\ Tail(q)[x].from < Tail(q)[x].to
             /\ Tail(q)[x].to = SizeOf(Tail(q)[x].sn)
  <2>1. x \in 1 .. Len(q) - 1 /\ x + 1 \in 1 .. Len(q)
    BY <1>3
  <2>2. Tail(q)[x] = q[x + 1]
    BY <1>3, <2>1
  <2> QED  BY <1>0, <1>6, <2>1, <2>2
<1>7. /\ e.sn \in Sn /\ e.from \in Nat /\ e.to \in Nat /\ e.seg \in BOOLEAN
      /\ SizeOf(e.sn) \in Nat \ {0}
  <2>1. e.sn \in Sn /\ e.from \in Nat /\ e.to \in Nat /\ e.seg \in BOOLEAN
    BY <1>3 DEF Entries
  <2> QED  BY <2>1, <1>3, WholePduFits
<1>8. CASE RetxWhole(n)
  <2> DEFINE poll == PollRequired(q, sent)
             pdu == [sn |-> e.sn, rf |-> FALSE, so |-> 0, lo |-> txWindow[e.sn].lo,
                     hi |-> txWindow[e.sn].hi, lsf |-> TRUE, p |-> poll]
  <2>1. SendDown(pdu) /\ retxQueue' = Tail(q) /\ Polled(poll)
    BY <1>2, <1>8 DEF RetxWhole, q
  <2>2. /\ poll \in BOOLEAN /\ withoutPoll' \in Nat
        /\ pollTimer' \in {"stopped", "running", "expired"}
    BY <2>1, Polling
  <2> HIDE DEF poll
  <2>3. TxTypes' /\ QueueFits'
    <3>1. Len(Tail(q)) < Window
      BY <1>0, <1>3, Constants
    <3> QED  BY <1>3, <1>5, <1>6, <2>1, <2>2, <3>1
  <2>4. pdu \in DataPdus
    <3> DEFINE l == txWindow[e.sn].lo
               u == txWindow[e.sn].hi
               z == SizeOf(e.sn)
    <3>1. l = l + 0 /\ u = l + z - 1
      <4>1. txWindow[e.sn].lo \in Nat /\ txWindow[e.sn].hi \in Nat
        BY <1>7 DEF TxTypes
      <4> QED  BY <4>1 DEF SizeOf
    <3>2. z \in Nat /\ 0 < z /\ z <= SizeOf(e.sn) /\ l = txWindow[e.sn].lo + 0
          /\ u = txWindow[e.sn].lo + z - 1
      BY <1>7, <3>1
    <3> HIDE DEF l, u, z
    <3>3. [sn |-> e.sn, rf |-> FALSE, so |-> 0, lo |-> l, hi |-> u, lsf |-> TRUE, p |-> poll]
            \in DataPdus
      BY ZenonT(40), <1>3, <1>7, <2>2, <3>2, PduOf
    <3> QED  BY <3>3 DEF l, u
  <2>5. pdu.sn = e.sn
    OBVIOUS
  <2> HIDE DEF pdu
  <2> QED  BY <1>1, <1>3, <1>4, <2>1, <2>3, <2>4, <2>5
<1>9. CASE RetxSegment(n)
  <2> DEFINE to == IF e.from + n < e.to THEN e.from + n ELSE e.to
             f == [e EXCEPT !.seg = TRUE, !.from = to]
             rest == IF to \in {e.to, SizeOf(e.sn)} THEN Tail(q) ELSE <<f>> \o Tail(q)
             poll == PollRequired(rest, sent)
             lsf == to = SizeOf(e.sn)
             pdu == [sn |-> e.sn, rf |-> TRUE, so |-> e.from,
                     lo |-> txWindow[e.sn].lo + e.from, hi |-> txWindow[e.sn].lo + to - 1,
                     lsf |-> lsf, p |-> poll]
  <2>1. SendDown(pdu) /\ retxQueue' = rest /\ Polled(poll)
    BY <1>2, <1>9 DEF RetxSegment, q
  <2>2. /\ poll \in BOOLEAN /\ withoutPoll' \in Nat
        /\ pollTimer' \in {"stopped", "running", "expired"}
    BY <2>1, Polling
  <2> HIDE DEF poll
  <2>3. to \in Nat /\ e.from < to /\ to <= e.to
    BY <1>3, <1>7
  <2> HIDE DEF to
  <2>4. f \in Entries /\ f.sn = e.sn /\ f.from = to /\ f.to = e.to
    BY <1>3, <2>3 DEF Entries
  <2> HIDE DEF f
  <2>5. rest \in Seq(Entries) /\ Len(rest) < Window
        /\ \A x \in 1 .. Len(rest) : InWindow(rest[x].sn) =>
             rest[x].from < rest[x].to /\ rest[x].to = SizeOf(rest[x].sn)
    <3>1. CASE to \in {e.to, SizeOf(e.sn)}
      <4>1. Len(Tail(q)) < Window
        BY <1>0, <1>3, Constants
      <4> QED  BY <1>3, <1>6, <3>1, <4>1
    <3>2. CASE to # e.to /\ to # SizeOf(e.sn)
      <4> DEFINE one == <<f>>
                 t == Tail(q)
                 c == one \o t
      <4>1. one \in Seq(Entries) /\ Len(one) = 1 /\ one[1] = f /\ t \in Seq(Entries)
        BY <1>3, <2>4
      <4>2. rest = c
        BY <3>2
      <4>0. c = one \o t
        OBVIOUS
      <4>6. one \in Seq(Entries) /\ t \in Seq(Entries)
        BY <4>1
      <4> HIDE DEF one, t, c
      <4>3. /\ c \in Seq(Entries) /\ Len(c) = Len(one) + Len(t)
            /\ \A x \in 1 .. Len(one) : c[x] = one[x]
            /\ \A x \in 1 .. Len(t) : c[Len(one) + x] = t[x]
        BY <4>0, <4>6, JoinOf
      <4> HIDE DEF rest
      <4>4. Len(c) = Len(q) /\ c[1] = f /\ Len(t) = Len(q) - 1 /\ \A x \in 1 .. Len(t) : c[1 + x] = t[x]
        <5>1. 1 \in 1 .. Len(one) /\ Len(t) = Len(q) - 1
          BY <4>1, <1>3 DEF t
        <5> QED  BY <4>1, <4>3, <5>1, <1>3
      <4>5. ASSUME NEW x \in 1 .. Len(c), InWindow(c[x].sn)
            PROVE  c[x].from < c[x].to /\ c[x].to = SizeOf(c[x].sn)
        <5>1. CASE x = 1
          BY <5>1, <1>3, <2>3, <2>4, <3>2, <4>4, <1>7
        <5>2. CASE x # 1
          <6> DEFINE y == x - 1
          <6>1. y \in 1 .. Len(t) /\ x = 1 + y
            BY <5>2, <1>3, <4>4
          <6> HIDE DEF y
          <6>2. c[x] = t[y]
            BY <4>4, <6>1
          <6> QED  BY <4>5, <1>6, <6>1, <6>2 DEF t
        <5> QED  BY <5>1, <5>2
      <4> QED  BY <1>0, <4>2, <4>3, <4>4, <4>5
    <3> QED  BY <3>1, <3>2
  <2> HIDE DEF rest
  <2>6. TxTypes' /\ QueueFits'
    BY <1>5, <2>1, <2>2, <2>5
  <2>7. lsf \in BOOLEAN
    OBVIOUS
  <2> HIDE DEF lsf
  <2>8. pdu \in DataPdus
    <3> DEFINE l == txWindow[e.sn].lo + e.from
               u == txWindow[e.sn].lo + to - 1
    <3>1. l = txWindow[e.sn].lo + e.from /\ u = txWindow[e.sn].lo + to - 1 /\ to <= SizeOf(e.sn)
      BY <1>3, <2>3
    <3> HIDE DEF l, u
    <3>2. [sn |-> e.sn, rf |-> TRUE, so |-> e.from, lo |-> l, hi |-> u, lsf |-> lsf, p |-> poll]
            \in DataPdus
      BY ZenonT(60), <1>3, <1>7, <2>2, <2>3, <2>7, <3>1, PduOf
    <3> QED  BY <3>2 DEF l, u
  <2>9. pdu.sn = e.sn
    OBVIOUS
  <2> HIDE DEF pdu
  <2> QED  BY <1>1, <1>3, <1>4, <2>1, <2>6, <2>8, <2>9
<1> QED  BY <1>8, <1>9

-----------------------------------------------------------------------------
(* The sender: steps that leave the window as it is                        *)

LEMMA SenderStays ==
  ASSUME NEW a \in Int, NEW s \in Int, NEW r \in Int, NEW h \in Int, NEW m \in Int,
         NEW i \in Int, NEW k \in Int, NEW e \in Int,
         NEW U \in SUBSET Reports, NEW D \in SUBSET U,
         Core(a, s, r, h, m, i, k, e, U, D), UNCHANGED rxVars, UNCHANGED <<vtA, vtS, ctl>>,
         \A x \in Sn : InWindow(x)' <=> InWindow(x),
         \A p \in Carried(down)' : p \in Carried(down) \/ (p.sn \in Sn /\ InWindow(p.sn)),
         Carried(up)' \subseteq Carried(up)
  PROVE  Core(a, s, r, h, m, i, k, e, U, D)'
<1>1. /\ UNCHANGED <<rxWindow, vrR, vrH, vrMs, vrX, reordering>> /\ Held(r, h)' = Held(r, h)
  BY DEF rxVars, Held
<1>2. Frame(a, s, r, h, m)' /\ RxHolds(r, h, m)'
  BY <1>1 DEF Core, Frame, RxHolds
<1>3. \A j \in Int : SnOf(j) \in Sn /\ (InWindow(SnOf(j))' <=> InWindow(SnOf(j)))
  BY SnOfIs
<1>4. \A j : InHand(j, k, e)' <=> InHand(j, k, e)
  BY DEF InHand
<1>5. \A j \in a .. s : j \in Int
  OBVIOUS
<1>6. \A u \in D : \A j \in Acks(u) : j \in Int
  BY DEF Reports, Acks
<1>7. TxHolds(a, s, i, k, e, D)'
  <2>1. TxHolds(a, s, i, k, e, D)
    BY DEF Core
  <2>2. \A sn \in Sn : InWindow(sn)' => \E j \in a .. s - 1 : sn = SnOf(j)
    BY <2>1 DEF TxHolds
  <2>3. \A j \in a .. s - 1 : InWindow(SnOf(j))' \/ AckedBy(D, j)
    BY <2>1, <1>3 DEF TxHolds
  <2>4. \A u \in D : \A j \in Acks(u) : a <= j => ~ InWindow(SnOf(j))' \/ (i <= j /\ InHand(j, k, e)')
    BY <2>1, <1>3, <1>4, <1>6 DEF TxHolds
  <2> QED  BY <2>1, <2>2, <2>3, <2>4 DEF TxHolds
<1>8. CtlHolds(a, s, i, k, e, D)'
  <2>1. CtlHolds(a, s, i, k, e, D)
    BY DEF Core
  <2>2. \A g \in a .. s : Stop(g, a, s, k, e) => Stop(g, a, s, k, e)'
    BY <1>3, <1>4, <1>5 DEF Stop
  <2>3. InWindow(SnOf(a))' <=> InWindow(SnOf(a))
    BY <1>3
  <2> QED  BY <1>4, <2>1, <2>2, <2>3 DEF CtlHolds
<1>9. ReportsTrue(a, s, r, h, U)'
  BY <1>1 DEF Core, ReportsTrue
<1>10. DownIsRecent(s)'
  <2> SUFFICES ASSUME NEW p \in Carried(down)' PROVE \E d \in s - Window .. s - 1 : p.sn = SnOf(d)
    BY DEF DownIsRecent
  <2>1. CASE p \in Carried(down)
    BY <2>1 DEF Core, DownIsRecent
  <2>2. CASE p.sn \in Sn /\ InWindow(p.sn)
    <3>1. PICK j \in a .. s - 1 : p.sn = SnOf(j)
      BY <2>2 DEF Core, TxHolds
    <3>2. s <= a + Window
      BY DEF Core, Frame
    <3>3. j \in s - Window .. s - 1
      BY <3>2, Constants
    <3> QED  BY <3>1, <3>3
  <2> QED  BY <2>1, <2>2
<1> QED  BY <1>2, <1>7, <1>8, <1>9, <1>10 DEF Core

LEMMA SenderKeeps ==
  ASSUME IInv, UNCHANGED rxVars, UNCHANGED <<vtA, vtS, ctl>>,
         TxTypes', QueueFits', LinkTypes', \A x \in Sn : InWindow(x)' <=> InWindow(x),
         \A p \in Carried(down)' : p \in Carried(down) \/ (p.sn \in Sn /\ InWindow(p.sn)),
         Carried(up)' \subseteq Carried(up)
  PROVE  IInv'
<1>2. PICK a, s, r, h, m, i, k, e \in Int : \E U \in SUBSET Reports : \E D \in SUBSET U :
        Core(a, s, r, h, m, i, k, e, U, D)
  BY DEF IInv
<1>3. PICK U \in SUBSET Reports : \E D \in SUBSET U : Core(a, s, r, h, m, i, k, e, U, D)
  BY <1>2
<1>4. PICK D \in SUBSET U : Core(a, s, r, h, m, i, k, e, U, D)
  BY <1>3
<1>5. Core(a, s, r, h, m, i, k, e, U, D)'
  BY <1>4, SenderStays
<1>6. RxTypes'
  BY DEF IInv, Types, RxTypes, rxVars
<1> QED  BY <1>5, <1>6 DEF IInv, Types

LEMMA VtAIs ==
  ASSUME IInv
  PROVE  vtA \in Sn /\ vtS \in Sn
BY SnOfIs DEF IInv, Core, Frame

\* What a sender's step leaves of the link
LEMMA LinkStays ==
  ASSUME LinkTypes, UNCHANGED linkVars
  PROVE  /\ LinkTypes' /\ Carried(up)' \subseteq Carried(up)
         /\ \A p \in Carried(down)' : p \in Carried(down)
BY DEF LinkTypes, linkVars, Carried

LEMMA RetxKeeps ==
  ASSUME IInv, UNCHANGED <<rxVars, up>>, NEW n \in Grants, RetxWhole(n) \/ RetxSegment(n)
  PROVE  IInv'
<1>1. TxTypes /\ QueueFits /\ LinkTypes /\ vtA \in Sn
  BY VtAIs DEF IInv, Types
<1>2. n \in Nat \ {0}
  BY GrantsAssumption
<1>3. /\ TxTypes' /\ QueueFits' /\ UNCHANGED <<vtA, vtS, ctl>>
      /\ \A x \in Sn : InWindow(x)' <=> InWindow(x)
      /\ \E pdu \in DataPdus : SendDown(pdu) /\ InWindow(pdu.sn)
  BY <1>1, <1>2, RetxSends
<1>4. PICK pdu \in DataPdus : SendDown(pdu) /\ InWindow(pdu.sn)
  BY <1>3
<1>5. pdu.sn \in Sn
  BY DEF DataPdus, Pdus
<1>6. /\ down' \in Seq([pdu : DataPdus, late : BOOLEAN])
      /\ Carried(down') \subseteq Carried(down) \cup {pdu}
  <2>1. down \in Seq([pdu : DataPdus, late : BOOLEAN]) /\ down' \in Sent(down, pdu)
    BY <1>1, <1>4 DEF LinkTypes, SendDown
  <2> QED  BY <2>1, SentCarries
<1>7. LinkTypes' /\ Carried(up)' \subseteq Carried(up)
  BY <1>1, <1>6 DEF LinkTypes, Carried
<1>8. \A p \in Carried(down)' : p \in Carried(down) \/ (p.sn \in Sn /\ InWindow(p.sn))
  <2>1. Carried(down)' = Carried(down')
    BY DEF Carried
  <2> QED  BY <1>4, <1>5, <1>6, <2>1
<1> QED  BY <1>3, <1>7, <1>8, SenderKeeps

LEMMA ReadNothingKeeps ==
  ASSUME IInv, Sender(ReadNothing)
  PROVE  IInv'
<1>1. UNCHANGED rxVars /\ UNCHANGED linkVars /\ ReadNothing
  BY DEF Sender
<1>2. /\ retxQueue' = << >>
      /\ UNCHANGED <<written, sent, vtA, vtS, pollSn, withoutPoll, txWindow,
                     pollTimer, ctl, confirmed, maxRetxReached, protocolFailure>>
  BY <1>1 DEF ReadNothing
<1>3. TxTypes /\ QueueFits /\ LinkTypes
  BY DEF IInv, Types
<1>4. \A x : InWindow(x)' <=> InWindow(x)
  BY <1>2 DEF InWindow
<1>5. << >> \in Seq(Entries) /\ Len(<< >>) = 0 /\ 0 < Window /\ \A x \in 1 .. 0 : FALSE
  BY Constants
<1>6. TxTypes' /\ QueueFits'
  BY <1>2, <1>3, <1>4, <1>5 DEF TxTypes, QueueFits
<1>7. /\ LinkTypes' /\ Carried(up)' \subseteq Carried(up)
      /\ \A p \in Carried(down)' : p \in Carried(down)
  BY <1>1, <1>3, LinkStays
<1>8. UNCHANGED <<vtA, vtS, ctl>>
  BY <1>2
<1> QED  BY <1>1, <1>4, <1>6, <1>7, <1>8, SenderKeeps

LEMMA WriteSduKeeps ==
  ASSUME IInv, Sender(WriteSdu)
  PROVE  IInv'
<1>1. UNCHANGED rxVars /\ UNCHANGED linkVars /\ WriteSdu
  BY DEF Sender
<1>2. /\ written < Total /\ written' = EndOf[written + 1]
      /\ UNCHANGED <<sent, vtA, vtS, pollSn, withoutPoll, txWindow, retxQueue,
                     pollTimer, ctl, confirmed, maxRetxReached, protocolFailure>>
  BY <1>1 DEF WriteSdu
<1>3. TxTypes /\ QueueFits /\ LinkTypes
  BY DEF IInv, Types
<1>4. \A x : (InWindow(x)' <=> InWindow(x)) /\ SizeOf(x)' = SizeOf(x)
  BY <1>2 DEF InWindow, SizeOf
<1>5. written' \in Ends \cup {0} /\ sent \in 0 .. written'
  <2>1. written \in Nat /\ sent \in 0 .. written
    <3>1. \A f \in Ends : f \in Nat
      BY EndsAssumption
    <3> QED  BY <1>3, <3>1 DEF TxTypes
  <2>2. written + 1 \in Piece
    BY <1>2, <2>1, EndsAre DEF Piece
  <2>3. EndOf[written + 1] \in Ends /\ written + 1 <= EndOf[written + 1]
    BY <2>2, EndsAre
  <2>4. EndOf[written + 1] \in Nat
    BY <2>3, EndsAssumption
  <2> QED  BY <1>2, <2>1, <2>3, <2>4
<1>6. TxTypes' /\ QueueFits'
  BY <1>2, <1>3, <1>4, <1>5 DEF TxTypes, QueueFits
<1>7. /\ LinkTypes' /\ Carried(up)' \subseteq Carried(up)
      /\ \A p \in Carried(down)' : p \in Carried(down)
  BY <1>1, <1>3, LinkStays
<1>8. UNCHANGED <<vtA, vtS, ctl>>
  BY <1>2
<1> QED  BY <1>1, <1>4, <1>6, <1>7, <1>8, SenderKeeps

\* A PDU of the window is queued once more and counted.
LEMMA PushTypes ==
  ASSUME TxTypes, QueueFits, NEW sn \in Sn, InWindow(sn), CountRetx(sn),
         retxQueue' = Pushed(retxQueue, WholePdu(sn)),
         pollTimer' \in {"stopped", "running", "expired"}, ctl' \in Ctls,
         UNCHANGED <<written, sent, pollSn, withoutPoll, confirmed, protocolFailure>>
  PROVE  /\ TxTypes' /\ QueueFits' /\ \A x \in Sn : InWindow(x)' <=> InWindow(x)
<1>1. /\ txWindow' \in [Sn -> [lo : Nat, hi : Nat, retx : Nat]]
      /\ \A x \in Sn : txWindow'[x].lo = txWindow[x].lo /\ txWindow'[x].hi = txWindow[x].hi
      /\ \A x \in Sn : InWindow(x)' <=> InWindow(x)
      /\ maxRetxReached' \in BOOLEAN
  BY CountRetxIs
<1>2. PICK w \in Entries : w = WholePdu(sn) /\ w.from < w.to /\ w.to = SizeOf(w.sn)
  BY WholePduFits
<1>3. retxQueue \in Seq(Entries) /\ Len(retxQueue) < Window
  BY DEF TxTypes
<1>4. /\ Pushed(retxQueue, w) \in Seq(Entries) /\ Len(Pushed(retxQueue, w)) < Window
      /\ \A n \in 1 .. Len(Pushed(retxQueue, w)) :
           Pushed(retxQueue, w)[n] = w \/ \E j \in 1 .. Len(retxQueue) : Pushed(retxQueue, w)[n] = retxQueue[j]
  BY <1>3, PushedFits
<1>5. PICK q \in Seq(Entries) :
        /\ retxQueue' = q /\ Len(q) < Window
        /\ \A n \in 1 .. Len(q) : q[n] = w \/ \E j \in 1 .. Len(retxQueue) : q[n] = retxQueue[j]
  BY <1>2, <1>4
<1>6. \A n \in 1 .. Len(q) : InWindow(q[n].sn) => q[n].from < q[n].to /\ q[n].to = SizeOf(q[n].sn)
  BY <1>2, <1>5 DEF QueueFits
<1>7. \A n \in 1 .. Len(q) : InWindow(q[n].sn)' => q[n].from < q[n].to /\ q[n].to = SizeOf(q[n].sn)'
  BY <1>1, <1>6, SizesStay
<1>8. TxTypes'
  BY <1>1, <1>5 DEF TxTypes
<1> QED  BY <1>1, <1>5, <1>7, <1>8 DEF QueueFits

LEMMA PollTimerKeeps ==
  ASSUME IInv, Sender(PollTimerExpires)
  PROVE  IInv'
<1>1. UNCHANGED rxVars /\ UNCHANGED linkVars /\ PollTimerExpires
  BY DEF Sender
<1>2. /\ pollTimer' = "expired"
      /\ UNCHANGED <<written, sent, vtA, vtS, pollSn, withoutPoll, ctl, confirmed, protocolFailure>>
  BY <1>1 DEF PollTimerExpires
<1>3. TxTypes /\ QueueFits /\ LinkTypes /\ vtA \in Sn
  BY VtAIs DEF IInv, Types
<1>4. ctl' \in Ctls /\ pollTimer' \in {"stopped", "running", "expired"}
  BY <1>2, <1>3 DEF TxTypes
<1>5. /\ TxTypes' /\ QueueFits' /\ \A x \in Sn : InWindow(x)' <=> InWindow(x)
  <2>1. CASE InWindow(vtA) /\ CountRetx(vtA) /\ retxQueue' = Pushed(retxQueue, WholePdu(vtA))
    <3>1. UNCHANGED <<written, sent, pollSn, withoutPoll, confirmed, protocolFailure>>
      BY <1>2
    <3> QED  BY <1>3, <1>4, <2>1, <3>1, PushTypes
  <2>2. CASE UNCHANGED <<txWindow, retxQueue, maxRetxReached>>
    BY <1>2, <1>3, <1>4, <2>2 DEF TxTypes, QueueFits, InWindow, SizeOf
  <2> QED  BY <1>1, <2>1, <2>2 DEF PollTimerExpires
<1>6. /\ LinkTypes' /\ Carried(up)' \subseteq Carried(up)
      /\ \A p \in Carried(down)' : p \in Carried(down)
  BY <1>1, <1>3, LinkStays
<1>7. UNCHANGED <<vtA, vtS, ctl>>
  BY <1>2
<1> QED  BY <1>1, <1>5, <1>6, <1>7, SenderKeeps

-----------------------------------------------------------------------------
(* The sender: a new PDU                                                   *)

LEMMA NewPduTypes ==
  ASSUME TxTypes, NEW t \in Sn, vtS = t, NEW n \in Nat \ {0}, NewPdu(n)
  PROVE  /\ TxTypes' /\ QueueFits'
         /\ UNCHANGED <<vtA, ctl>> /\ vtS' = (vtS + 1) % Mod
         /\ InWindow(t)' /\ \A x \in Sn : x # t => (InWindow(x)' <=> InWindow(x))
         /\ \E pdu \in DataPdus : SendDown(pdu) /\ pdu.sn = t
<1> DEFINE hi == IF sent + n < written THEN sent + n ELSE written
           poll == PollRequired(<< >>, hi)
           new == [lo |-> sent + 1, hi |-> hi, retx |-> 0]
           pdu == [sn |-> vtS, rf |-> FALSE, so |-> 0, lo |-> sent + 1, hi |-> hi,
                   lsf |-> TRUE, p |-> poll]
<1>1. /\ sent < written /\ SendDown(pdu) /\ sent' = hi
      /\ txWindow' = [txWindow EXCEPT ![vtS] = new]
      /\ vtS' = (vtS + 1) % Mod
      /\ pollSn' = (IF poll THEN vtS ELSE pollSn)
      /\ retxQueue' = << >> /\ Polled(poll)
      /\ UNCHANGED <<written, vtA, ctl, confirmed, maxRetxReached, protocolFailure>>
  BY DEF NewPdu
<1>2. /\ poll \in BOOLEAN /\ withoutPoll' \in Nat
      /\ pollTimer' \in {"stopped", "running", "expired"}
  BY <1>1, Polling
<1> HIDE DEF poll
<1>3. /\ written \in Nat /\ written <= Total /\ sent \in Nat /\ Total \in Nat
  BY EndsAre DEF TxTypes
<1>4. /\ hi \in Nat /\ sent + 1 <= hi /\ hi <= written
  BY <1>1, <1>3
<1> HIDE DEF hi
<1>5. new \in [lo : Nat, hi : Nat, retx : Nat] /\ new # NoPdu
      /\ 1 <= new.lo /\ new.lo <= new.hi /\ new.hi = hi
  BY <1>3, <1>4 DEF NoPdu
<1>6. pdu \in DataPdus /\ pdu.sn = t
  <2>1. 0 \in 0 .. Total - 1 /\ sent + 1 \in Piece /\ hi \in Piece /\ sent + 1 <= hi
    BY <1>3, <1>4 DEF Piece
  <2> QED  BY <1>2, <2>1 DEF DataPdus, Pdus
<1> HIDE DEF new, pdu
<1>7. txWindow \in [Sn -> [lo : Nat, hi : Nat, retx : Nat]]
  BY DEF TxTypes
<1>8. /\ txWindow' \in [Sn -> [lo : Nat, hi : Nat, retx : Nat]]
      /\ txWindow'[t] = new /\ \A x \in Sn : x # t => txWindow'[x] = txWindow[x]
  BY <1>1, <1>5, <1>7
<1>9. /\ InWindow(t)' /\ \A x \in Sn : x # t => (InWindow(x)' <=> InWindow(x))
  <2>1. ASSUME NEW x \in Sn, x # t
        PROVE  InWindow(x)' <=> InWindow(x)
    <3>1. txWindow'[x] = txWindow[x]
      BY <1>8, <2>1
    <3> QED  BY <3>1 DEF InWindow
  <2>2. InWindow(t)'
    BY <1>5, <1>8 DEF InWindow
  <2> QED  BY <2>1, <2>2
<1>10. \A x \in Sn : InWindow(x)' =>
         1 <= txWindow'[x].lo /\ txWindow'[x].lo <= txWindow'[x].hi /\ txWindow'[x].hi <= sent'
  <2> SUFFICES ASSUME NEW x \in Sn, InWindow(x)'
      PROVE  1 <= txWindow'[x].lo /\ txWindow'[x].lo <= txWindow'[x].hi /\ txWindow'[x].hi <= sent'
    OBVIOUS
  <2>1. CASE x = t
    BY <2>1, <1>1, <1>4, <1>5, <1>8
  <2>2. CASE x # t
    <3>1. txWindow'[x] = txWindow[x] /\ InWindow(x)
      BY <2>2, <1>8, <1>9
    <3>2. txWindow[x].hi \in Nat /\ txWindow[x].hi <= sent /\ 1 <= txWindow[x].lo /\ txWindow[x].lo <= txWindow[x].hi
      BY <3>1, <1>7 DEF TxTypes
    <3> QED  BY <3>1, <3>2, <1>1, <1>3, <1>4
  <2> QED  BY <2>1, <2>2
<1>11. << >> \in Seq(Entries) /\ Len(<< >>) = 0 /\ 0 < Window /\ \A x \in 1 .. 0 : FALSE
  BY Constants
<1>12. sent' \in 0 .. written'
  BY <1>1, <1>3, <1>4
<1>13. TxTypes' /\ QueueFits'
  BY <1>1, <1>2, <1>8, <1>10, <1>11, <1>12 DEF TxTypes, QueueFits
<1> QED  BY <1>1, <1>6, <1>9, <1>13

\* A new PDU moves vt_s. What is on its way is recent enough that no sequence
\* number comes to mean another PDU.
LEMMA NewPduKeeps ==
  ASSUME IInv, UNCHANGED <<rxVars, up>>, NEW n \in Grants, NewPdu(n), Recent
  PROVE  IInv'
<1>1. Types
  BY DEF IInv
<1>2. PICK a, s, r, h, m, i, k, e \in Int : \E U \in SUBSET Reports : \E D \in SUBSET U :
        Core(a, s, r, h, m, i, k, e, U, D)
  BY DEF IInv
<1>3. PICK U \in SUBSET Reports : \E D \in SUBSET U : Core(a, s, r, h, m, i, k, e, U, D)
  BY <1>2
<1>4. PICK D \in SUBSET U : Core(a, s, r, h, m, i, k, e, U, D)
  BY <1>3
<1>5. n \in Nat \ {0}
  BY GrantsAssumption
<1> DEFINE s1 == s + 1
<1>6. /\ Frame(a, s, r, h, m) /\ RxHolds(r, h, m) /\ DownIsRecent(s)
      /\ ReportsTrue(a, s, r, h, U) /\ TxHolds(a, s, i, k, e, D) /\ CtlHolds(a, s, i, k, e, D)
      /\ TxTypes /\ LinkTypes /\ RxTypes
  BY <1>1, <1>4 DEF Core, Types
<1>7. /\ a <= s /\ s <= a + Window /\ h <= s /\ FirstSn <= a /\ FirstSn \in Int
      /\ Window \in Int /\ Mod = 2 * Window /\ Window + 2 <= Mod
  BY SMTT(40), <1>6, FrameBounds, Constants
<1>8. vtA = SnOf(a) /\ vtS = SnOf(s) /\ SnOf(s) \in Sn /\ \A j \in Int : SnOf(j) \in Sn
  BY <1>6, SnOfIs DEF Frame
<1>9. /\ TxTypes' /\ QueueFits'
      /\ UNCHANGED <<vtA, ctl>> /\ vtS' = (vtS + 1) % Mod
      /\ InWindow(SnOf(s))' /\ \A x \in Sn : x # SnOf(s) => (InWindow(x)' <=> InWindow(x))
      /\ \E pdu \in DataPdus : SendDown(pdu) /\ pdu.sn = SnOf(s)
  BY <1>5, <1>6, <1>8, NewPduTypes
<1>10. vtS' = SnOf(s1)
  BY <1>8, <1>9, SnPlus
<1>11. PICK pdu \in DataPdus : SendDown(pdu) /\ pdu.sn = SnOf(s)
  BY <1>9
<1>12. /\ down' \in Seq([pdu : DataPdus, late : BOOLEAN])
       /\ Carried(down') \subseteq Carried(down) \cup {pdu}
  <2>1. down \in Seq([pdu : DataPdus, late : BOOLEAN]) /\ down' \in Sent(down, pdu)
    BY <1>6, <1>11 DEF LinkTypes, SendDown
  <2> QED  BY <2>1, SentCarries
<1>13. a < s1 /\ s < s1 /\ s1 \in Int /\ s1 <= a + Window
  <2>1. Offset(vtS) = s - a
    <3>1. s - a < Mod
      BY <1>7
    <3> QED  BY <1>7, <1>8, <3>1, SnAhead DEF Offset
  <2>2. ~ (Offset(vtS) >= Window)
    BY DEF NewPdu, WindowFull
  <2> QED  BY <2>1, <2>2, <1>7
<1>14. UNCHANGED <<rxWindow, vrR, vrH, vrMs, vrX, reordering>> /\ Held(r, h)' = Held(r, h)
  BY DEF rxVars, Held
<1>15. Frame(a, s1, r, h, m)'
  BY <1>6, <1>7, <1>9, <1>10, <1>13, <1>14 DEF Frame
<1>16. RxHolds(r, h, m)'
  BY <1>6, <1>14 DEF RxHolds
<1>17. ASSUME NEW d \in Int, d <= s, s - Window <= d, (vtS' - SnOf(d)) % Mod <= Window
       PROVE  s1 - Window <= d
  <2>1. d <= s1 /\ s1 - d < Mod /\ s1 - d \in Int
    BY <1>7, <1>13, <1>17
  <2>2. (vtS' - SnOf(d)) % Mod = s1 - d
    BY <1>10, <1>13, <2>1, SnAhead
  <2> QED  BY <1>7, <1>17, <2>1, <2>2
<1>18. DownIsRecent(s1)'
  <2> SUFFICES ASSUME NEW p \in Carried(down)' PROVE \E d \in s1 - Window .. s1 - 1 : p.sn = SnOf(d)
    BY DEF DownIsRecent
  <2>1. p \in Carried(down) \/ p = pdu
    BY <1>12 DEF Carried
  <2>2. CASE p = pdu
    <3>1. s \in s1 - Window .. s1 - 1
      BY <1>7, Constants
    <3> QED  BY <2>2, <3>1, <1>11
  <2>3. CASE p \in Carried(down)
    <3>1. PICK d \in s - Window .. s - 1 : p.sn = SnOf(d)
      BY <2>3, <1>6 DEF DownIsRecent
    <3>2. PICK x \in 1 .. Len(down) : p = down[x].pdu
      BY <2>3 DEF Carried
    <3>3. (vtS' - SnOf(d)) % Mod <= Window
      BY <3>1, <3>2 DEF Recent
    <3>4. d \in Int /\ d <= s /\ s - Window <= d /\ d <= s - 1
      BY <1>7
    <3>5. d \in s1 - Window .. s1 - 1
      BY <1>7, <1>17, <3>3, <3>4
    <3> QED  BY <3>1, <3>5
  <2> QED  BY <2>1, <2>2, <2>3
<1>19. ReportsTrue(a, s1, r, h, U)'
  <2>1. /\ \A u \in U : AckFits(u) /\ u.have \subseteq Held(r, h)' /\ u.k <= h
        /\ Chain(U)
    BY <1>6, <1>14 DEF ReportsTrue
  <2>2. ASSUME NEW status \in Carried(up)'
        PROVE  \E u \in U : s1 - Window <= u.k /\ Says(status, u, a)
    <3>1. status \in Carried(up)
      BY DEF Carried
    <3>2. PICK u \in U : s - Window <= u.k /\ Says(status, u, a)
      BY <1>6, <3>1 DEF ReportsTrue
    <3>3. PICK x \in 1 .. Len(up) : status = up[x].pdu
      BY <3>1 DEF Carried
    <3>4. (vtS' - SnOf(u.k)) % Mod <= Window
      BY <3>2, <3>3 DEF Recent, Says
    <3>5. u.k \in Int /\ u.k <= s
      <4>1. u.k \in Int
        BY DEF Reports
      <4>2. u.k <= h
        BY <1>6 DEF ReportsTrue
      <4> QED  BY <4>1, <4>2, <1>7
    <3> QED  BY <1>17, <3>2, <3>4, <3>5
  <2> QED  BY <2>1, <2>2 DEF ReportsTrue
<1>20. \A j : InHand(j, k, e)' <=> InHand(j, k, e)
  BY <1>9 DEF InHand
<1>21. \A x \in Sn : InWindow(x) => InWindow(x)'
  BY <1>9
<1> HIDE DEF s1
<1>22. TxHolds(a, s1, i, k, e, D)'
  <2>1. ASSUME NEW x \in Sn, InWindow(x)'
        PROVE  \E j \in a .. s1 - 1 : x = SnOf(j)
    <3>1. CASE x = SnOf(s)
      <4>1. s \in a .. s1 - 1
        BY <1>7, <1>13
      <4> QED  BY <3>1, <4>1
    <3>2. CASE x # SnOf(s)
      <4>1. PICK j \in a .. s - 1 : x = SnOf(j)
        BY <2>1, <3>2, <1>6, <1>9 DEF TxHolds
      <4>2. j \in a .. s1 - 1
        BY <1>13
      <4> QED  BY <4>1, <4>2
    <3> QED  BY <3>1, <3>2
  <2>2. \A j \in FirstSn .. a - 1 : AckedBy(D, j)
    BY <1>6 DEF TxHolds
  <2>3. ASSUME NEW j \in a .. s1 - 1
        PROVE  InWindow(SnOf(j))' \/ AckedBy(D, j)
    <3>1. CASE j = s
      BY <3>1, <1>9
    <3>2. CASE j # s
      <4>1. j \in a .. s - 1 /\ j \in Int
        BY <3>2, <1>13 DEF s1
      <4> QED  BY <4>1, <1>6, <1>8, <1>21 DEF TxHolds
    <3> QED  BY <3>1, <3>2
  <2>4. ASSUME NEW u \in D, NEW j \in Acks(u), a <= j
        PROVE  ~ InWindow(SnOf(j))' \/ (i <= j /\ InHand(j, k, e)')
    <3>1. j \in Int /\ j \in Held(r, h)
      BY <1>6 DEF Acks, Reports, ReportsTrue
    <3>2. j < h /\ j < s
      BY <3>1, <1>7 DEF Held
    <3>3. SnOf(j) # SnOf(s)
      <4>1. j - s < Mod /\ s - j < Mod /\ j # s
        BY <2>4, <3>1, <3>2, <1>7
      <4> QED  BY <3>1, <4>1, SnUnique
    <3>4. InWindow(SnOf(j))' <=> InWindow(SnOf(j))
      BY <3>1, <3>3, <1>8, <1>9
    <3> QED  BY <2>4, <3>4, <1>6, <1>20 DEF TxHolds
  <2> QED  BY <2>1, <2>2, <2>3, <2>4 DEF TxHolds
<1>23. CtlHolds(a, s1, i, k, e, D)'
  <2>1. ctl' = ctl
    BY <1>9
  <2>2. InWindow(SnOf(a)) => InWindow(SnOf(a))'
    BY <1>8, <1>21
  <2>3. CASE ~ ctl.active
    <3>1. a = s \/ InWindow(SnOf(a))
      BY <1>6, <2>3 DEF CtlHolds
    <3>2. InWindow(SnOf(a))'
      BY <1>9, <2>2, <3>1
    <3> QED  BY <2>1, <2>3, <3>2 DEF CtlHolds
  <2>4. CASE ctl.active
    <3>1. /\ ctl.i = SnOf(i) /\ ctl.ack = SnOf(k) /\ ctl.end = SnOf(e)
          /\ a <= i /\ i <= k /\ i <= e /\ e <= s /\ k <= a + Window
          /\ \A j \in i .. e - 1 : InHand(j, k, e) => AckedBy(D, j)
      BY <1>6, <2>4 DEF CtlHolds
    <3>2. e <= s1
      BY <3>1, <1>13
    <3>3. CASE ctl.advance
      <4>1. PICK g \in a .. s : Stop(g, a, s, k, e)
        BY <1>6, <2>4, <3>3 DEF CtlHolds
      <4>2. i = a
        BY <1>6, <2>4, <3>3 DEF CtlHolds
      <4>3. g \in a .. s1 /\ g \in Int /\ a <= g /\ g <= s1
        BY <1>13
      <4>4. InWindow(SnOf(g))'
        <5>1. g = s \/ InWindow(SnOf(g))
          BY <4>1 DEF Stop
        <5> QED  BY <5>1, <4>3, <1>8, <1>9, <1>21
      <4>5. Stop(g, a, s1, k, e)'
        BY <4>1, <4>3, <4>4, <1>20, <2>1 DEF Stop
      <4> QED  BY <2>1, <2>4, <3>1, <3>2, <3>3, <4>2, <4>3, <4>5, <1>20 DEF CtlHolds
    <3>4. CASE ~ ctl.advance
      <4>1. a < i /\ InWindow(SnOf(a))
        BY <1>6, <2>4, <3>4 DEF CtlHolds
      <4> QED  BY <2>1, <2>2, <2>4, <3>1, <3>2, <3>4, <4>1, <1>20 DEF CtlHolds
    <3> QED  BY <3>3, <3>4
  <2> QED  BY <2>3, <2>4
<1>24. Core(a, s1, r, h, m, i, k, e, U, D)'
  BY <1>15, <1>16, <1>18, <1>19, <1>22, <1>23 DEF Core
<1>25. Types'
  <2>1. RxTypes'
    BY <1>6 DEF RxTypes, rxVars
  <2>2. LinkTypes'
    BY <1>6, <1>12 DEF LinkTypes
  <2> QED  BY <1>9, <2>1, <2>2 DEF Types
<1> QED  BY <1>13, <1>24, <1>25 DEF IInv

LEMMA ReadKeeps ==
  ASSUME IInv, Read
  PROVE  IInv'
<1>1. PICK n \in Grants : ReadPdu(n)
  BY DEF Read
<1>2. UNCHANGED <<rxVars, up>> /\ Recent
  BY DEF Read
<1>3. CASE RetxWhole(n) \/ RetxSegment(n)
  BY <1>2, <1>3, RetxKeeps
<1>4. CASE NewPdu(n)
  BY <1>2, <1>4, NewPduKeeps
<1> QED  BY <1>1, <1>3, <1>4 DEF ReadPdu

-----------------------------------------------------------------------------
(* The sender: a status PDU                                                *)

LEMMA OffsetIs ==
  ASSUME NEW a \in Int, vtA = SnOf(a), NEW j \in Int, a <= j, j <= a + Window
  PROVE  Offset(SnOf(j)) = j - a
<1>1. j - a < Mod
  BY Constants
<1> QED  BY <1>1, SnAhead DEF Offset

LEMMA StatusBeginTypes ==
  ASSUME TxTypes, QueueFits, vtA \in Sn, vtS \in Sn, NEW status \in Statuses, StatusBegin(status)
  PROVE  TxTypes' /\ QueueFits' /\ UNCHANGED <<vtA, vtS, txWindow>>
<1>1. UNCHANGED <<written, sent, vtA, vtS, pollSn, withoutPoll, txWindow,
                  confirmed, maxRetxReached, protocolFailure>>
  BY DEF StatusBegin
<1>2. /\ pollTimer' \in {"stopped", "running", "expired"}
      /\ retxQueue' = << >> \/ retxQueue' = retxQueue
      /\ ctl' \in Ctls
  <2>1. CASE ValidAck(status.ack)
    <3>1. [active |-> TRUE, ack |-> status.ack, nacks |-> status.nacks,
           i |-> vtA, end |-> vtS, advance |-> TRUE, acked |-> {}] \in Ctls
      BY DEF Ctls, Statuses
    <3> QED  BY <2>1, <3>1 DEF StatusBegin, TxTypes
  <2>2. CASE ~ ValidAck(status.ack)
    BY <2>2 DEF StatusBegin, TxTypes
  <2> QED  BY <2>1, <2>2
<1>3. << >> \in Seq(Entries) /\ Len(<< >>) = 0 /\ 0 < Window /\ \A x \in 1 .. 0 : FALSE
  BY Constants
<1>4. retxQueue' \in Seq(Entries) /\ Len(retxQueue') < Window
  BY <1>2, <1>3 DEF TxTypes
<1>5. \A x : (InWindow(x)' <=> InWindow(x)) /\ SizeOf(x)' = SizeOf(x)
  BY <1>1 DEF InWindow, SizeOf
<1>6. TxTypes'
  BY <1>1, <1>2, <1>4, <1>5 DEF TxTypes
<1>7. QueueFits'
  BY <1>2, <1>3, <1>5 DEF QueueFits
<1> QED  BY <1>1, <1>6, <1>7

\* A status PDU with the ACK k lets vt_a go on from a, and stops it at a PDU that
\* waits for its ACK or at vt_s.
StatusStop(a, s, k, nacks) ==
  \E g \in a .. s :
    /\ \A j \in a .. g - 1 : j < k /\ j < s /\ SnOf(j) \notin nacks
    /\ g = k \/ g = s \/ SnOf(g) \in nacks
    /\ g = s \/ InWindow(SnOf(g))

LEMMA StatusStops ==
  ASSUME NEW a \in Int, NEW s \in Int, NEW k \in Int, a <= s, a <= k,
         NEW U \in SUBSET Reports, NEW D \in SUBSET U, NEW u \in U,
         Chain(U), \A v \in U : AckFits(v),
         \A j \in FirstSn .. a - 1 : AckedBy(D, j),
         \A j \in a .. s - 1 : InWindow(SnOf(j)) \/ AckedBy(D, j),
         \A v \in D : \A j \in Acks(v) : a <= j => ~ InWindow(SnOf(j)),
         a = s \/ (InWindow(SnOf(a)) /\ k = u.k),
         NEW nacks, \A j \in a .. u.k - 1 : SnOf(j) \in nacks <=> j \notin u.have
  PROVE  StatusStop(a, s, k, nacks)
<1> DEFINE stops == {j \in a .. s : j = k \/ j = s \/ SnOf(j) \in nacks}
<1>1. stops \in SUBSET Int /\ stops # {} /\ \A x \in stops : a <= x
  <2>1. s \in stops
    OBVIOUS
  <2>2. \A x \in stops : x \in Int /\ a <= x
    OBVIOUS
  <2> HIDE DEF stops
  <2> QED  BY <2>1, <2>2
<1>2. \E g \in stops : \A x \in stops : g <= x
  <2> HIDE DEF stops
  <2> QED  BY <1>1, Least
<1>3. PICK g \in stops : \A x \in stops : g <= x
  BY <1>2
<1>4. g \in Int /\ a <= g /\ g <= s /\ (g = k \/ g = s \/ SnOf(g) \in nacks)
  OBVIOUS
<1>5. g <= k
  <2> SUFFICES ASSUME k < g PROVE FALSE
    BY <1>4
  <2>1. k \in stops
    BY <1>4
  <2> QED  BY <2>1, <1>3, <1>4
<1>6. ASSUME NEW j \in a .. g - 1
      PROVE  j \in Int /\ j < k /\ j < s /\ SnOf(j) \notin nacks
  <2>1. j \in Int /\ j < k /\ j < s /\ j \in a .. s /\ ~ (g <= j)
    BY <1>4, <1>5
  <2>2. j \notin stops
    BY <1>3, <2>1
  <2> QED  BY <2>1, <2>2
<1>7. ASSUME g # s, ~ InWindow(SnOf(g))
      PROVE  FALSE
  <2>1. g \in a .. s - 1 /\ a < s
    BY <1>4, <1>7
  <2>2. AckedBy(D, g) /\ a < g /\ k = u.k /\ InWindow(SnOf(a))
    <3>1. InWindow(SnOf(a)) /\ k = u.k
      BY <2>1
    <3>2. a # g
      BY <1>7, <3>1
    <3> QED  BY <1>4, <1>7, <2>1, <3>1, <3>2
  <2>3. \A v \in D : a \notin Acks(v)
    BY <2>2
  <2>4. ASSUME NEW j \in a .. g - 1
        PROVE  j \in Acks(u)
    <3>1. j \in a .. u.k - 1 /\ j < u.k /\ SnOf(j) \notin nacks
      BY <1>6, <2>2
    <3> QED  BY <3>1 DEF Acks
  <2>5. g <= u.k /\ (g = u.k \/ g \notin u.have)
    <3>1. CASE g = k
      BY <3>1, <2>2, <1>5
    <3>2. CASE g # k
      <4>1. SnOf(g) \in nacks
        BY <1>4, <1>7, <3>2
      <4>2. g \in a .. u.k - 1
        BY <1>4, <1>5, <2>2, <3>2
      <4> QED  BY <4>1, <4>2, <1>5, <2>2
    <3> QED  BY <3>1, <3>2
  <2> HIDE DEF stops
  <2> QED  BY <1>4, <2>2, <2>3, <2>4, <2>5, StopWaits
<1> QED  BY <1>4, <1>6, <1>7 DEF StatusStop

LEMMA StatusBeginKeeps ==
  ASSUME IInv, ReceiveStatus
  PROVE  IInv'
<1>1. Types
  BY DEF IInv
<1>2. PICK a, s, r, h, m, i, k, e \in Int : \E U \in SUBSET Reports : \E D \in SUBSET U :
        Core(a, s, r, h, m, i, k, e, U, D)
  BY DEF IInv
<1>3. PICK U \in SUBSET Reports : \E D \in SUBSET U : Core(a, s, r, h, m, i, k, e, U, D)
  BY <1>2
<1>4. PICK D \in SUBSET U : Core(a, s, r, h, m, i, k, e, U, D)
  BY <1>3
<1>5. PICK status : status = Head(up).pdu
  OBVIOUS
<1>6. /\ up # << >> /\ UNCHANGED <<rxVars, down>> /\ up' = Tail(up) /\ StatusBegin(status)
  BY <1>5 DEF ReceiveStatus
<1>7. /\ Frame(a, s, r, h, m) /\ RxHolds(r, h, m) /\ DownIsRecent(s)
      /\ ReportsTrue(a, s, r, h, U) /\ TxHolds(a, s, i, k, e, D) /\ CtlHolds(a, s, i, k, e, D)
      /\ TxTypes /\ QueueFits /\ LinkTypes /\ RxTypes /\ vtA \in Sn /\ vtS \in Sn
  BY <1>1, <1>4, VtAIs DEF Core, Types
<1>8. /\ up' \in Seq([pdu : Statuses, late : BOOLEAN])
      /\ Carried(up') \subseteq Carried(up) /\ status \in Carried(up) /\ status \in Statuses
  <2>1. up \in Seq([pdu : Statuses, late : BOOLEAN])
    BY <1>7 DEF LinkTypes
  <2> QED  BY <1>5, <1>6, <2>1, TailCarries
<1>9. LinkTypes' /\ Carried(up)' \subseteq Carried(up)
      /\ \A p \in Carried(down)' : p \in Carried(down)
  BY <1>6, <1>7, <1>8 DEF LinkTypes, Carried
<1>10. TxTypes' /\ QueueFits' /\ UNCHANGED <<vtA, vtS, txWindow>>
  BY <1>6, <1>7, <1>8, StatusBeginTypes
<1>11. \A x : InWindow(x)' <=> InWindow(x)
  BY <1>10 DEF InWindow
<1>12. CASE ~ ValidAck(status.ack)
  <2>1. UNCHANGED <<vtA, vtS, ctl>>
    BY <1>6, <1>10, <1>12 DEF StatusBegin
  <2> QED  BY <1>6, <1>9, <1>10, <1>11, <2>1, SenderKeeps
<1>13. CASE ValidAck(status.ack)
  <2>1. /\ ~ ctl.active
        /\ ctl' = [active |-> TRUE, ack |-> status.ack, nacks |-> status.nacks,
                   i |-> vtA, end |-> vtS, advance |-> TRUE, acked |-> {}]
    BY <1>6, <1>13 DEF StatusBegin
  <2>2. /\ ctl'.active /\ ctl'.ack = status.ack /\ ctl'.nacks = status.nacks
        /\ ctl'.i = vtA /\ ctl'.end = vtS /\ ctl'.advance
    BY <2>1
  <2>3. PICK u \in U : s - Window <= u.k /\ Says(status, u, a)
    BY <1>7, <1>8 DEF ReportsTrue
  <2>4. /\ FirstSn <= a /\ a <= s /\ s <= a + Window /\ h <= s
        /\ FirstSn \in Int /\ Window \in Int /\ Mod = 2 * Window /\ Window + 2 <= Mod
        /\ vtA = SnOf(a) /\ vtS = SnOf(s)
    BY <1>7, FrameBounds, Constants DEF Frame
  <2>5. /\ u.k \in Int /\ u.k <= s /\ \A j \in u.have : j \in Int /\ j < s
        /\ status.ack = SnOf(u.k)
        /\ \A j \in a .. u.k - 1 : SnOf(j) \in status.nacks <=> j \notin u.have
    <3>1. u.k \in Int /\ u.have \subseteq Int
      BY DEF Reports
    <3>2. u.k <= h /\ u.have \subseteq Held(r, h)
      BY <1>7 DEF ReportsTrue
    <3>3. \A j \in Held(r, h) : j \in Int /\ j < s
      BY <2>4 DEF Held
    <3> QED  BY <2>3, <2>4, <3>1, <3>2, <3>3 DEF Says
  <2>6. PICK k1 \in Int : /\ a <= k1 /\ k1 <= a + Window /\ status.ack = SnOf(k1)
                          /\ a = s \/ k1 = u.k
                          /\ k1 = u.k \/ u.k < a
    <3>1. CASE a <= u.k
      BY <2>4, <2>5, <3>1
    <3>2. CASE u.k < a
      <4>1. a - u.k <= Mod
        BY <2>3, <2>4, <2>5
      <4>2. (status.ack - vtA) % Mod = u.k - a + Mod
        BY <2>4, <2>5, <3>2, <4>1, SnBehind
      <4>3. (status.ack - vtA) % Mod <= Window
        BY <1>13 DEF ValidAck
      <4>4. a = s /\ u.k + Mod = a + Window
        BY <2>3, <2>4, <2>5, <4>2, <4>3
      <4>5. status.ack = SnOf(u.k + Mod)
        BY <2>5, SnSame
      <4> QED  BY <2>4, <2>5, <3>2, <4>4, <4>5
    <3> QED  BY <2>5, <3>1, <3>2
  <2> DEFINE D1 == D \cup {u}
  <2>7. \A j : InHand(j, k1, s)' <=> j < k1 /\ j < s /\ SnOf(j) \notin status.nacks
    BY <2>2 DEF InHand
  <2>8. /\ \A j \in FirstSn .. a - 1 : AckedBy(D, j)
        /\ \A j \in a .. s - 1 : InWindow(SnOf(j)) \/ AckedBy(D, j)
        /\ \A v \in D : \A j \in Acks(v) : a <= j => ~ InWindow(SnOf(j))
    BY <1>7, <2>1 DEF TxHolds, InHand
  <2>9. a = s \/ InWindow(SnOf(a))
    BY <1>7, <2>1 DEF CtlHolds
  <2>10. \A j : AckedBy(D, j) => AckedBy(D1, j)
    BY DEF AckedBy
  <2>11. TxHolds(a, s, a, k1, s, D1)'
    <3>1. \A sn \in Sn : InWindow(sn)' => \E j \in a .. s - 1 : sn = SnOf(j)
      BY <1>7, <1>11 DEF TxHolds
    <3>2. \A j \in FirstSn .. a - 1 : AckedBy(D1, j)
      BY <2>8, <2>10
    <3>3. \A j \in a .. s - 1 : InWindow(SnOf(j))' \/ AckedBy(D1, j)
      BY <1>11, <2>8, <2>10
    <3>4. ASSUME NEW v \in D1, NEW j \in Acks(v), a <= j
          PROVE  ~ InWindow(SnOf(j))' \/ (a <= j /\ InHand(j, k1, s)')
      <4>1. CASE v \in D
        BY <3>4, <4>1, <1>11, <2>8
      <4>2. CASE v = u
        <5>1. j \in u.have /\ j < u.k /\ j \in Int /\ j < s
          BY <4>2, <2>5 DEF Acks
        <5>2. k1 = u.k
          BY <2>5, <2>6, <3>4, <5>1
        <5>3. j \in a .. u.k - 1
          BY <2>5, <3>4, <5>1
        <5>4. SnOf(j) \notin status.nacks
          BY <2>5, <5>1, <5>3
        <5> QED  BY <2>7, <3>4, <5>1, <5>2, <5>4
      <4> QED  BY <4>1, <4>2
    <3> QED  BY <3>1, <3>2, <3>3, <3>4 DEF TxHolds
  <2>12. StatusStop(a, s, k1, status.nacks)
    <3>1. Chain(U) /\ \A v \in U : AckFits(v)
      BY <1>7 DEF ReportsTrue
    <3>2. a = s \/ (InWindow(SnOf(a)) /\ k1 = u.k)
      BY <2>6, <2>9
    <3> QED  BY <2>4, <2>5, <2>6, <2>8, <3>1, <3>2, StatusStops
  <2>13. \E g \in a .. s : Stop(g, a, s, k1, s)'
    <3>1. PICK g \in a .. s :
           /\ \A j \in a .. g - 1 : j < k1 /\ j < s /\ SnOf(j) \notin status.nacks
           /\ g = k1 \/ g = s \/ SnOf(g) \in status.nacks
           /\ g = s \/ InWindow(SnOf(g))
      BY <2>12 DEF StatusStop
    <3>2. a <= g /\ g <= s
      OBVIOUS
    <3> QED  BY <1>11, <2>2, <2>7, <3>1, <3>2 DEF Stop
  <2>14. \A j \in a .. s - 1 : InHand(j, k1, s)' => AckedBy(D1, j)
    <3> SUFFICES ASSUME NEW j \in a .. s - 1, InHand(j, k1, s)' PROVE j \in Acks(u)
      BY DEF AckedBy
    <3>1. j \in Int /\ a <= j /\ j < s /\ j < k1 /\ SnOf(j) \notin status.nacks
      BY <2>7
    <3>2. k1 = u.k
      BY <2>4, <2>6, <3>1
    <3>3. j \in a .. u.k - 1
      BY <2>5, <3>1, <3>2
    <3> QED  BY <2>5, <3>1, <3>2, <3>3 DEF Acks
  <2>15. CtlHolds(a, s, a, k1, s, D1)'
    <3>1. (ctl').active /\ (ctl').advance
      BY <2>2
    <3>2. /\ (ctl').i = SnOf(a) /\ (ctl').ack = SnOf(k1) /\ (ctl').end = SnOf(s)
          /\ a <= a /\ a <= k1 /\ a <= s /\ s <= s /\ k1 <= a + Window
      BY <2>2, <2>4, <2>6, Constants
    <3> QED  BY <2>13, <2>14, <3>1, <3>2 DEF CtlHolds
  <2>16. UNCHANGED <<rxWindow, vrR, vrH, vrMs, vrX, reordering>> /\ Held(r, h)' = Held(r, h)
    BY <1>6 DEF rxVars, Held
  <2>17. Frame(a, s, r, h, m)' /\ RxHolds(r, h, m)'
    BY <1>7, <1>10, <2>16 DEF Frame, RxHolds
  <2>18. ReportsTrue(a, s, r, h, U)'
    BY <1>7, <1>9, <2>16 DEF ReportsTrue
  <2>19. DownIsRecent(s)'
    BY <1>7, <1>9 DEF DownIsRecent
  <2>20. Core(a, s, r, h, m, a, k1, s, U, D1)'
    BY <2>11, <2>15, <2>17, <2>18, <2>19 DEF Core
  <2>21. D1 \in SUBSET U
    OBVIOUS
  <2> HIDE DEF D1
  <2>22. Types'
    BY <1>6, <1>7, <1>9, <1>10 DEF Types, RxTypes, rxVars
  <2> QED  BY <2>20, <2>21, <2>22 DEF IInv
<1> QED  BY <1>12, <1>13

\* How far a status PDU in hand is
LEMMA GoesOnIs ==
  ASSUME NEW a \in Int, NEW s \in Int, NEW i \in Int, NEW k \in Int, NEW e \in Int, NEW D,
         vtA = SnOf(a), s <= a + Window, ctl.active, CtlHolds(a, s, i, k, e, D)
  PROVE  StatusGoesOn <=> (i < k /\ i < e)
<1>1. /\ ctl.i = SnOf(i) /\ ctl.ack = SnOf(k) /\ ctl.end = SnOf(e)
      /\ a <= i /\ i <= k /\ i <= e /\ e <= s /\ k <= a + Window
  BY DEF CtlHolds
<1>2. /\ a <= k /\ a <= e /\ e <= a + Window /\ i <= a + Window
  BY SMTT(30), SMTT(40), <1>1, Constants
<1>3. Offset(ctl.i) = i - a /\ Offset(ctl.ack) = k - a /\ Offset(ctl.end) = e - a
  BY <1>1, <1>2, OffsetIs
<1> QED  BY <1>3 DEF StatusGoesOn

LEMMA StatusNackKeeps ==
  ASSUME IInv, Sender(StatusNack)
  PROVE  IInv'
<1>1. Types
  BY DEF IInv
<1>2. PICK a, s, r, h, m, i, k, e \in Int : \E U \in SUBSET Reports : \E D \in SUBSET U :
        Core(a, s, r, h, m, i, k, e, U, D)
  BY DEF IInv
<1>3. PICK U \in SUBSET Reports : \E D \in SUBSET U : Core(a, s, r, h, m, i, k, e, U, D)
  BY <1>2
<1>4. PICK D \in SUBSET U : Core(a, s, r, h, m, i, k, e, U, D)
  BY <1>3
<1>5. UNCHANGED rxVars /\ UNCHANGED linkVars /\ StatusNack
  BY DEF Sender
<1>6. /\ ctl.active /\ StatusGoesOn /\ ctl.i \in ctl.nacks
      /\ ctl' = [ctl EXCEPT !.i = (@ + 1) % Mod, !.advance = FALSE]
      /\ UNCHANGED <<written, sent, vtA, vtS, pollSn, withoutPoll, pollTimer,
                     confirmed, protocolFailure>>
  BY <1>5 DEF StatusNack
<1>7. /\ Frame(a, s, r, h, m) /\ RxHolds(r, h, m) /\ DownIsRecent(s)
      /\ ReportsTrue(a, s, r, h, U) /\ TxHolds(a, s, i, k, e, D) /\ CtlHolds(a, s, i, k, e, D)
      /\ TxTypes /\ QueueFits /\ LinkTypes /\ RxTypes
  BY <1>1, <1>4 DEF Core, Types
<1>8. vtA = SnOf(a) /\ a <= s /\ s <= a + Window
  BY <1>7, FrameBounds DEF Frame
<1>9. i < k /\ i < e
  BY <1>6, <1>7, <1>8, GoesOnIs
<1>10. /\ ctl.i = SnOf(i) /\ ctl.ack = SnOf(k) /\ ctl.end = SnOf(e)
       /\ a <= i /\ i <= k /\ i <= e /\ e <= s /\ k <= a + Window
       /\ \A j \in i .. e - 1 : InHand(j, k, e) => AckedBy(D, j)
       /\ IF ctl.advance THEN i = a /\ \E g \in a .. s : Stop(g, a, s, k, e)
          ELSE a < i /\ InWindow(SnOf(a))
  BY <1>6, <1>7 DEF CtlHolds
<1> DEFINE i1 == i + 1
<1>11. ctl \in Ctls /\ ctl.i \in Sn /\ (ctl.i + 1) % Mod = SnOf(i1) /\ SnOf(i1) \in Sn
  <2>1. ctl \in Ctls
    BY <1>7 DEF TxTypes
  <2>2. SnOf(i) \in Sn /\ SnOf(i1) \in Sn
    BY SnOfIs
  <2>3. (SnOf(i) + 1) % Mod = SnOf(i1)
    BY SnPlus
  <2> QED  BY <1>10, <2>1, <2>2, <2>3
<1> HIDE DEF i1
<1>12. /\ ctl' \in Ctls /\ ctl'.active /\ ctl'.i = SnOf(i1) /\ ctl'.ack = ctl.ack
       /\ ctl'.nacks = ctl.nacks /\ ctl'.end = ctl.end /\ ~ ctl'.advance
  BY <1>6, <1>11 DEF Ctls
<1>13. /\ TxTypes' /\ QueueFits' /\ \A x \in Sn : InWindow(x)' <=> InWindow(x)
  <2>1. CASE /\ InWindow(ctl.i) /\ CountRetx(ctl.i)
             /\ retxQueue' = Pushed(retxQueue, WholePdu(ctl.i))
    <3>1. pollTimer' \in {"stopped", "running", "expired"}
      BY <1>6, <1>7 DEF TxTypes
    <3>2. UNCHANGED <<written, sent, pollSn, withoutPoll, confirmed, protocolFailure>>
      BY <1>6
    <3> QED  BY <1>7, <1>11, <1>12, <2>1, <3>1, <3>2, PushTypes
  <2>2. CASE UNCHANGED <<txWindow, retxQueue, maxRetxReached>>
    BY <1>6, <1>7, <1>12, <2>2 DEF TxTypes, QueueFits, InWindow, SizeOf
  <2> QED  BY <1>5, <2>1, <2>2 DEF StatusNack
<1>14. InWindow(SnOf(a))
  <2>1. CASE ctl.advance
    <3>1. i = a
      BY <1>10, <2>1
    <3>2. PICK g \in a .. s : Stop(g, a, s, k, e)
      BY <1>10, <2>1
    <3>3. ~ InHand(a, k, e)
      BY <1>6, <1>10, <3>1 DEF InHand
    <3>4. g = a
      <4> SUFFICES ASSUME g # a PROVE FALSE
        OBVIOUS
      <4>1. a \in a .. g - 1
        OBVIOUS
      <4> QED  BY <3>2, <3>3, <4>1 DEF Stop
    <3>5. a # s
      BY <1>9, <1>10, <3>1
    <3> QED  BY <3>2, <3>4, <3>5 DEF Stop
  <2> QED  BY <1>10, <2>1
<1>15. \A j : InHand(j, k, e)' <=> InHand(j, k, e)
  BY <1>6, <1>12 DEF InHand
<1>16. \A j \in Int : SnOf(j) \in Sn /\ (InWindow(SnOf(j))' <=> InWindow(SnOf(j)))
  BY <1>13, SnOfIs
<1>17. i1 = i + 1
  BY DEF i1
<1>18. CtlHolds(a, s, i1, k, e, D)'
  <2>1. a < i1 /\ a <= i1 /\ i1 <= k /\ i1 <= e /\ e <= s /\ k <= a + Window
    BY <1>9, <1>10, <1>17
  <2>2. \A j \in i1 .. e - 1 : j \in i .. e - 1
    BY <1>17
  <2> QED  BY <1>10, <1>12, <1>14, <1>15, <1>16, <2>1, <2>2 DEF CtlHolds
<1>19. TxHolds(a, s, i1, k, e, D)'
  <2>1. \A sn \in Sn : InWindow(sn)' => \E j \in a .. s - 1 : sn = SnOf(j)
    BY <1>7, <1>13 DEF TxHolds
  <2>2. \A j \in a .. s - 1 : InWindow(SnOf(j))' \/ AckedBy(D, j)
    BY <1>7, <1>16 DEF TxHolds
  <2>3. ASSUME NEW u \in D, NEW j \in Acks(u), a <= j
        PROVE  ~ InWindow(SnOf(j))' \/ (i1 <= j /\ InHand(j, k, e)')
    <3>1. j \in Int
      BY DEF Acks, Reports
    <3>2. ~ InWindow(SnOf(j)) \/ (i <= j /\ InHand(j, k, e))
      BY <1>7, <2>3 DEF TxHolds
    <3>3. InHand(j, k, e) => j # i
      BY <1>6, <1>10 DEF InHand
    <3> QED  BY <1>15, <1>16, <1>17, <3>1, <3>2, <3>3
  <2> QED  BY <1>7, <2>1, <2>2, <2>3 DEF TxHolds
<1>20. UNCHANGED <<rxWindow, vrR, vrH, vrMs, vrX, reordering>> /\ Held(r, h)' = Held(r, h)
       /\ Carried(up)' = Carried(up) /\ Carried(down)' = Carried(down)
  BY <1>5 DEF rxVars, Held, linkVars, Carried
<1>21. Frame(a, s, r, h, m)' /\ RxHolds(r, h, m)' /\ ReportsTrue(a, s, r, h, U)' /\ DownIsRecent(s)'
  BY <1>6, <1>7, <1>20 DEF Frame, RxHolds, ReportsTrue, DownIsRecent
<1>22. Core(a, s, r, h, m, i1, k, e, U, D)'
  BY <1>18, <1>19, <1>21 DEF Core
<1>23. Types'
  BY <1>5, <1>7, <1>13 DEF Types, RxTypes, rxVars, LinkTypes, linkVars
<1>24. i1 \in Int
  BY <1>17
<1> QED  BY <1>22, <1>23, <1>24 DEF IInv

LEMMA StatusAckTypes ==
  ASSUME TxTypes, QueueFits, NEW sn \in Sn, ctl.i = sn, StatusAck
  PROVE  /\ TxTypes' /\ QueueFits' /\ ~ InWindow(sn)'
         /\ \A x \in Sn : x # sn => (InWindow(x)' <=> InWindow(x))
         /\ ctl' = [ctl EXCEPT !.i = (sn + 1) % Mod, !.acked = ctl'.acked]
<1> DEFINE acked == ctl.acked \cup IF InWindow(sn) THEN FullyAcked(sn) ELSE {}
<1>1. /\ ctl' = [ctl EXCEPT !.i = (sn + 1) % Mod, !.acked = acked]
      /\ txWindow' = [txWindow EXCEPT ![sn] = NoPdu]
      /\ UNCHANGED <<written, sent, vtS, pollSn, withoutPoll, retxQueue, pollTimer,
                     confirmed, maxRetxReached, protocolFailure>>
  BY DEF StatusAck
<1>2. acked \subseteq Ends
  BY DEF FullyAcked, TxTypes, Ctls
<1> HIDE DEF acked
<1>3. /\ txWindow \in [Sn -> [lo : Nat, hi : Nat, retx : Nat]] /\ ctl \in Ctls
      /\ NoPdu \in [lo : Nat, hi : Nat, retx : Nat]
  BY DEF TxTypes, NoPdu
<1>4. /\ txWindow' \in [Sn -> [lo : Nat, hi : Nat, retx : Nat]] /\ txWindow'[sn] = NoPdu
      /\ \A x \in Sn : x # sn => txWindow'[x] = txWindow[x]
  BY <1>1, <1>3
<1>5. ~ InWindow(sn)' /\ \A x \in Sn : x # sn => (InWindow(x)' <=> InWindow(x))
  BY <1>4 DEF InWindow
<1>6. (sn + 1) % Mod \in Sn
  <2>1. sn \in Int /\ Mod \in Nat \ {0} /\ Sn = 0 .. Mod - 1
    BY Constants
  <2>2. sn + 1 \in Int
    BY <2>1
  <2> QED  BY <2>1, <2>2, Division
<1>7. ctl' \in Ctls /\ ctl'.acked = acked
  BY <1>1, <1>2, <1>3, <1>6 DEF Ctls
<1>8. TxTypes'
  BY <1>1, <1>4, <1>5, <1>7 DEF TxTypes
<1>9. \A x \in Sn : InWindow(x)' =>
        InWindow(x) /\ txWindow'[x].lo = txWindow[x].lo /\ txWindow'[x].hi = txWindow[x].hi
  BY <1>4, <1>5
<1>10. PICK q \in Seq(Entries) : q = retxQueue /\ retxQueue' = q
  BY <1>1 DEF TxTypes
<1>11. \A n \in 1 .. Len(q) : InWindow(q[n].sn)' => q[n].from < q[n].to /\ q[n].to = SizeOf(q[n].sn)'
  BY <1>9, <1>10, SizesStay DEF QueueFits
<1>12. QueueFits'
  BY <1>10, <1>11 DEF QueueFits
<1> QED  BY <1>1, <1>5, <1>7, <1>8, <1>12

\* What is acknowledged the receiver has, and vt_a does not overtake vr_r.
LEMMA StatusAckKeeps ==
  ASSUME IInv, Sender(StatusAck)
  PROVE  IInv'
<1>1. Types
  BY DEF IInv
<1>2. PICK a, s, r, h, m, i, k, e \in Int : \E U \in SUBSET Reports : \E D \in SUBSET U :
        Core(a, s, r, h, m, i, k, e, U, D)
  BY DEF IInv
<1>3. PICK U \in SUBSET Reports : \E D \in SUBSET U : Core(a, s, r, h, m, i, k, e, U, D)
  BY <1>2
<1>4. PICK D \in SUBSET U : Core(a, s, r, h, m, i, k, e, U, D)
  BY <1>3
<1>5. UNCHANGED rxVars /\ UNCHANGED linkVars /\ StatusAck
  BY DEF Sender
<1>6. /\ ctl.active /\ StatusGoesOn /\ ctl.i \notin ctl.nacks
      /\ vtA' = (IF ctl.advance THEN (vtA + 1) % Mod ELSE vtA) /\ vtS' = vtS
  BY <1>5 DEF StatusAck
<1>7. /\ Frame(a, s, r, h, m) /\ RxHolds(r, h, m) /\ DownIsRecent(s)
      /\ ReportsTrue(a, s, r, h, U) /\ TxHolds(a, s, i, k, e, D) /\ CtlHolds(a, s, i, k, e, D)
      /\ TxTypes /\ QueueFits /\ LinkTypes /\ RxTypes
  BY <1>1, <1>4 DEF Core, Types
<1>8. /\ vtA = SnOf(a) /\ vtS = SnOf(s) /\ FirstSn <= a /\ a <= r /\ r <= h /\ h <= s /\ s <= a + Window
      /\ FirstSn \in Int /\ Window \in Int /\ Mod = 2 * Window /\ Window + 2 <= Mod
  BY <1>7, FrameBounds, Constants DEF Frame
<1>9. i < k /\ i < e
  BY <1>6, <1>7, <1>8, GoesOnIs
<1>10. /\ ctl.i = SnOf(i) /\ ctl.ack = SnOf(k) /\ ctl.end = SnOf(e)
       /\ a <= i /\ i <= k /\ i <= e /\ e <= s /\ k <= a + Window
       /\ \A j \in i .. e - 1 : InHand(j, k, e) => AckedBy(D, j)
       /\ IF ctl.advance THEN i = a /\ \E g \in a .. s : Stop(g, a, s, k, e)
          ELSE a < i /\ InWindow(SnOf(a))
  BY <1>6, <1>7 DEF CtlHolds
<1> DEFINE i1 == i + 1
<1>11. /\ SnOf(i) \in Sn /\ (SnOf(i) + 1) % Mod = SnOf(i1) /\ (SnOf(a) + 1) % Mod = SnOf(a + 1)
       /\ \A j \in Int : SnOf(j) \in Sn
  BY SnPlus, SnOfIs
<1>12. /\ TxTypes' /\ QueueFits' /\ ~ InWindow(SnOf(i))'
       /\ \A x \in Sn : x # SnOf(i) => (InWindow(x)' <=> InWindow(x))
       /\ ctl' = [ctl EXCEPT !.i = (SnOf(i) + 1) % Mod, !.acked = ctl'.acked]
  BY <1>5, <1>7, <1>10, <1>11, StatusAckTypes
<1>13. /\ ctl'.active /\ ctl'.i = SnOf(i1) /\ ctl'.ack = ctl.ack
       /\ ctl'.nacks = ctl.nacks /\ ctl'.end = ctl.end /\ ctl'.advance = ctl.advance
  <2>1. ctl \in Ctls
    BY <1>7 DEF TxTypes
  <2> QED  BY <1>6, <1>11, <1>12, <2>1 DEF Ctls
<1>14. i1 = i + 1 /\ i1 \in Int
  OBVIOUS
<1> HIDE DEF i1
<1>15. InHand(i, k, e) /\ AckedBy(D, i)
  <2>1. InHand(i, k, e)
    BY <1>6, <1>9, <1>10 DEF InHand
  <2>2. i \in i .. e - 1
    BY <1>9
  <2> QED  BY <1>10, <2>1, <2>2
<1>16. PICK a1 \in Int : /\ vtA' = SnOf(a1) /\ a <= a1 /\ a1 <= i1
                         /\ IF ctl.advance THEN a1 = a + 1 /\ i = a ELSE a1 = a
  <2>1. CASE ctl.advance
    BY <2>1, <1>6, <1>8, <1>10, <1>11, <1>14
  <2>2. CASE ~ ctl.advance
    BY <2>2, <1>6, <1>8, <1>10, <1>14
  <2> QED  BY <2>1, <2>2
<1>17. a1 <= r
  <2>1. CASE ctl.advance
    <3>1. PICK u \in D : a \in Acks(u)
      BY <1>15, <1>16, <2>1 DEF AckedBy
    <3>2. a \in Held(r, h)
      BY <1>7, <3>1 DEF ReportsTrue, Acks
    <3>3. a # r
      BY <1>7, <3>2 DEF Held, RxHolds
    <3> QED  BY <1>8, <1>16, <2>1, <3>3
  <2> QED  BY <2>1, <1>8, <1>16
<1>18. \A j \in Int : a <= j /\ j < s /\ j # i => SnOf(j) # SnOf(i)
  <2> SUFFICES ASSUME NEW j \in Int, a <= j, j < s, j # i PROVE SnOf(j) # SnOf(i)
    OBVIOUS
  <2>1. j - i < Mod /\ i - j < Mod
    BY <1>8, <1>9, <1>10
  <2> QED  BY <2>1, SnUnique
<1>19. \A j \in Int : a <= j /\ j < s /\ j # i => (InWindow(SnOf(j))' <=> InWindow(SnOf(j)))
  BY <1>11, <1>12, <1>18
<1>20. \A j : InHand(j, k, e)' <=> InHand(j, k, e)
  BY <1>6, <1>13 DEF InHand
<1>21. TxHolds(a1, s, i1, k, e, D)'
  <2>1. ASSUME NEW x \in Sn, InWindow(x)'
        PROVE  \E j \in a1 .. s - 1 : x = SnOf(j)
    <3>1. x # SnOf(i) /\ InWindow(x)
      BY <1>12, <2>1
    <3>2. PICK j \in a .. s - 1 : x = SnOf(j)
      BY <1>7, <3>1 DEF TxHolds
    <3>3. j \in a1 .. s - 1
      BY <1>16, <3>1, <3>2
    <3> QED  BY <3>2, <3>3
  <2>2. ASSUME NEW j \in FirstSn .. a1 - 1
        PROVE  AckedBy(D, j)
    <3>1. CASE j < a
      <4>1. j \in FirstSn .. a - 1
        BY <3>1, <1>8
      <4> QED  BY <4>1, <1>7 DEF TxHolds
    <3>2. CASE ~ (j < a)
      <4>1. j = i
        BY <3>2, <1>8, <1>16
      <4> QED  BY <4>1, <1>15
    <3> QED  BY <3>1, <3>2
  <2>3. ASSUME NEW j \in a1 .. s - 1
        PROVE  InWindow(SnOf(j))' \/ AckedBy(D, j)
    <3>1. j \in Int /\ a <= j /\ j < s /\ j \in a .. s - 1
      BY <1>16
    <3>2. CASE j = i
      BY <3>2, <1>15
    <3>3. CASE j # i
      BY <3>1, <3>3, <1>7, <1>19 DEF TxHolds
    <3> QED  BY <3>2, <3>3
  <2>4. ASSUME NEW u \in D, NEW j \in Acks(u), a1 <= j
        PROVE  ~ InWindow(SnOf(j))' \/ (i1 <= j /\ InHand(j, k, e)')
    <3>1. j \in Int /\ j \in Held(r, h)
      BY <1>7 DEF Acks, Reports, ReportsTrue
    <3>2. a <= j /\ j < s
      BY <1>8, <1>16, <2>4, <3>1 DEF Held
    <3>3. CASE j = i
      BY <3>3, <1>12
    <3>4. CASE j # i
      <4>1. ~ InWindow(SnOf(j)) \/ (i <= j /\ InHand(j, k, e))
        BY <1>7, <3>2 DEF TxHolds
      <4> QED  BY <4>1, <3>1, <3>2, <3>4, <1>14, <1>19, <1>20
    <3> QED  BY <3>3, <3>4
  <2> QED  BY <2>1, <2>2, <2>3, <2>4 DEF TxHolds
<1>22. CtlHolds(a1, s, i1, k, e, D)'
  <2>1. a1 <= i1 /\ i1 <= k /\ i1 <= e /\ e <= s /\ k <= a1 + Window
    BY <1>8, <1>9, <1>10, <1>14, <1>16
  <2>2. \A j \in i1 .. e - 1 : InHand(j, k, e)' => AckedBy(D, j)
    <3>1. \A j \in i1 .. e - 1 : j \in i .. e - 1
      BY <1>14
    <3> QED  BY <1>10, <1>20, <3>1
  <2>3. CASE ctl.advance
    <3>1. PICK g \in a .. s : Stop(g, a, s, k, e)
      BY <1>10, <2>3
    <3>2. i = a /\ a1 = i1 /\ a1 = a + 1
      BY <1>14, <1>16, <2>3
    <3>3. g # a
      BY <1>9, <1>6, <1>10, <3>1, <3>2 DEF Stop
    <3>4. g \in a1 .. s /\ g \in Int /\ a1 <= g /\ g <= s /\ \A j \in a1 .. g - 1 : j \in a .. g - 1
      BY <3>2, <3>3
    <3>5. g = s \/ InWindow(SnOf(g))'
      <4>1. g = s \/ InWindow(SnOf(g))
        BY <3>1 DEF Stop
      <4>2. g # s => a <= g /\ g < s /\ g # i
        BY <3>2, <3>4
      <4> QED  BY <4>1, <4>2, <3>4, <1>19
    <3>6. Stop(g, a1, s, k, e)'
      BY <1>13, <1>20, <3>1, <3>4, <3>5 DEF Stop
    <3> QED  BY <1>10, <1>13, <2>1, <2>2, <2>3, <3>2, <3>4, <3>6 DEF CtlHolds
  <2>4. CASE ~ ctl.advance
    <3>1. a < i /\ InWindow(SnOf(a)) /\ a1 = a
      BY <1>10, <1>16, <2>4
    <3>2. a < i1 /\ a < s /\ a # i
      BY <1>9, <1>10, <1>14, <3>1
    <3>3. InWindow(SnOf(a))'
      BY <1>19, <3>1, <3>2
    <3> QED  BY <1>10, <1>13, <2>1, <2>2, <2>4, <3>1, <3>2, <3>3 DEF CtlHolds
  <2> QED  BY <2>3, <2>4
<1>23. UNCHANGED <<rxWindow, vrR, vrH, vrMs, vrX, reordering>> /\ Held(r, h)' = Held(r, h)
       /\ Carried(up)' = Carried(up) /\ Carried(down)' = Carried(down)
  BY <1>5 DEF rxVars, Held, linkVars, Carried
<1>24. Frame(a1, s, r, h, m)'
  <2>1. FirstSn <= a1 /\ s <= a1 + Window
    BY <1>8, <1>16
  <2> QED  BY <1>6, <1>7, <1>16, <1>17, <1>23, <2>1 DEF Frame
<1>25. ReportsTrue(a1, s, r, h, U)'
  <2>1. ASSUME NEW status \in Carried(up)'
        PROVE  \E u \in U : s - Window <= u.k /\ Says(status, u, a1)
    <3>1. PICK u \in U : s - Window <= u.k /\ Says(status, u, a)
      BY <1>7, <1>23 DEF ReportsTrue
    <3>2. Says(status, u, a1)
      BY <3>1, <1>16, SaysLater
    <3> QED  BY <3>1, <3>2
  <2> QED  BY <1>7, <1>23, <2>1 DEF ReportsTrue
<1>26. RxHolds(r, h, m)' /\ DownIsRecent(s)'
  BY <1>7, <1>23 DEF RxHolds, DownIsRecent
<1>27. Core(a1, s, r, h, m, i1, k, e, U, D)'
  BY <1>21, <1>22, <1>24, <1>25, <1>26 DEF Core
<1>28. Types'
  BY <1>5, <1>7, <1>12 DEF Types, RxTypes, rxVars, LinkTypes, linkVars
<1> QED  BY <1>14, <1>27, <1>28 DEF IInv

LEMMA StatusEndKeeps ==
  ASSUME IInv, Sender(StatusEnd)
  PROVE  IInv'
<1>1. Types
  BY DEF IInv
<1>2. PICK a, s, r, h, m, i, k, e \in Int : \E U \in SUBSET Reports : \E D \in SUBSET U :
        Core(a, s, r, h, m, i, k, e, U, D)
  BY DEF IInv
<1>3. PICK U \in SUBSET Reports : \E D \in SUBSET U : Core(a, s, r, h, m, i, k, e, U, D)
  BY <1>2
<1>4. PICK D \in SUBSET U : Core(a, s, r, h, m, i, k, e, U, D)
  BY <1>3
<1>5. UNCHANGED rxVars /\ UNCHANGED linkVars /\ StatusEnd
  BY DEF Sender
<1>6. /\ ctl.active /\ ~ StatusGoesOn /\ ctl' = NoCtl /\ confirmed' = confirmed \cup ctl.acked
      /\ protocolFailure' = (~ InWindow(vtA) /\ \E sn \in Sn : InWindow(sn))
      /\ UNCHANGED <<written, sent, vtA, vtS, pollSn, withoutPoll, txWindow,
                     retxQueue, pollTimer, maxRetxReached>>
  BY <1>5 DEF StatusEnd
<1>7. /\ Frame(a, s, r, h, m) /\ RxHolds(r, h, m) /\ DownIsRecent(s)
      /\ ReportsTrue(a, s, r, h, U) /\ TxHolds(a, s, i, k, e, D) /\ CtlHolds(a, s, i, k, e, D)
      /\ TxTypes /\ QueueFits /\ LinkTypes /\ RxTypes
  BY <1>1, <1>4 DEF Core, Types
<1>8. vtA = SnOf(a) /\ a <= s /\ s <= a + Window
  BY <1>7, FrameBounds DEF Frame
<1>9. ~ (i < k /\ i < e)
  BY <1>6, <1>7, <1>8, GoesOnIs
<1>10. /\ a <= i /\ i <= k /\ i <= e
       /\ IF ctl.advance THEN i = a /\ \E g \in a .. s : Stop(g, a, s, k, e)
          ELSE a < i /\ InWindow(SnOf(a))
  BY <1>6, <1>7 DEF CtlHolds
<1>11. \A j \in Int : ~ (i <= j /\ InHand(j, k, e))
  BY <1>9, <1>10 DEF InHand
<1>12. a = s \/ InWindow(SnOf(a))
  <2>1. CASE ctl.advance
    <3>1. PICK g \in a .. s : Stop(g, a, s, k, e)
      BY <1>10, <2>1
    <3>2. g = a
      <4> SUFFICES ASSUME g # a PROVE FALSE
        OBVIOUS
      <4>1. a \in a .. g - 1
        OBVIOUS
      <4> QED  BY <1>10, <1>11, <2>1, <3>1, <4>1 DEF Stop
    <3> QED  BY <3>1, <3>2 DEF Stop
  <2> QED  BY <1>10, <2>1
<1>13. protocolFailure' = FALSE
  <2>1. CASE a = s
    <3>1. \A sn \in Sn : ~ InWindow(sn)
      BY <1>7, <2>1 DEF TxHolds
    <3> QED  BY <1>6, <3>1
  <2>2. CASE InWindow(SnOf(a))
    BY <1>6, <1>8, <2>2
  <2> QED  BY <1>12, <2>1, <2>2
<1>14. ctl' \in Ctls /\ ~ ctl'.active
  BY <1>6, Constants DEF NoCtl, Ctls
<1>15. \A x : (InWindow(x)' <=> InWindow(x)) /\ SizeOf(x)' = SizeOf(x)
  BY <1>6 DEF InWindow, SizeOf
<1>16. TxTypes' /\ QueueFits'
  <2>1. confirmed' \subseteq Ends
    BY <1>6, <1>7 DEF TxTypes, Ctls
  <2> QED  BY <1>6, <1>7, <1>13, <1>14, <1>15, <2>1 DEF TxTypes, QueueFits
<1>17. TxHolds(a, s, i, k, e, D)'
  <2>1. ASSUME NEW u \in D, NEW j \in Acks(u), a <= j
        PROVE  ~ InWindow(SnOf(j))'
    <3>1. j \in Int
      BY DEF Acks, Reports
    <3>2. ~ InWindow(SnOf(j)) \/ (i <= j /\ InHand(j, k, e))
      BY <1>7, <2>1 DEF TxHolds
    <3> QED  BY <1>11, <1>15, <3>1, <3>2
  <2> QED  BY <1>7, <1>15, <2>1 DEF TxHolds
<1>18. CtlHolds(a, s, i, k, e, D)'
  BY <1>12, <1>14, <1>15 DEF CtlHolds
<1>19. UNCHANGED <<rxWindow, vrR, vrH, vrMs, vrX, reordering>> /\ Held(r, h)' = Held(r, h)
       /\ Carried(up)' = Carried(up) /\ Carried(down)' = Carried(down)
  BY <1>5 DEF rxVars, Held, linkVars, Carried
<1>20. Frame(a, s, r, h, m)' /\ RxHolds(r, h, m)' /\ ReportsTrue(a, s, r, h, U)' /\ DownIsRecent(s)'
  BY <1>6, <1>7, <1>19 DEF Frame, RxHolds, ReportsTrue, DownIsRecent
<1>21. Core(a, s, r, h, m, i, k, e, U, D)'
  BY <1>17, <1>18, <1>20 DEF Core
<1>22. Types'
  BY <1>5, <1>7, <1>16 DEF Types, RxTypes, rxVars, LinkTypes, linkVars
<1> QED  BY <1>21, <1>22 DEF IInv

-----------------------------------------------------------------------------
(* The theorems                                                            *)

LEMMA InitKeeps ==
  ASSUME Init
  PROVE  IInv
<1> DEFINE f == FirstSn
<1>1. TxInit /\ RxInit /\ LinkInit
  BY DEF Init
<1>2. f \in Int /\ f \in Sn /\ SnOf(f) = f /\ Window \in Nat
  BY Constants, SnOfFirst
<1>3. \A sn \in Sn : ~ InWindow(sn) /\ rxWindow[sn] = None
  BY <1>1 DEF TxInit, RxInit, InWindow
<1>4. << >> \in Seq(Entries) /\ Len(<< >>) = 0 /\ 0 < Window /\ \A x \in 1 .. 0 : FALSE
  BY Constants
<1>5. NoPdu \in [lo : Nat, hi : Nat, retx : Nat] /\ NoCtl \in Ctls /\ ~ NoCtl.active
      /\ None \in [lo : Nat, hi : Nat]
  BY Constants DEF NoPdu, NoCtl, Ctls, None
<1>6. pollSn \in Sn
  BY <1>1, <1>2, Constants DEF TxInit
<1>7. txWindow \in [Sn -> [lo : Nat, hi : Nat, retx : Nat]]
  BY <1>1, <1>5 DEF TxInit
<1>8. /\ written = 0 /\ sent = 0 /\ withoutPoll = 0 /\ retxQueue = << >>
      /\ pollTimer = "stopped" /\ ctl = NoCtl /\ confirmed = {}
      /\ maxRetxReached = FALSE /\ protocolFailure = FALSE
  BY <1>1 DEF TxInit
<1>9. TxTypes
  <2>1. written \in Ends \cup {0} /\ sent \in 0 .. written /\ withoutPoll \in Nat
    BY <1>8
  <2>2. retxQueue \in Seq(Entries) /\ Len(retxQueue) < Window
    BY <1>4, <1>8
  <2>3. /\ ctl \in Ctls /\ confirmed \subseteq Ends
        /\ pollTimer \in {"stopped", "running", "expired"}
        /\ maxRetxReached \in BOOLEAN /\ protocolFailure = FALSE
    BY <1>5, <1>8
  <2> QED  BY <1>3, <1>6, <1>7, <2>1, <2>2, <2>3 DEF TxTypes
<1>10. QueueFits
  BY <1>4, <1>8 DEF QueueFits
<1>11. RxTypes
  BY <1>1, <1>2, <1>5 DEF RxInit, RxTypes
<1>12. down = << >> /\ up = << >>
  BY <1>1 DEF LinkInit
<1>13. LinkTypes /\ Carried(down) = {} /\ Carried(up) = {}
  BY <1>12 DEF LinkTypes, Carried
<1>14. vtA = f /\ vtS = f /\ vrR = f /\ vrH = f /\ vrMs = f /\ ~ reordering
  BY <1>1 DEF TxInit, RxInit
<1> HIDE DEF f
<1>15. FirstSn = f
  BY DEF f
<1>16. Frame(f, f, f, f, f)
  BY <1>2, <1>14, <1>15 DEF Frame
<1>17. RxHolds(f, f, f)
  BY <1>2, <1>3, <1>14 DEF RxHolds
<1>18. DownIsRecent(f) /\ ReportsTrue(f, f, f, f, {})
  BY <1>13 DEF DownIsRecent, ReportsTrue, Chain
<1>19. TxHolds(f, f, f, f, f, {})
  <2>1. f .. f - 1 = {} /\ FirstSn .. f - 1 = {}
    BY <1>2, <1>15
  <2> QED  BY <1>3, <2>1 DEF TxHolds
<1>20. CtlHolds(f, f, f, f, f, {})
  BY <1>5, <1>8 DEF CtlHolds
<1>21. Core(f, f, f, f, f, f, f, f, {}, {})
  BY <1>16, <1>17, <1>18, <1>19, <1>20 DEF Core
<1>22. {} \in SUBSET Reports /\ {} \in SUBSET {}
  OBVIOUS
<1> QED  BY <1>2, <1>9, <1>10, <1>11, <1>13, <1>21, <1>22 DEF IInv, Types

LEMMA StutterKeeps ==
  ASSUME IInv, UNCHANGED vars
  PROVE  IInv'
<1>1. UNCHANGED txVars /\ UNCHANGED rxVars /\ UNCHANGED linkVars
  BY DEF vars
<1>2. RxTypes /\ LinkTypes
  BY DEF IInv, Types
<1>3. RxTypes' /\ UNCHANGED <<rxWindow, vrR, vrH, vrMs, vrX, reordering>>
  BY <1>1, <1>2 DEF RxTypes, rxVars
<1>4. LinkTypes' /\ Carried(down)' \subseteq Carried(down) /\ Carried(up)' \subseteq Carried(up)
  BY <1>1, <1>2 DEF LinkTypes, Carried, linkVars
<1> QED  BY <1>1, <1>3, <1>4, FlagsStep

\* IInv is inductive: one lemma for each action.
THEOREM RlcInductive == Spec => []IInv
<1>1. Init => IInv
  BY InitKeeps
<1>2. IInv /\ [Next]_vars => IInv'
  <2> SUFFICES ASSUME IInv, [Next]_vars PROVE IInv'
    OBVIOUS
  <2>1. CASE UNCHANGED vars
    BY <2>1, StutterKeeps
  <2>2. CASE Read
    BY <2>2, ReadKeeps
  <2>3. CASE Sender(ReadNothing)
    BY <2>3, ReadNothingKeeps
  <2>4. CASE ReceiveData
    BY <2>4, ReceiveDataKeeps
  <2>5. CASE LoseData
    BY <2>5, LoseDataKeeps
  <2>6. CASE Report
    BY <2>6, ReportKeeps
  <2>7. CASE ReceiveStatus
    BY <2>7, StatusBeginKeeps
  <2>8. CASE LoseStatus
    BY <2>8, LoseStatusKeeps
  <2>9. CASE Sender(WriteSdu)
    BY <2>9, WriteSduKeeps
  <2>10. CASE Sender(PollTimerExpires)
    BY <2>10, PollTimerKeeps
  <2>11. CASE Sender(StatusNack)
    BY <2>11, StatusNackKeeps
  <2>12. CASE Sender(StatusAck)
    BY <2>12, StatusAckKeeps
  <2>13. CASE Sender(StatusEnd)
    BY <2>13, StatusEndKeeps
  <2>14. CASE Receiver(ReorderingExpires)
    BY <2>14, ReorderingKeeps
  <2>15. CASE Receiver(ProhibitExpires)
    BY <2>15, ProhibitKeeps
  <2> QED
    BY <2>1, <2>2, <2>3, <2>4, <2>5, <2>6, <2>7, <2>8, <2>9, <2>10, <2>11, <2>12, <2>13,
       <2>14, <2>15 DEF Next
<1> QED  BY <1>1, <1>2, PTL DEF Spec

LEMMA PduTyped ==
  ASSUME NEW P, NEW ch \in Seq([pdu : P, late : BOOLEAN]), NEW n \in 1 .. Len(ch)
  PROVE  ch[n].pdu \in P
<1> DEFINE E == [pdu : P, late : BOOLEAN]
<1>1. \A x \in E : x.pdu \in P
  OBVIOUS
<1>2. ch \in Seq(E)
  OBVIOUS
<1> HIDE DEF E
<1>3. ch[n] \in E
  BY <1>2
<1> QED  BY <1>1, <1>3

LEMMA IInvTypeOK ==
  ASSUME IInv
  PROVE  TypeOK
<1>1. TxTypes /\ RxTypes /\ LinkTypes
  BY DEF IInv, Types
<1>2. {vtA, vtS, pollSn, vrR, vrH, vrX, vrMs} \subseteq Sn
  BY <1>1, SnOfIs DEF IInv, Core, Frame, TxTypes, RxTypes
<1>3. ASSUME NEW sn \in Sn, InWindow(sn)
      PROVE  /\ txWindow[sn].lo \in 1 .. txWindow[sn].hi
             /\ txWindow[sn].hi \in 1 .. sent
             /\ txWindow[sn].retx \in Nat
  <2>1. /\ txWindow[sn].lo \in Nat /\ txWindow[sn].hi \in Nat /\ txWindow[sn].retx \in Nat
        /\ 1 <= txWindow[sn].lo /\ txWindow[sn].lo <= txWindow[sn].hi /\ txWindow[sn].hi <= sent
    BY <1>1, <1>3 DEF TxTypes
  <2>2. sent \in Int
    BY <1>1, EndsAre DEF TxTypes
  <2> QED  BY <2>1, <2>2
<1>4. \A n \in 1 .. Len(down) : down[n].pdu \in Pdus
  <2>1. down \in Seq([pdu : DataPdus, late : BOOLEAN])
    BY <1>1 DEF LinkTypes
  <2>2. \A n \in 1 .. Len(down) : down[n].pdu \in DataPdus
    BY <2>1, PduTyped
  <2> QED  BY <2>2 DEF DataPdus
<1>5. \A n \in 1 .. Len(up) : up[n].pdu \in Statuses
  <2>1. up \in Seq([pdu : Statuses, late : BOOLEAN])
    BY <1>1 DEF LinkTypes
  <2> QED  BY <2>1, PduTyped
<1> QED  BY <1>1, <1>2, <1>3, <1>4, <1>5 DEF TypeOK, TxTypes, RxTypes

LEMMA IInvWindows ==
  ASSUME IInv
  PROVE  WindowsOverlap
<1>1. PICK a, s, r, h, m, i, k, e \in Int : \E U \in SUBSET Reports : \E D \in SUBSET U :
        Core(a, s, r, h, m, i, k, e, U, D)
  BY DEF IInv
<1>2. Frame(a, s, r, h, m)
  BY <1>1 DEF Core
<1>3. /\ a <= r /\ r <= h /\ h <= s /\ s <= a + Window
      /\ vtA = SnOf(a) /\ vrR = SnOf(r) /\ vrH = SnOf(h) /\ vtS = SnOf(s)
  BY <1>2, FrameBounds DEF Frame
<1>4. a <= h /\ a <= s /\ r <= a + Window /\ h <= a + Window
  BY <1>3, Constants
<1>5. Offset(vrR) = r - a /\ Offset(vrH) = h - a /\ Offset(vtS) = s - a
  BY <1>3, <1>4, OffsetIs
<1> QED  BY <1>3, <1>5 DEF WindowsOverlap

\* RlcAm!TypeOK, for windows, streams and grants of every size: the queue of
\* retransmissions stays below its capacity, and a PDU carries pieces that have
\* been taken from the SDU queue.
THEOREM RlcTypes == Spec => []TypeOK
<1>1. IInv => TypeOK
  BY IInvTypeOK
<1> QED  BY <1>1, RlcInductive, PTL

\* vt_a never points to nothing while PDUs wait for their ACK: none of the
\* status PDUs that the receiver sends makes the entity report a protocol
\* failure, however late or out of order they come.
THEOREM RlcNoProtocolFailure == Spec => []NoProtocolFailure
<1>1. IInv => NoProtocolFailure
  BY DEF IInv, Types, TxTypes, NoProtocolFailure
<1> QED  BY <1>1, RlcInductive, PTL

\* vt_a <= vr_r <= vr_h <= vt_s: the sender takes for acknowledged only what the
\* receiver has, and the receiver takes no old PDU for a new one.
THEOREM RlcWindowsOverlap == Spec => []WindowsOverlap
<1>1. IInv => WindowsOverlap
  BY IInvWindows
<1> QED  BY <1>1, RlcInductive, PTL
=============================================================================
