--------------------------- MODULE RlcAmDelivery ---------------------------
(***************************************************************************)
(* An RLC AM bearer delivers the stream of SDUs in order, without loss or  *)
(* repetition, and confirms only what has arrived: RlcAm implements        *)
(* ReliableDelivery, for every window, segmentation, polling configuration,*)
(* loss and overtaking.                                                    *)
(***************************************************************************)
EXTENDS RlcAmTheorems, RlcAmContent

-----------------------------------------------------------------------------
(* Numbers are counted from anywhere.                                      *)

LEMMA PlacesAgree ==
  ASSUME NEW a \in Int, NEW r \in Int, NEW s \in Int, Places(a, r, s),
         NEW b \in Int, NEW q \in Int, NEW t \in Int, Places(b, q, t)
  PROVE  t - b = s - a /\ q - b = r - a /\ \A x \in Int : SnOf(a + x) = SnOf(b + x)
<1>1. /\ SnOf(a) = SnOf(b) /\ SnOf(r) = SnOf(q) /\ SnOf(s) = SnOf(t)
      /\ a <= r /\ r <= s /\ s <= a + Window /\ b <= q /\ q <= t /\ t <= b + Window
  BY DEF Places
<1>2. /\ a <= s /\ s - a < Mod /\ r - a < Mod /\ b <= t /\ t - b < Mod /\ q - b < Mod
  BY <1>1, Constants
<1>3. (SnOf(s) - SnOf(a)) % Mod = s - a /\ (SnOf(r) - SnOf(a)) % Mod = r - a
  BY <1>1, <1>2, SnAhead
<1>4. (SnOf(t) - SnOf(b)) % Mod = t - b /\ (SnOf(q) - SnOf(b)) % Mod = q - b
  BY <1>1, <1>2, SnAhead
<1>5. ASSUME NEW x \in Int
      PROVE  SnOf(a + x) = SnOf(b + x)
  <2>1. (SnOf(a) + x) % Mod = SnOf(a + x) /\ (SnOf(b) + x) % Mod = SnOf(b + x)
    BY SnPlus
  <2> QED  BY <1>1, <2>1
<1> QED  BY <1>1, <1>3, <1>4, <1>5

LEMMA CountedAnew ==
  ASSUME NEW P, NEW a \in Int, NEW r \in Int, NEW s \in Int, Content(P, a, r, s),
         NEW b \in Int, NEW q \in Int, NEW t \in Int, Places(b, q, t)
  PROVE  Content(P, b, q, t)
<1>1. /\ t - b = s - a /\ q - b = r - a /\ \A x \in Int : SnOf(a + x) = SnOf(b + x)
  <2>1. Places(a, r, s)
    BY DEF Content
  <2> QED  BY ZenonT(40), <2>1, PlacesAgree
<1>2. Follow(P, b, t)
  <2> SUFFICES ASSUME NEW j \in b .. t - 1
               PROVE  LET c == P[SnOf(j)]
                      IN 1 <= c.lo /\ c.lo <= c.hi /\ c.hi + 1 = First(P, SnOf(j + 1))
    BY DEF Follow
  <2>1. /\ j - b + a \in a .. s - 1 /\ j - b + 1 \in Int /\ j - b \in Int
        /\ a + (j - b) = j - b + a /\ b + (j - b) = j
        /\ a + (j - b + 1) = j - b + a + 1 /\ b + (j - b + 1) = j + 1
    BY <1>1
  <2>2. SnOf(j) = SnOf(j - b + a) /\ SnOf(j + 1) = SnOf(j - b + a + 1)
    BY <1>1, <2>1
  <2>3. Follow(P, a, s)
    BY DEF Content
  <2> QED  BY <2>1, <2>2, <2>3 DEF Follow
<1>3. ASSUME NEW sn \in Sn, \E j \in r .. s - 1 : sn = SnOf(j)
      PROVE  \E j \in q .. t - 1 : sn = SnOf(j)
  <2>1. PICK j \in r .. s - 1 : sn = SnOf(j)
    BY <1>3
  <2>2. j - a + b \in q .. t - 1 /\ j - a \in Int /\ b + (j - a) = j - a + b /\ a + (j - a) = j
    BY <1>1
  <2> QED  BY <1>1, <2>1, <2>2
<1> QED  BY <1>2, <1>3 DEF Content

LEMMA ContentOf ==
  ASSUME ContentInv, NEW a \in Int, NEW s \in Int, NEW r \in Int, NEW h \in Int, NEW m \in Int,
         Frame(a, s, r, h, m)
  PROVE  \E P \in [Sn -> Intervals] : Content(P, a, r, s)
<1>1. PICK P \in [Sn -> Intervals] : \E b, q, t \in Int : Content(P, b, q, t)
  BY DEF ContentInv
<1>2. PICK b \in Int, q \in Int, t \in Int : Content(P, b, q, t)
  BY <1>1
<1>3. Places(a, r, s)
  BY FrameBounds DEF Frame, Places
<1> QED  BY <1>2, <1>3, CountedAnew

-----------------------------------------------------------------------------
(* PDUs that follow each other                                             *)

\* The border before the PDU number j
LEMMA BordersRise ==
  ASSUME NEW P \in [Sn -> Intervals], NEW a \in Int, NEW s \in Int, a <= s, s <= a + Window,
         vtS = SnOf(s), sent \in Nat, Follow(P, a, s)
  PROVE  /\ First(P, SnOf(s)) = sent + 1
         /\ \A j \in a .. s : First(P, SnOf(j)) \in Int
         /\ \A j \in a .. s - 1 :
              /\ P[SnOf(j)].lo \in Nat /\ P[SnOf(j)].hi \in Nat
              /\ First(P, SnOf(j)) = P[SnOf(j)].lo /\ First(P, SnOf(j + 1)) = P[SnOf(j)].hi + 1
              /\ 1 <= P[SnOf(j)].lo /\ P[SnOf(j)].lo <= P[SnOf(j)].hi
         /\ \A j, k \in a .. s : j < k => First(P, SnOf(j)) < First(P, SnOf(k))
<1> DEFINE B(j) == First(P, SnOf(j))
<1>1. B(s) = sent + 1
  BY DEF First
<1>2. ASSUME NEW j \in a .. s - 1
      PROVE  /\ P[SnOf(j)].lo \in Nat /\ P[SnOf(j)].hi \in Nat
             /\ B(j) = P[SnOf(j)].lo /\ B(j + 1) = P[SnOf(j)].hi + 1
             /\ 1 <= P[SnOf(j)].lo /\ P[SnOf(j)].lo <= P[SnOf(j)].hi
  <2>1. P[SnOf(j)] \in Intervals
    BY SnOfIs
  <2>2. SnOf(j) # SnOf(s)
    <3>1. j - s < Mod /\ s - j < Mod /\ j # s /\ j \in Int
      BY Constants
    <3> QED  BY <3>1, SnUnique
  <2>3. 1 <= P[SnOf(j)].lo /\ P[SnOf(j)].lo <= P[SnOf(j)].hi /\ P[SnOf(j)].hi + 1 = B(j + 1)
    BY DEF Follow
  <2>4. P[SnOf(j)].lo \in Nat /\ P[SnOf(j)].hi \in Nat
    BY <2>1 DEF Intervals
  <2>5. B(j) = P[SnOf(j)].lo
    BY <2>2 DEF First
  <2> HIDE DEF B
  <2> QED  BY <2>3, <2>4, <2>5
<1>3. \A j \in a .. s : B(j) \in Int
  <2> SUFFICES ASSUME NEW j \in a .. s PROVE B(j) \in Int
    OBVIOUS
  <2>1. CASE j = s
    BY <1>1, <2>1
  <2>2. CASE j # s
    <3>1. j \in a .. s - 1
      BY <2>2
    <3> HIDE DEF B
    <3> QED  BY <1>2, <3>1
  <2> QED  BY <2>1, <2>2
<1> HIDE DEF B
<1>4. ASSUME NEW j \in a .. s, NEW k \in a .. s, j < k, ~ (B(j) < B(k))
      PROVE  FALSE
  <2> DEFINE Bad == {x \in j + 1 .. s : ~ (B(j) < B(x))}
  <2>1. Bad # {} /\ Bad \in SUBSET Int /\ \A x \in Bad : j <= x
    BY <1>4
  <2>2. PICK x \in Bad : \A y \in Bad : x <= y
    <3> HIDE DEF Bad
    <3>1. j \in Int
      OBVIOUS
    <3> QED  BY <2>1, <3>1, Least
  <2>3. x \in j + 1 .. s /\ ~ (B(j) < B(x)) /\ x - 1 \in a .. s - 1 /\ x - 1 + 1 = x
    BY <2>2
  <2>4. B(x - 1) < B(x)
    BY <1>2, <2>3
  <2>5. CASE x - 1 = j
    BY <2>3, <2>4, <2>5
  <2>6. CASE x - 1 # j
    <3>1. x - 1 \in j + 1 .. s
      BY <2>3, <2>6
    <3>2. x - 1 \notin Bad
      BY <2>2, <2>3
    <3>3. B(j) < B(x - 1)
      BY <3>1, <3>2
    <3>4. B(j) \in Int /\ B(x) \in Int /\ B(x - 1) \in Int
      BY <1>3, <2>3, <3>1
    <3> QED  BY <2>3, <2>4, <3>3, <3>4
  <2> QED  BY <2>5, <2>6
<1> QED  BY <1>1, <1>2, <1>3, <1>4 DEF B

\* Every piece that was sent and that is not before the PDU a is in one of the
\* PDUs from a on.
LEMMA PieceHasPdu ==
  ASSUME NEW P \in [Sn -> Intervals], NEW a \in Int, NEW s \in Int, a <= s, s <= a + Window,
         vtS = SnOf(s), sent \in Nat, Follow(P, a, s),
         NEW p \in Int, First(P, SnOf(a)) <= p, p <= sent
  PROVE  \E j \in a .. s - 1 : P[SnOf(j)].lo <= p /\ p <= P[SnOf(j)].hi
<1> DEFINE Below == {j \in a .. s : First(P, SnOf(j)) <= p}
<1>1. Below \in SUBSET Int /\ Below # {} /\ \A j \in Below : j <= s
  OBVIOUS
<1>2. PICK j \in Below : \A x \in Below : x <= j
  BY <1>1, Greatest
<1>3. j # s
  BY BordersRise, <1>2
<1>4. j \in a .. s - 1 /\ j + 1 \in a .. s /\ j + 1 \notin Below
  BY <1>2, <1>3
<1>5. /\ First(P, SnOf(j)) <= p /\ ~ (First(P, SnOf(j + 1)) <= p)
      /\ First(P, SnOf(j)) = P[SnOf(j)].lo /\ First(P, SnOf(j + 1)) = P[SnOf(j)].hi + 1
      /\ P[SnOf(j)].hi \in Nat
  BY BordersRise, <1>2, <1>4
<1> QED  BY <1>4, <1>5

-----------------------------------------------------------------------------
(* What the receiver has                                                   *)

LEMMA UpToIs ==
  ASSUME NEW n \in Nat
  PROVE  /\ [k \in 1 .. n |-> k] \in Seq(Nat) /\ Len([k \in 1 .. n |-> k]) = n
         /\ \A k \in 1 .. n : [x \in 1 .. n |-> x][k] = k
OBVIOUS

LEMMA GotIs ==
  ASSUME NEW P \in [Sn -> Intervals], NEW a \in Int, NEW r \in Int, NEW s \in Int,
         Content(P, a, r, s), sent \in Nat
  PROVE  /\ First(P, vrR) \in Int /\ 1 <= First(P, vrR) /\ First(P, vrR) <= sent + 1
         /\ Len(got) = First(P, vrR) - 1 /\ got = [n \in 1 .. Len(got) |-> n]
         /\ {got[k] : k \in 1 .. Len(got)} = 1 .. First(P, vrR) - 1
<1>1. /\ vrR = SnOf(r) /\ vtS = SnOf(s) /\ a <= r /\ r <= s /\ s <= a + Window
      /\ Follow(P, a, s) /\ a <= s
  BY DEF Content, Places
<1> DEFINE B(j) == First(P, SnOf(j))
<1>2. /\ B(s) = sent + 1 /\ \A j \in a .. s : B(j) \in Int
      /\ \A j \in a .. s - 1 : 1 <= B(j)
      /\ \A j, k \in a .. s : j < k => B(j) < B(k)
  BY <1>1, BordersRise
<1>3. vrR = SnOf(r) /\ r \in a .. s /\ s \in a .. s
  BY <1>1
<1> HIDE DEF B
<1>4. B(r) \in Int /\ 1 <= B(r) /\ B(r) <= sent + 1
  <2>1. CASE r = s
    BY <1>2, <2>1
  <2>2. CASE r # s
    <3>1. r \in a .. s - 1 /\ r < s
      BY <1>1, <2>2
    <3>2. B(r) < B(s) /\ 1 <= B(r) /\ B(r) \in Int
      BY <1>2, <1>3, <3>1
    <3> QED  BY <1>2, <3>2
  <2> QED  BY <2>1, <2>2
<1>5. First(P, vrR) = B(r)
  BY <1>1 DEF B
<1> DEFINE n == First(P, vrR) - 1
<1>6. n \in Nat
  BY <1>4, <1>5
<1>7. got = [k \in 1 .. n |-> k]
  BY DEF Content
<1> HIDE DEF n
<1>8. Len(got) = n /\ \A k \in 1 .. n : got[k] = k
  BY <1>6, <1>7, UpToIs
<1>9. {got[k] : k \in 1 .. Len(got)} = 1 .. n
  BY <1>8
<1> QED  BY <1>4, <1>5, <1>7, <1>8, <1>9 DEF n

\* A piece is held if it is before the PDU vr_r, or in one that waits.
LEMMA HeldIs ==
  ASSUME NEW P \in [Sn -> Intervals], NEW a \in Int, NEW r \in Int, NEW s \in Int,
         Content(P, a, r, s), sent \in Nat,
         NEW h \in Int, NEW m \in Int, RxHolds(r, h, m), NEW q \in Int
  PROVE  q \in HeldPieces <=>
           \/ 1 <= q /\ q < First(P, vrR)
           \/ \E j \in r .. h - 1 : /\ rxWindow[SnOf(j)] # None
                                    /\ P[SnOf(j)].lo <= q /\ q <= P[SnOf(j)].hi
<1> DEFINE Waits == UNION {rxWindow[sn].lo .. rxWindow[sn].hi : sn \in {x \in Sn : rxWindow[x] # None}}
<1>1. {got[k] : k \in 1 .. Len(got)} = 1 .. First(P, vrR) - 1 /\ First(P, vrR) \in Int
  BY GotIs
<1>2. \A sn \in Sn : rxWindow[sn] # None =>
        /\ rxWindow[sn].lo = P[sn].lo /\ rxWindow[sn].hi = P[sn].hi
        /\ P[sn].lo \in Nat /\ P[sn].hi \in Nat
  BY DEF Content, SameAs, Intervals
<1>3. \A sn \in Sn : rxWindow[sn] # None => \E j \in r .. h - 1 : sn = SnOf(j)
  BY DEF RxHolds
<1>4. \A j \in r .. h - 1 : SnOf(j) \in Sn
  BY SnOfIs
<1>5. q \in Waits <=> \E sn \in Sn : rxWindow[sn] # None /\ P[sn].lo <= q /\ q <= P[sn].hi
  BY <1>2
<1>6. q \in Waits <=> \E j \in r .. h - 1 : /\ rxWindow[SnOf(j)] # None
                                            /\ P[SnOf(j)].lo <= q /\ q <= P[SnOf(j)].hi
  <2> HIDE DEF Waits
  <2> QED  BY <1>3, <1>4, <1>5
<1>7. HeldPieces = {got[k] : k \in 1 .. Len(got)} \cup Waits
  BY DEF HeldPieces
<1>8. q \in 1 .. First(P, vrR) - 1 <=> 1 <= q /\ q < First(P, vrR)
  BY <1>1
<1> HIDE DEF Waits
<1> QED  BY <1>1, <1>6, <1>7, <1>8

LEMMA Placed ==
  ASSUME IInv, ContentInv
  PROVE  \E a, s, r, h, m \in Int :
           /\ Frame(a, s, r, h, m) /\ RxHolds(r, h, m)
           /\ \E P \in [Sn -> Intervals] : Content(P, a, r, s)
<1>1. PICK a, s, r, h, m, i, k, e \in Int : \E U \in SUBSET Reports : \E D \in SUBSET U :
        Core(a, s, r, h, m, i, k, e, U, D)
  BY DEF IInv
<1>2. Frame(a, s, r, h, m) /\ RxHolds(r, h, m)
  BY <1>1 DEF Core
<1>3. \E P \in [Sn -> Intervals] : Content(P, a, r, s)
  BY <1>2, ContentOf
<1> QED  BY <1>2, <1>3

LEMMA ReceivedIs ==
  /\ Received \subseteq Ends
  /\ \A e \in Received : e \in HeldPieces
  /\ \A p \in Piece : EndOf[p] \in Received => p \in HeldPieces
  /\ \A e \in Ends : (\A p \in Piece : EndOf[p] = e => p \in HeldPieces) => e \in Received
<1>1. \A e \in Ends : e \in Piece /\ EndOf[e] = e
  <2> SUFFICES ASSUME NEW e \in Ends PROVE e \in Piece /\ EndOf[e] = e
    OBVIOUS
  <2>1. e \in Piece /\ EndOf[e] \in Ends /\ e <= EndOf[e] /\ EndOf[e] <= e
    BY EndsAre
  <2>2. Ends \subseteq Int
    BY EndsAre
  <2>3. EndOf[e] \in Int /\ e \in Int
    BY <2>1, <2>2
  <2> QED  BY <2>1, <2>3
<1>2. Received = {e \in Ends : \A p \in Piece : EndOf[p] = e => p \in HeldPieces}
  BY DEF Received
<1> QED  BY <1>1, <1>2

\* The place of a piece that the receiver has
LEMMA HeldBelow ==
  ASSUME NEW P \in [Sn -> Intervals],
         NEW a \in Int, NEW s \in Int, NEW r \in Int, NEW h \in Int, NEW m \in Int,
         Frame(a, s, r, h, m), RxHolds(r, h, m), Content(P, a, r, s), sent \in Nat,
         NEW q \in Int, q \in HeldPieces
  PROVE  /\ 1 <= q /\ q <= sent
         /\ q # First(P, vrR)
<1>1. /\ a <= r /\ r <= h /\ h <= s /\ a <= s /\ s <= a + Window
      /\ vrR = SnOf(r) /\ vtS = SnOf(s)
  BY FrameBounds DEF Frame
<1>2. First(P, vrR) \in Int /\ 1 <= First(P, vrR) /\ First(P, vrR) <= sent + 1
  BY GotIs
<1> DEFINE B(j) == First(P, SnOf(j))
<1>3. /\ B(s) = sent + 1 /\ \A j \in a .. s : B(j) \in Int
      /\ \A j \in a .. s - 1 : /\ P[SnOf(j)].lo \in Nat /\ P[SnOf(j)].hi \in Nat
                               /\ B(j) = P[SnOf(j)].lo /\ B(j + 1) = P[SnOf(j)].hi + 1
                               /\ 1 <= P[SnOf(j)].lo
      /\ \A j, k \in a .. s : j < k => B(j) < B(k)
  <2>1. Follow(P, a, s)
    BY DEF Content
  <2> QED  BY <1>1, <2>1, BordersRise
<1>4. B(r) = First(P, vrR)
  BY <1>1
<1>5. rxWindow[SnOf(r)] = None
  BY DEF RxHolds
<1>6. CASE 1 <= q /\ q < First(P, vrR)
  BY <1>2, <1>6
<1>7. ASSUME NEW j \in r .. h - 1, rxWindow[SnOf(j)] # None,
             P[SnOf(j)].lo <= q, q <= P[SnOf(j)].hi
      PROVE  1 <= q /\ q <= sent /\ q # First(P, vrR)
  <2>1. j \in a .. s - 1 /\ j \in a .. s /\ j + 1 \in a .. s /\ r \in a .. s /\ s \in a .. s /\ j \in Int
    BY <1>1
  <2>2. r < j
    <3>1. j # r
      BY <1>5, <1>7
    <3> QED  BY <3>1
  <2> HIDE DEF B
  <2>3. B(j + 1) <= B(s)
    <3>1. j + 1 = s \/ j + 1 < s
      BY <2>1
    <3>2. B(j + 1) \in Int /\ B(s) \in Int
      BY <1>3, <2>1
    <3> QED  BY <1>3, <2>1, <3>1, <3>2
  <2>4. B(r) < B(j)
    BY <1>3, <2>1, <2>2
  <2> QED  BY <1>2, <1>3, <1>4, <1>7, <2>1, <2>3, <2>4
<1>8. \/ 1 <= q /\ q < First(P, vrR)
      \/ \E j \in r .. h - 1 : /\ rxWindow[SnOf(j)] # None
                               /\ P[SnOf(j)].lo <= q /\ q <= P[SnOf(j)].hi
  BY HeldIs
<1> QED  BY <1>6, <1>7, <1>8

LEMMA PassedOnHolds ==
  ASSUME IInv, ContentInv
  PROVE  PassedOn
<1>1. PICK a, s, r, h, m \in Int :
        /\ Frame(a, s, r, h, m) /\ RxHolds(r, h, m)
        /\ \E P \in [Sn -> Intervals] : Content(P, a, r, s)
  BY Placed
<1>2. PICK P \in [Sn -> Intervals] : Content(P, a, r, s)
  BY <1>1
<1>3. sent \in Nat
  BY EndsAssumption DEF IInv, Types, TxTypes
<1>4. /\ First(P, vrR) \in Int /\ 1 <= First(P, vrR) /\ First(P, vrR) <= sent + 1
      /\ Len(got) = First(P, vrR) - 1 /\ got = [n \in 1 .. Len(got) |-> n]
  BY <1>2, <1>3, GotIs
<1>5. Ends \subseteq Int /\ Piece \subseteq Int
  BY EndsAre
<1>6. \A q \in Int : q \in HeldPieces => 1 <= q /\ q <= sent /\ q # First(P, vrR)
  BY <1>1, <1>2, <1>3, HeldBelow
<1>7. \A q \in Int : 1 <= q /\ q <= Len(got) => q \in HeldPieces
  <2> SUFFICES ASSUME NEW q \in Int, 1 <= q, q <= Len(got) PROVE q \in HeldPieces
    OBVIOUS
  <2>1. 1 <= q /\ q < First(P, vrR)
    BY <1>4
  <2> QED  BY <2>1, <1>1, <1>2, <1>3, HeldIs
<1>8. Len(got) \in 0 .. sent
  BY <1>3, <1>4
<1>9. \A e \in Received : e <= sent
  BY <1>5, <1>6, ReceivedIs
<1>10. ASSUME NEW e \in Ends, e <= Len(got)
       PROVE  e \in Received
  <2>1. ASSUME NEW p \in Piece, EndOf[p] = e
        PROVE  p \in HeldPieces
    <3>1. p \in Int /\ 1 <= p /\ p <= e
      BY <2>1, EndsAre DEF Piece
    <3> QED  BY <1>4, <1>5, <1>7, <1>10, <3>1
  <2> QED  BY <2>1, ReceivedIs
<1>11. ASSUME NEW e \in Received, {f \in Ends : f < e} \subseteq Received, ~ (e <= Len(got))
       PROVE  FALSE
  <2> DEFINE q == First(P, vrR)
  <2>1. e \in Ends /\ e \in Piece /\ e \in Int
    BY <1>5, EndsAre, ReceivedIs
  <2>2. q \in Int /\ 1 <= q /\ q <= e
    BY <1>4, <1>11, <2>1
  <2>3. q \in Piece
    BY <2>1, <2>2, EndsAre DEF Piece
  <2> HIDE DEF q
  <2>4. EndOf[q] \in Ends /\ EndOf[q] <= e /\ EndOf[q] \in Int
    BY <1>5, <2>1, <2>2, <2>3, EndsAre
  <2>5. EndOf[q] \in Received
    BY <1>11, <2>1, <2>4
  <2>6. q \in HeldPieces
    BY <2>3, <2>5, ReceivedIs
  <2> QED  BY <1>6, <2>2, <2>6 DEF q
<1> QED  BY <1>4, <1>8, <1>9, <1>10, <1>11, ReceivedIs DEF PassedOn

-----------------------------------------------------------------------------
(* The content of what is on its way                                       *)

\* A step that moves neither vt_a, vt_s nor vr_r; what it sends is in the window.
LEMMA ContentStays ==
  ASSUME NEW P \in [Sn -> Intervals], NEW a \in Int, NEW r \in Int, NEW s \in Int,
         Content(P, a, r, s),
         UNCHANGED <<vtA, vtS, sent, vrR, rxWindow, got>>,
         \A sn \in Sn : InWindow(sn)' =>
           InWindow(sn) /\ txWindow'[sn].lo = txWindow[sn].lo /\ txWindow'[sn].hi = txWindow[sn].hi,
         \A sn \in Sn : \A x \in rxSegments'[sn] :
           x \in rxSegments[sn] \/ (PartOf(x, P[sn]) /\ \E j \in r .. s - 1 : sn = SnOf(j)),
         \A x \in Carried(down)' :
           \/ x \in Carried(down)
           \/ /\ x.sn \in Sn /\ InWindow(x.sn)
              /\ PartOf(x, txWindow[x.sn]) /\ (~ x.rf => Whole(x))
  PROVE  Content(P, a, r, s)'
<1>1. \A sn : First(P, sn)' = First(P, sn)
  BY DEF First
<1>2. Follow(P, a, s)' /\ Places(a, r, s)'
  BY <1>1 DEF Content, Follow, Places
<1>3. \A sn \in Sn : InWindow(sn) => txWindow[sn].lo = P[sn].lo /\ txWindow[sn].hi = P[sn].hi
  BY DEF Content, SameAs
<1>4. \A sn \in Sn : InWindow(sn)' => SameAs(txWindow'[sn], P[sn])
  BY <1>3 DEF SameAs
<1>5. ASSUME NEW x \in Carried(down)'
      PROVE  PartOf(x, P[x.sn]) /\ (~ x.rf => Whole(x))
  <2>1. CASE x \in Carried(down)
    BY <2>1 DEF Content
  <2>2. CASE x \notin Carried(down)
    <3>1. x.sn \in Sn /\ InWindow(x.sn) /\ PartOf(x, txWindow[x.sn]) /\ (~ x.rf => Whole(x))
      BY <2>2
    <3>2. txWindow[x.sn].lo = P[x.sn].lo /\ txWindow[x.sn].hi = P[x.sn].hi
      BY <1>3, <3>1
    <3> QED  BY <3>1, <3>2 DEF PartOf
  <2> QED  BY <2>1, <2>2
<1>6. \A sn \in Sn : rxWindow'[sn] # None => SameAs(rxWindow'[sn], P[sn])
  BY DEF Content
<1>7. \A sn \in Sn : \A x \in rxSegments'[sn] :
        PartOf(x, P[sn]) /\ \E j \in r .. s - 1 : sn = SnOf(j)
  BY DEF Content
<1>8. got' = [n \in 1 .. First(P, vrR)' - 1 |-> n]
  BY <1>1 DEF Content
<1> QED  BY <1>2, <1>4, <1>5, <1>6, <1>7, <1>8 DEF Content

\* The PDU of a retransmission is the one in the window, or a part of it.
LEMMA RetxIsPart ==
  ASSUME TxTypes, QueueFits, vtA \in Sn, NEW n \in Nat \ {0}, RetxWhole(n) \/ RetxSegment(n)
  PROVE  \E x \in DataPdus :
           /\ SendDown(x) /\ InWindow(x.sn)
           /\ PartOf(x, txWindow[x.sn]) /\ (~ x.rf => Whole(x))
<1> DEFINE q == ToRetransmit
           e == q[1]
<1>0. /\ q \in Seq(Entries) /\ Len(q) < Window
      /\ \A x \in 1 .. Len(q) : InWindow(q[x].sn) =>
           q[x].from < q[x].to /\ q[x].to = SizeOf(q[x].sn)
      /\ q # << >> => e \in Entries /\ InWindow(e.sn)
  BY ToRetransmitIs
<1>1. q # << >> /\ Head(q) = e
  BY DEF RetxWhole, RetxSegment
<1> HIDE DEF q
<1>3. e \in Entries /\ InWindow(e.sn) /\ e.from < e.to /\ e.to = SizeOf(e.sn)
  <2>1. Len(q) \in Nat /\ Len(q) >= 1
    BY <1>0, <1>1, TailIs
  <2>2. 1 \in 1 .. Len(q)
    BY <2>1
  <2> QED  BY <1>0, <1>1, <2>1, <2>2
<1>4. /\ e.sn \in Sn /\ e.from \in Nat /\ e.to \in Nat /\ SizeOf(e.sn) \in Nat \ {0}
      /\ txWindow[e.sn].lo \in Nat /\ txWindow[e.sn].hi \in Nat /\ 1 <= txWindow[e.sn].lo
      /\ SizeOf(e.sn) = txWindow[e.sn].hi - txWindow[e.sn].lo + 1
  <2>1. e.sn \in Sn /\ e.from \in Nat /\ e.to \in Nat
    BY <1>3 DEF Entries
  <2>2. txWindow[e.sn].lo \in Nat /\ txWindow[e.sn].hi \in Nat /\ 1 <= txWindow[e.sn].lo
    BY <1>3, <2>1 DEF TxTypes
  <2>3. SizeOf(e.sn) \in Nat \ {0}
    BY <1>3, <2>1, WholePduFits
  <2> QED  BY <2>1, <2>2, <2>3 DEF SizeOf
<1> DEFINE l == txWindow[e.sn].lo
           u == txWindow[e.sn].hi
<1>8. CASE RetxWhole(n)
  <2> DEFINE poll == PollRequired(q, sent)
             pdu == [sn |-> e.sn, rf |-> FALSE, so |-> 0, lo |-> l, hi |-> u, lsf |-> TRUE, p |-> poll]
  <2>1. SendDown(pdu) /\ Polled(poll)
    BY <1>1, <1>8 DEF RetxWhole, q
  <2>2. poll \in BOOLEAN
    BY Polling
  <2> HIDE DEF poll
  <2>3. l = l + 0 /\ u = l + SizeOf(e.sn) - 1 /\ 0 < SizeOf(e.sn)
    BY <1>4
  <2>4. pdu \in DataPdus
    <3> DEFINE z == SizeOf(e.sn)
    <3>2. z \in Nat /\ 0 < z /\ z <= SizeOf(e.sn) /\ l = txWindow[e.sn].lo + 0
          /\ u = txWindow[e.sn].lo + z - 1
      BY <1>4, <2>3
    <3> HIDE DEF l, u, z
    <3> QED  BY ZenonT(40), <1>3, <1>4, <2>2, <3>2, PduOf
  <2>5. /\ pdu.sn = e.sn /\ pdu.lo = l /\ pdu.hi = u /\ pdu.so = 0 /\ pdu.lsf = TRUE /\ pdu.rf = FALSE
    OBVIOUS
  <2> HIDE DEF pdu
  <2>6. PartOf(pdu, txWindow[pdu.sn]) /\ Whole(pdu)
    BY <1>4, <2>5 DEF PartOf, Whole
  <2> QED  BY <1>3, <2>1, <2>4, <2>5, <2>6
<1>9. CASE RetxSegment(n)
  <2> DEFINE to == IF e.from + n < e.to THEN e.from + n ELSE e.to
             f == [e EXCEPT !.seg = TRUE, !.from = to]
             rest == IF to \in {e.to, SizeOf(e.sn)} THEN Tail(q) ELSE <<f>> \o Tail(q)
             poll == PollRequired(rest, sent)
             lsf == to = SizeOf(e.sn)
             pdu == [sn |-> e.sn, rf |-> TRUE, so |-> e.from, lo |-> l + e.from,
                     hi |-> l + to - 1, lsf |-> lsf, p |-> poll]
  <2>1. SendDown(pdu)
    BY <1>1, <1>9 DEF RetxSegment, q
  <2>2. poll \in BOOLEAN
    BY Polling
  <2> HIDE DEF poll
  <2>3. to \in Nat /\ e.from < to /\ to <= e.to
    BY <1>3, <1>4
  <2> HIDE DEF to, f, rest
  <2>7. lsf \in BOOLEAN /\ (lsf <=> to = SizeOf(e.sn))
    OBVIOUS
  <2> HIDE DEF lsf
  <2>8. pdu \in DataPdus
    <3> DEFINE lo == l + e.from
               hi == l + to - 1
    <3>1. lo = txWindow[e.sn].lo + e.from /\ hi = txWindow[e.sn].lo + to - 1 /\ to <= SizeOf(e.sn)
      BY <1>3, <2>3
    <3> HIDE DEF lo, hi
    <3>2. [sn |-> e.sn, rf |-> TRUE, so |-> e.from, lo |-> lo, hi |-> hi, lsf |-> lsf, p |-> poll]
            \in DataPdus
      BY ZenonT(60), <1>3, <1>4, <2>2, <2>3, <2>7, <3>1, PduOf
    <3> QED  BY <3>2 DEF lo, hi
  <2>9. /\ pdu.sn = e.sn /\ pdu.lo = l + e.from /\ pdu.hi = l + to - 1 /\ pdu.so = e.from
        /\ pdu.lsf = lsf /\ pdu.rf = TRUE
    OBVIOUS
  <2> HIDE DEF pdu
  <2>10. PartOf(pdu, txWindow[pdu.sn])
    BY <1>3, <1>4, <2>3, <2>7, <2>9 DEF PartOf
  <2> QED  BY SMTT(30), <1>3, <2>1, <2>8, <2>9, <2>10
<1> QED  BY <1>8, <1>9

\* A step that leaves alone what is in the windows and what was passed on
Quiet ==
  \/ UNCHANGED vars \/ Sender(ReadNothing) \/ LoseData \/ Report \/ ReceiveStatus \/ LoseStatus
  \/ Sender(WriteSdu) \/ Sender(PollTimerExpires) \/ Sender(StatusNack) \/ Sender(StatusEnd)
  \/ Receiver(ReorderingExpires) \/ Receiver(ProhibitExpires)

SameWindow ==
  \A sn \in Sn : InWindow(sn)' =>
    InWindow(sn) /\ txWindow'[sn].lo = txWindow[sn].lo /\ txWindow'[sn].hi = txWindow[sn].hi

Still ==
  /\ UNCHANGED <<vtA, vtS, sent, vrR, rxWindow, rxSegments, got>>
  /\ SameWindow /\ Carried(down)' \subseteq Carried(down)

LEMMA QuietIsStill ==
  ASSUME IInv, Quiet
  PROVE  Still
<1>1. TxTypes /\ LinkTypes /\ vtA \in Sn
  BY VtAIs DEF IInv, Types
<1>2. ASSUME txWindow' = txWindow
      PROVE  SameWindow
  BY <1>2 DEF SameWindow, InWindow
<1>3. ASSUME NEW sn \in Sn, InWindow(sn), CountRetx(sn)
      PROVE  SameWindow
  BY <1>1, <1>3, CountRetxIs DEF SameWindow
<1>4. ASSUME down' = down
      PROVE  Carried(down)' \subseteq Carried(down)
  BY <1>4 DEF Carried
<1>5. CASE UNCHANGED vars
  BY <1>2, <1>4, <1>5 DEF Still, vars, txVars, rxVars, linkVars
<1>6. CASE Sender(ReadNothing)
  BY <1>2, <1>4, <1>6 DEF Still, Sender, ReadNothing, rxVars, linkVars
<1>7. CASE LoseData
  <2>1. PICK n \in 1 .. Len(down) : down' = Without(down, n)
    BY <1>7 DEF LoseData
  <2>2. Carried(down') \subseteq Carried(down)
    BY <1>1, <2>1, WithoutCarries DEF LinkTypes
  <2>3. Carried(down)' \subseteq Carried(down)
    BY <2>2 DEF Carried
  <2> QED  BY <1>2, <1>7, <2>3 DEF Still, LoseData, txVars, rxVars
<1>8. CASE Report
  BY <1>2, <1>4, <1>8 DEF Still, Report, SendStatus, txVars
<1>9. CASE ReceiveStatus
  BY <1>2, <1>4, <1>9 DEF Still, ReceiveStatus, StatusBegin, rxVars
<1>10. CASE LoseStatus
  BY <1>2, <1>4, <1>10 DEF Still, LoseStatus, txVars, rxVars
<1>11. CASE Sender(WriteSdu)
  BY <1>2, <1>4, <1>11 DEF Still, Sender, WriteSdu, rxVars, linkVars
<1>12. CASE Sender(PollTimerExpires)
  <2>1. SameWindow
    BY <1>1, <1>2, <1>3, <1>12 DEF Sender, PollTimerExpires
  <2> QED  BY <1>4, <1>12, <2>1 DEF Still, Sender, PollTimerExpires, rxVars, linkVars
<1>13. CASE Sender(StatusNack)
  <2>1. ctl.i \in Sn
    BY <1>1 DEF TxTypes, Ctls
  <2>2. SameWindow
    BY <1>2, <1>3, <1>13, <2>1 DEF Sender, StatusNack
  <2> QED  BY <1>4, <1>13, <2>2 DEF Still, Sender, StatusNack, rxVars, linkVars
<1>14. CASE Sender(StatusEnd)
  BY <1>2, <1>4, <1>14 DEF Still, Sender, StatusEnd, rxVars, linkVars
<1>15. CASE Receiver(ReorderingExpires)
  BY <1>2, <1>4, <1>15 DEF Still, Receiver, ReorderingExpires, txVars, linkVars
<1>16. CASE Receiver(ProhibitExpires)
  BY <1>2, <1>4, <1>16 DEF Still, Receiver, ProhibitExpires, txVars, linkVars
<1> QED
  BY <1>5, <1>6, <1>7, <1>8, <1>9, <1>10, <1>11, <1>12, <1>13, <1>14, <1>15, <1>16 DEF Quiet

LEMMA StillKeepsContent ==
  ASSUME ContentInv, Still
  PROVE  ContentInv'
<1>1. PICK P \in [Sn -> Intervals] : \E a, r, s \in Int : Content(P, a, r, s)
  BY DEF ContentInv
<1>2. PICK a \in Int, r \in Int, s \in Int : Content(P, a, r, s)
  BY <1>1
<1>3. Content(P, a, r, s)'
  BY <1>2, ContentStays DEF Still, SameWindow
<1> QED  BY <1>3 DEF ContentInv

LEMMA RetxKeepsContent ==
  ASSUME IInv, ContentInv, UNCHANGED rxVars, NEW n \in Grants, RetxWhole(n) \/ RetxSegment(n)
  PROVE  ContentInv'
<1>1. TxTypes /\ QueueFits /\ LinkTypes /\ vtA \in Sn /\ n \in Nat \ {0}
  BY VtAIs, GrantsAssumption DEF IInv, Types
<1>2. PICK x \in DataPdus :
        /\ SendDown(x) /\ InWindow(x.sn)
        /\ PartOf(x, txWindow[x.sn]) /\ (~ x.rf => Whole(x))
  BY <1>1, RetxIsPart
<1>3. CountReadRetx /\ UNCHANGED <<sent, vtA, vtS>>
  BY DEF RetxWhole, RetxSegment
<1>4. SameWindow
  BY <1>1, <1>3, CountReadRetxIs DEF SameWindow
<1>5. Carried(down') \subseteq Carried(down) \cup {x}
  <2>1. down \in Seq([pdu : DataPdus, late : BOOLEAN]) /\ down' \in Sent(down, x)
    BY <1>1, <1>2 DEF LinkTypes, SendDown
  <2> QED  BY <2>1, SentCarries
<1>6. Carried(down)' = Carried(down')
  BY DEF Carried
<1>7. x.sn \in Sn
  BY DEF DataPdus, Pdus
<1>8. \A y \in Carried(down)' :
        \/ y \in Carried(down)
        \/ y.sn \in Sn /\ InWindow(y.sn) /\ PartOf(y, txWindow[y.sn]) /\ (~ y.rf => Whole(y))
  BY <1>2, <1>5, <1>6, <1>7
<1>9. PICK P \in [Sn -> Intervals] : \E a, r, s \in Int : Content(P, a, r, s)
  BY DEF ContentInv
<1>10. PICK a \in Int, r \in Int, s \in Int : Content(P, a, r, s)
  BY <1>9
<1>11. UNCHANGED <<vtA, vtS, sent, vrR, rxWindow, got>> /\ rxSegments' = rxSegments
  BY <1>3 DEF rxVars
<1>12. Content(P, a, r, s)'
  BY <1>4, <1>8, <1>10, <1>11, ContentStays DEF SameWindow
<1> QED  BY <1>12 DEF ContentInv

\* What a new PDU is
LEMMA NewPduIs ==
  ASSUME TxTypes, NEW t \in Sn, vtS = t, NEW n \in Nat \ {0}, NewPdu(n)
  PROVE  \E hi \in Nat : \E x \in DataPdus :
           /\ sent + 1 <= hi /\ sent' = hi /\ ~ WindowFull /\ vtA' = vtA /\ vtS' = (t + 1) % Mod
           /\ txWindow'[t].lo = sent + 1 /\ txWindow'[t].hi = hi
           /\ \A y \in Sn : y # t => txWindow'[y] = txWindow[y]
           /\ SendDown(x) /\ x.sn = t /\ x.lo = sent + 1 /\ x.hi = hi /\ Whole(x)
<1> DEFINE hi == IF sent + n < written THEN sent + n ELSE written
           poll == PollRequired(<< >>, hi)
           new == [lo |-> sent + 1, hi |-> hi, retx |-> 0]
           pdu == [sn |-> vtS, rf |-> FALSE, so |-> 0, lo |-> sent + 1, hi |-> hi,
                   lsf |-> TRUE, p |-> poll]
<1>1. /\ sent < written /\ ~ WindowFull /\ SendDown(pdu) /\ sent' = hi
      /\ txWindow' = [txWindow EXCEPT ![vtS] = new]
      /\ vtS' = (vtS + 1) % Mod /\ vtA' = vtA
  BY DEF NewPdu
<1>2. poll \in BOOLEAN
  BY Polling
<1> HIDE DEF poll
<1>3. /\ written \in Nat /\ written <= Total /\ sent \in Nat /\ Total \in Nat
  BY EndsAre DEF TxTypes
<1>4. /\ hi \in Nat /\ sent + 1 <= hi /\ hi <= written
  BY <1>1, <1>3
<1> HIDE DEF hi
<1>5. pdu \in DataPdus
  <2>1. 0 \in 0 .. Total - 1 /\ sent + 1 \in Piece /\ hi \in Piece /\ sent + 1 <= hi
    BY <1>3, <1>4 DEF Piece
  <2> QED  BY <1>2, <2>1 DEF DataPdus, Pdus
<1>6. pdu.sn = t /\ pdu.lo = sent + 1 /\ pdu.hi = hi /\ Whole(pdu)
  BY DEF Whole
<1> HIDE DEF pdu
<1>7. txWindow \in [Sn -> [lo : Nat, hi : Nat, retx : Nat]]
  BY DEF TxTypes
<1>8. /\ txWindow'[t].lo = sent + 1 /\ txWindow'[t].hi = hi
      /\ \A y \in Sn : y # t => txWindow'[y] = txWindow[y]
  BY <1>1, <1>7
<1> QED  BY <1>1, <1>4, <1>5, <1>6, <1>8

LEMMA NewPduKeepsContent ==
  ASSUME IInv, ContentInv, UNCHANGED rxVars, NEW n \in Grants, NewPdu(n)
  PROVE  ContentInv'
<1>1. PICK a, s, r, h, m, i, k, e \in Int : \E U \in SUBSET Reports : \E D \in SUBSET U :
        Core(a, s, r, h, m, i, k, e, U, D)
  BY DEF IInv
<1>2. Frame(a, s, r, h, m) /\ RxHolds(r, h, m) /\ DownIsRecent(s)
  BY <1>1 DEF Core
<1>3. PICK P \in [Sn -> Intervals] : Content(P, a, r, s)
  BY <1>2, ContentOf
<1>4. TxTypes /\ LinkTypes /\ sent \in Nat /\ n \in Nat \ {0}
  BY GrantsAssumption, EndsAre DEF IInv, Types, TxTypes
<1> DEFINE t == SnOf(s)
<1>5. /\ vtA = SnOf(a) /\ vtS = t /\ vrR = SnOf(r) /\ a <= r /\ r <= h /\ h <= s /\ s <= a + Window
      /\ Window \in Nat /\ Window + 2 <= Mod /\ Mod \in Nat
  BY <1>2, FrameBounds, Constants DEF Frame
<1>6. t \in Sn /\ (t + 1) % Mod = SnOf(s + 1) /\ \A j \in Int : SnOf(j) \in Sn
  BY SnOfIs, SnPlus
<1> HIDE DEF t
<1>7. PICK hi \in Nat, x \in DataPdus :
        /\ sent + 1 <= hi /\ sent' = hi /\ ~ WindowFull /\ vtA' = vtA /\ vtS' = (t + 1) % Mod
        /\ txWindow'[t].lo = sent + 1 /\ txWindow'[t].hi = hi
        /\ \A y \in Sn : y # t => txWindow'[y] = txWindow[y]
        /\ SendDown(x) /\ x.sn = t /\ x.lo = sent + 1 /\ x.hi = hi /\ Whole(x)
  BY <1>4, <1>5, <1>6, NewPduIs
<1>8. s < a + Window
  <2>1. Offset(vtS) = s - a
    BY <1>5, OffsetIs DEF t
  <2> QED  BY <1>5, <1>7, <2>1 DEF WindowFull
<1>9. PICK Q \in [Sn -> Intervals] :
        Q[t].lo = sent + 1 /\ Q[t].hi = hi /\ \A y \in Sn : y # t => Q[y] = P[y]
  <2> DEFINE c == [lo |-> sent + 1, hi |-> hi]
  <2>1. c \in Intervals /\ c.lo = sent + 1 /\ c.hi = hi
    BY <1>4 DEF Intervals
  <2> HIDE DEF c
  <2>2. [P EXCEPT ![t] = c] \in [Sn -> Intervals]
    BY <2>1
  <2>3. [P EXCEPT ![t] = c][t] = c /\ \A y \in Sn : y # t => [P EXCEPT ![t] = c][y] = P[y]
    BY <1>6
  <2> QED  BY <2>1, <2>2, <2>3
<1>10. \A j \in Int : s - Window <= j /\ j < s => SnOf(j) # t
  <2> SUFFICES ASSUME NEW j \in Int, s - Window <= j, j < s PROVE SnOf(j) # t
    OBVIOUS
  <2>1. j - s < Mod /\ s - j < Mod /\ j # s
    BY <1>5
  <2> QED  BY <2>1, SnUnique DEF t
<1>11. \A j \in a .. s : SnOf(j) # SnOf(s + 1)
  <2> SUFFICES ASSUME NEW j \in a .. s PROVE SnOf(j) # SnOf(s + 1)
    OBVIOUS
  <2>1. s + 1 \in Int /\ j \in Int /\ j - (s + 1) < Mod /\ (s + 1) - j < Mod /\ j # s + 1
    BY <1>5
  <2> QED  BY <2>1, SnUnique
<1>12. \A j \in a .. s - 1 : Q[SnOf(j)] = P[SnOf(j)] /\ SnOf(j) # t
  BY <1>5, <1>6, <1>9, <1>10
<1>13. vtS' = SnOf(s + 1)
  BY <1>6, <1>7
<1>14. ASSUME NEW j \in a .. s
       PROVE  First(Q, SnOf(j))' = First(P, SnOf(j))
  <2>1. First(Q, SnOf(j))' = Q[SnOf(j)].lo
    BY <1>11, <1>13 DEF First
  <2>2. CASE j = s
    BY <1>5, <1>9, <2>1, <2>2 DEF First, t
  <2>3. CASE j # s
    <3>1. j \in a .. s - 1
      BY <2>3
    <3> QED  BY <1>5, <1>12, <2>1, <3>1 DEF First
  <2> QED  BY <2>2, <2>3
<1>15. First(Q, SnOf(s + 1))' = hi + 1
  BY <1>7, <1>13 DEF First
<1>16. Follow(Q, a, s + 1)'
  <2> SUFFICES ASSUME NEW j \in a .. s
               PROVE  /\ 1 <= Q[SnOf(j)].lo /\ Q[SnOf(j)].lo <= Q[SnOf(j)].hi
                      /\ Q[SnOf(j)].hi + 1 = First(Q, SnOf(j + 1))'
    BY DEF Follow
  <2>1. CASE j = s
    BY <1>4, <1>7, <1>9, <1>15, <2>1 DEF t
  <2>2. CASE j # s
    <3>1. j \in a .. s - 1 /\ j + 1 \in a .. s
      BY <2>2
    <3>2. 1 <= P[SnOf(j)].lo /\ P[SnOf(j)].lo <= P[SnOf(j)].hi /\ P[SnOf(j)].hi + 1 = First(P, SnOf(j + 1))
      BY <1>3, <3>1 DEF Content, Follow
    <3> QED  BY <1>12, <1>14, <3>1, <3>2
  <2> QED  BY <2>1, <2>2
<1>17. \A y \in Sn : InWindow(y)' => SameAs(txWindow'[y], Q[y])
  <2> SUFFICES ASSUME NEW y \in Sn, InWindow(y)' PROVE SameAs(txWindow'[y], Q[y])
    OBVIOUS
  <2>1. CASE y = t
    BY <1>7, <1>9, <2>1 DEF SameAs
  <2>2. CASE y # t
    <3>1. txWindow'[y] = txWindow[y] /\ Q[y] = P[y]
      BY <1>7, <1>9, <2>2
    <3> QED  BY <1>3, <3>1 DEF Content, InWindow
  <2> QED  BY <2>1, <2>2
<1>18. ASSUME NEW y \in Carried(down)'
       PROVE  PartOf(y, Q[y.sn]) /\ (~ y.rf => Whole(y))
  <2>1. y \in Carried(down) \cup {x}
    <3>1. down \in Seq([pdu : DataPdus, late : BOOLEAN]) /\ down' \in Sent(down, x)
      BY <1>4, <1>7 DEF LinkTypes, SendDown
    <3>2. Carried(down') \subseteq Carried(down) \cup {x}
      BY <3>1, SentCarries
    <3> QED  BY <3>2 DEF Carried
  <2>2. CASE y = x
    <3>1. PartOf(y, Q[t])
      BY <1>4, <1>7, <1>9, <2>2 DEF PartOf, Whole
    <3> QED  BY <1>7, <2>2, <3>1
  <2>3. CASE y \in Carried(down)
    <3>1. PICK d \in s - Window .. s - 1 : y.sn = SnOf(d)
      BY <1>2, <2>3 DEF DownIsRecent
    <3>2. d \in Int /\ s - Window <= d /\ d < s
      BY <1>5
    <3>3. y.sn # t /\ y.sn \in Sn
      BY <1>6, <1>10, <3>1, <3>2
    <3>4. Q[y.sn] = P[y.sn]
      BY <1>9, <3>3
    <3> QED  BY <1>3, <2>3, <3>4 DEF Content
  <2> QED  BY <2>1, <2>2, <2>3
<1>19. \A y \in Sn : rxWindow'[y] # None => SameAs(rxWindow'[y], Q[y])
  <2> SUFFICES ASSUME NEW y \in Sn, rxWindow[y] # None PROVE SameAs(rxWindow[y], Q[y])
    BY DEF rxVars
  <2>1. PICK j \in r .. h - 1 : y = SnOf(j)
    BY <1>2 DEF RxHolds
  <2>2. j \in a .. s - 1
    BY <1>5
  <2>3. Q[y] = P[y]
    BY <1>12, <2>1, <2>2
  <2> QED  BY <1>3, <2>3 DEF Content
<1>20. ASSUME NEW y \in Sn, NEW g \in rxSegments'[y]
       PROVE  PartOf(g, Q[y]) /\ \E j \in r .. s + 1 - 1 : y = SnOf(j)
  <2>1. g \in rxSegments[y]
    BY <1>20 DEF rxVars
  <2>2. PartOf(g, P[y]) /\ \E j \in r .. s - 1 : y = SnOf(j)
    BY <1>3, <2>1 DEF Content
  <2>3. PICK j \in r .. s - 1 : y = SnOf(j)
    BY <2>2
  <2>4. j \in a .. s - 1 /\ j \in r .. s + 1 - 1
    BY <1>5
  <2> QED  BY <1>12, <2>2, <2>3, <2>4
<1>21. got' = [z \in 1 .. First(Q, vrR)' - 1 |-> z]
  <2>1. r \in a .. s
    BY <1>5
  <2>2. First(Q, vrR)' = First(P, vrR)
    BY <1>5, <1>14, <2>1 DEF rxVars, First
  <2>3. got = [z \in 1 .. First(P, vrR) - 1 |-> z] /\ got' = got
    BY <1>3 DEF Content, rxVars
  <2> QED  BY <2>2, <2>3
<1>22. Places(a, r, s + 1)'
  BY <1>5, <1>7, <1>8, <1>13 DEF Places, rxVars
<1>23. Content(Q, a, r, s + 1)'
  BY <1>16, <1>17, <1>18, <1>19, <1>20, <1>21, <1>22 DEF Content
<1>24. s + 1 \in Int
  OBVIOUS
<1> QED  BY <1>9, <1>23, <1>24 DEF ContentInv

-----------------------------------------------------------------------------
(* What is acknowledged has arrived                                        *)

LEMMA AckArrived ==
  ASSUME NEW a \in Int, NEW s \in Int, NEW r \in Int, NEW h \in Int, NEW m \in Int,
         NEW i \in Int, NEW k \in Int, NEW e \in Int,
         NEW U \in SUBSET Reports, NEW D \in SUBSET U, Core(a, s, r, h, m, i, k, e, U, D),
         ctl.active, StatusGoesOn, ctl.i \notin ctl.nacks
  PROVE  /\ ctl.i = SnOf(i) /\ i \in a .. s - 1 /\ (ctl.advance => i = a)
         /\ \A j \in a .. s - 1 : SnOf(j) = ctl.i \/ ~ InWindow(SnOf(j)) => j \in Held(r, h)
<1>1. /\ Frame(a, s, r, h, m) /\ ReportsTrue(a, s, r, h, U)
      /\ TxHolds(a, s, i, k, e, D) /\ CtlHolds(a, s, i, k, e, D)
  BY DEF Core
<1>2. vtA = SnOf(a) /\ a <= s /\ s <= a + Window /\ Window + 2 <= Mod /\ Window \in Nat /\ Mod \in Nat
  BY <1>1, FrameBounds, Constants DEF Frame
<1>3. i < k /\ i < e
  BY <1>1, <1>2, GoesOnIs
<1>4. /\ ctl.i = SnOf(i) /\ a <= i /\ e <= s
      /\ \A j \in i .. e - 1 : InHand(j, k, e) => AckedBy(D, j)
      /\ ctl.advance => i = a
  BY <1>1 DEF CtlHolds
<1>5. i \in a .. s - 1 /\ i \in i .. e - 1
  BY <1>3, <1>4
<1>6. AckedBy(D, i)
  BY <1>3, <1>4, <1>5 DEF InHand
<1>7. \A j \in Int : AckedBy(D, j) => j \in Held(r, h)
  BY <1>1 DEF AckedBy, Acks, ReportsTrue
<1>8. ASSUME NEW j \in a .. s - 1, SnOf(j) = ctl.i \/ ~ InWindow(SnOf(j))
      PROVE  j \in Held(r, h)
  <2>1. CASE SnOf(j) = ctl.i
    <3>1. SnOf(j) = SnOf(i) /\ j - i < Mod /\ i - j < Mod /\ j \in Int
      BY <2>1, <1>2, <1>4, <1>5
    <3>2. j = i
      BY <3>1, SnUnique
    <3> QED  BY <3>2, <1>6, <1>7
  <2>2. CASE ~ InWindow(SnOf(j))
    BY <2>2, <1>1, <1>7 DEF TxHolds
  <2> QED  BY <1>8, <2>1, <2>2
<1> QED  BY <1>4, <1>5, <1>8

\* The receiver has all the pieces of the PDUs that it has.
LEMMA HeldPdu ==
  ASSUME NEW P \in [Sn -> Intervals],
         NEW a \in Int, NEW s \in Int, NEW r \in Int, NEW h \in Int, NEW m \in Int,
         Frame(a, s, r, h, m), RxHolds(r, h, m), Content(P, a, r, s), sent \in Nat,
         NEW j \in a .. s - 1, j \in Held(r, h),
         NEW p \in Int, P[SnOf(j)].lo <= p, p <= P[SnOf(j)].hi
  PROVE  p \in HeldPieces
<1>1. /\ a <= r /\ r <= h /\ h <= s /\ a <= s /\ s <= a + Window
      /\ vrR = SnOf(r) /\ vtS = SnOf(s)
  BY FrameBounds DEF Frame
<1> DEFINE B(x) == First(P, SnOf(x))
<1>2. /\ \A x \in a .. s : B(x) \in Int
      /\ \A x \in a .. s - 1 : /\ P[SnOf(x)].lo \in Nat /\ P[SnOf(x)].hi \in Nat
                               /\ B(x) = P[SnOf(x)].lo /\ B(x + 1) = P[SnOf(x)].hi + 1
                               /\ 1 <= P[SnOf(x)].lo
      /\ \A x, y \in a .. s : x < y => B(x) < B(y)
  <2>1. Follow(P, a, s)
    BY DEF Content
  <2> QED  BY <1>1, <2>1, BordersRise
<1>3. B(r) = First(P, vrR)
  BY <1>1
<1> HIDE DEF B
<1>4. CASE j < r
  <2>1. j + 1 \in a .. s /\ r \in a .. s /\ (j + 1 = r \/ j + 1 < r)
    BY <1>1, <1>4
  <2>2. B(j + 1) <= B(r)
    BY <1>2, <2>1
  <2>3. 1 <= p /\ p < First(P, vrR)
    BY <1>2, <1>3, <2>1, <2>2
  <2> QED  BY <2>3, HeldIs
<1>5. CASE ~ (j < r)
  <2>1. j \in FirstSn .. h - 1 /\ rxWindow[SnOf(j)] # None
    BY <1>5 DEF Held
  <2>2. j \in r .. h - 1
    BY <1>1, <1>5, <2>1, Constants
  <2> QED  BY <2>1, <2>2, HeldIs
<1> QED  BY <1>4, <1>5

LEMMA FullyAckedArrived ==
  ASSUME IInv, ContentInv, ctl.active, StatusGoesOn, ctl.i \notin ctl.nacks
  PROVE  FullyAcked(ctl.i) \subseteq Received
<1>1. PICK a, s, r, h, m, i, k, e \in Int : \E U \in SUBSET Reports : \E D \in SUBSET U :
        Core(a, s, r, h, m, i, k, e, U, D)
  BY DEF IInv
<1>2. PICK U \in SUBSET Reports : \E D \in SUBSET U : Core(a, s, r, h, m, i, k, e, U, D)
  BY <1>1
<1>3. PICK D \in SUBSET U : Core(a, s, r, h, m, i, k, e, U, D)
  BY <1>2
<1>4. Frame(a, s, r, h, m) /\ RxHolds(r, h, m)
  BY <1>3 DEF Core
<1>5. PICK P \in [Sn -> Intervals] : Content(P, a, r, s)
  BY <1>4, ContentOf
<1>6. \A j \in a .. s - 1 : SnOf(j) = ctl.i \/ ~ InWindow(SnOf(j)) => j \in Held(r, h)
  BY <1>3, AckArrived
<1>7. sent \in Nat
  BY EndsAre DEF IInv, Types, TxTypes
<1>8. /\ a <= r /\ r <= s /\ a <= s /\ s <= a + Window /\ vrR = SnOf(r) /\ vtS = SnOf(s)
      /\ Follow(P, a, s)
  BY <1>4, <1>5, FrameBounds DEF Frame, Content
<1>9. First(P, SnOf(a)) \in Int /\ First(P, SnOf(a)) <= First(P, vrR) /\ First(P, vrR) \in Int
  <2> DEFINE B(x) == First(P, SnOf(x))
  <2>1. /\ \A z \in a .. s : B(z) \in Int /\ \A x, y \in a .. s : x < y => B(x) < B(y)
    BY <1>7, <1>8, BordersRise
  <2>2. B(a) = First(P, SnOf(a)) /\ B(r) = First(P, vrR)
    BY <1>8
  <2> HIDE DEF B
  <2>3. a \in a .. s /\ r \in a .. s /\ (a = r \/ a < r)
    BY <1>8
  <2> QED  BY <2>1, <2>2, <2>3
<1>10. \A sn \in Sn : InWindow(sn) => txWindow[sn].lo = P[sn].lo /\ txWindow[sn].hi = P[sn].hi
  BY <1>5 DEF Content, SameAs
<1> SUFFICES ASSUME NEW end \in FullyAcked(ctl.i), NEW p \in Piece, EndOf[p] = end
             PROVE  p \in HeldPieces
  <2>1. FullyAcked(ctl.i) \subseteq Ends
    BY DEF FullyAcked
  <2> QED  BY <2>1, ReceivedIs
<1>11. /\ end \in Ends /\ end <= sent
       /\ \A x \in Sn \ {ctl.i} : InWindow(x) => \A y \in txWindow[x].lo .. txWindow[x].hi : EndOf[y] # end
  BY DEF FullyAcked
<1>12. p \in Int /\ 1 <= p /\ p <= sent
  <2>1. p \in Piece /\ p <= end /\ end \in Piece
    BY <1>11, EndsAre
  <2>2. p \in Int /\ end \in Int /\ 1 <= p
    BY <2>1, EndsAre DEF Piece
  <2> QED  BY <1>7, <1>11, <2>1, <2>2
<1>13. CASE p < First(P, SnOf(a))
  <2>1. 1 <= p /\ p < First(P, vrR)
    BY <1>9, <1>12, <1>13
  <2> QED  BY <2>1, <1>4, <1>5, <1>7, <1>12, HeldIs
<1>14. CASE ~ (p < First(P, SnOf(a)))
  <2>1. First(P, SnOf(a)) <= p
    BY <1>9, <1>12, <1>14
  <2>2. PICK j \in a .. s - 1 : P[SnOf(j)].lo <= p /\ p <= P[SnOf(j)].hi
    BY <2>1, <1>7, <1>8, <1>12, PieceHasPdu
  <2>3. SnOf(j) \in Sn /\ P[SnOf(j)].lo \in Nat /\ P[SnOf(j)].hi \in Nat
    <3>1. SnOf(j) \in Sn
      BY SnOfIs
    <3> QED  BY <3>1 DEF Intervals
  <2>4. SnOf(j) = ctl.i \/ ~ InWindow(SnOf(j))
    <3> SUFFICES ASSUME SnOf(j) # ctl.i, InWindow(SnOf(j)) PROVE FALSE
      OBVIOUS
    <3>1. p \in txWindow[SnOf(j)].lo .. txWindow[SnOf(j)].hi
      BY <1>10, <1>12, <2>2, <2>3
    <3> QED  BY <1>11, <2>3, <3>1
  <2>5. j \in Held(r, h)
    BY <1>6, <2>4
  <2> QED  BY <1>4, <1>5, <1>7, <1>12, <2>2, <2>5, HeldPdu
<1> QED  BY <1>13, <1>14

LEMMA StatusAckKeepsContent ==
  ASSUME IInv, ContentInv, Sender(StatusAck)
  PROVE  ContentInv'
<1>1. PICK a, s, r, h, m, i, k, e \in Int : \E U \in SUBSET Reports : \E D \in SUBSET U :
        Core(a, s, r, h, m, i, k, e, U, D)
  BY DEF IInv
<1>2. PICK U \in SUBSET Reports : \E D \in SUBSET U : Core(a, s, r, h, m, i, k, e, U, D)
  BY <1>1
<1>3. PICK D \in SUBSET U : Core(a, s, r, h, m, i, k, e, U, D)
  BY <1>2
<1>4. Frame(a, s, r, h, m) /\ RxHolds(r, h, m)
  BY <1>3 DEF Core
<1>5. PICK P \in [Sn -> Intervals] : Content(P, a, r, s)
  BY <1>4, ContentOf
<1>6. UNCHANGED rxVars /\ UNCHANGED linkVars /\ StatusAck
  BY DEF Sender
<1>7. /\ ctl.active /\ StatusGoesOn /\ ctl.i \notin ctl.nacks
      /\ vtA' = (IF ctl.advance THEN (vtA + 1) % Mod ELSE vtA)
      /\ txWindow' = [txWindow EXCEPT ![ctl.i] = NoPdu]
      /\ UNCHANGED <<vtS, sent>>
  BY <1>6 DEF StatusAck
<1>8. /\ ctl.i = SnOf(i) /\ i \in a .. s - 1 /\ (ctl.advance => i = a)
      /\ \A j \in a .. s - 1 : SnOf(j) = ctl.i \/ ~ InWindow(SnOf(j)) => j \in Held(r, h)
  BY <1>3, <1>7, AckArrived
<1>9. vtA = SnOf(a) /\ vrR = SnOf(r) /\ vtS = SnOf(s) /\ a <= r /\ r <= s /\ s <= a + Window
  BY <1>5 DEF Content, Places
<1>10. PICK b \in Int : vtA' = SnOf(b) /\ a <= b /\ b <= r /\ s <= b + Window
  <2>1. CASE ~ ctl.advance
    BY <1>7, <1>9, <2>1
  <2>2. CASE ctl.advance
    <3>1. a \in Held(r, h)
      BY <1>8, <2>2
    <3>2. a # r
      BY <1>4, <3>1 DEF Held, RxHolds
    <3>3. a + 1 \in Int /\ a <= a + 1 /\ a + 1 <= r /\ s <= a + 1 + Window
      BY <1>9, <3>2, Constants
    <3>4. vtA' = SnOf(a + 1)
      BY <1>7, <1>9, <2>2, SnPlus
    <3> QED  BY <3>3, <3>4
  <2> QED  BY <2>1, <2>2
<1>11. Places(b, r, s)'
  BY <1>6, <1>7, <1>9, <1>10 DEF Places, rxVars
<1>12. \A sn : First(P, sn)' = First(P, sn)
  BY <1>7 DEF First
<1>13. Follow(P, b, s)'
  <2>1. \A j \in b .. s - 1 : j \in a .. s - 1
    BY <1>10
  <2> QED  BY <1>5, <1>12, <2>1 DEF Content, Follow
<1>14. \A sn \in Sn : InWindow(sn)' => SameAs(txWindow'[sn], P[sn])
  <2>1. \A sn \in Sn : InWindow(sn)' => InWindow(sn) /\ txWindow'[sn] = txWindow[sn]
    BY <1>7 DEF InWindow, IInv, Types, TxTypes
  <2> QED  BY <1>5, <2>1 DEF Content
<1>15. Carried(down)' = Carried(down)
  BY <1>6 DEF linkVars, Carried
<1>16. got' = [n \in 1 .. First(P, vrR)' - 1 |-> n]
  BY <1>5, <1>6, <1>12 DEF Content, rxVars
<1>17. Content(P, b, r, s)'
  BY <1>5, <1>6, <1>11, <1>13, <1>14, <1>15, <1>16 DEF Content, rxVars
<1> QED  BY <1>17 DEF ContentInv

LEMMA HeldPiecesStay ==
  ASSUME UNCHANGED <<rxWindow, got>>
  PROVE  HeldPieces' = HeldPieces /\ Received' = Received
BY DEF HeldPieces, Received

LEMMA StatusAckKeepsConfirm ==
  ASSUME IInv, ContentInv, ConfirmInv, Sender(StatusAck)
  PROVE  ConfirmInv'
<1>1. UNCHANGED rxVars /\ StatusAck
  BY DEF Sender
<1>2. /\ ctl.active /\ StatusGoesOn /\ ctl.i \notin ctl.nacks /\ confirmed' = confirmed
      /\ ctl' = [ctl EXCEPT !.i = (@ + 1) % Mod,
                   !.acked = @ \cup IF InWindow(ctl.i) THEN FullyAcked(ctl.i) ELSE {}]
  BY <1>1 DEF StatusAck
<1>3. Received' = Received
  BY <1>1, HeldPiecesStay DEF rxVars
<1>4. FullyAcked(ctl.i) \subseteq Received
  BY <1>2, FullyAckedArrived
<1>5. ctl'.acked \subseteq ctl.acked \cup FullyAcked(ctl.i)
  <2>1. ctl \in Ctls
    BY DEF IInv, Types, TxTypes
  <2> QED  BY <1>2, <2>1 DEF Ctls
<1> QED  BY <1>2, <1>3, <1>4, <1>5 DEF ConfirmInv

LEMMA QuietKeepsConfirm ==
  ASSUME IInv, ConfirmInv, Quiet
  PROVE  ConfirmInv'
<1>1. Received' = Received
  BY QuietIsStill, HeldPiecesStay DEF Still
<1>2. ctl \in Ctls
  BY DEF IInv, Types, TxTypes
<1>3. confirmed' \subseteq confirmed \cup ctl.acked /\ ctl'.acked \subseteq ctl.acked
  <2>1. CASE UNCHANGED vars
    BY <2>1 DEF vars, txVars
  <2>2. CASE Sender(ReadNothing)
    BY <2>2 DEF Sender, ReadNothing
  <2>3. CASE LoseData \/ Report \/ LoseStatus \/ Receiver(ReorderingExpires) \/ Receiver(ProhibitExpires)
    BY <2>3 DEF LoseData, Report, LoseStatus, Receiver, txVars
  <2>4. CASE ReceiveStatus
    BY <2>4 DEF ReceiveStatus, StatusBegin
  <2>5. CASE Sender(WriteSdu)
    BY <2>5 DEF Sender, WriteSdu
  <2>6. CASE Sender(PollTimerExpires)
    BY <2>6 DEF Sender, PollTimerExpires
  <2>7. CASE Sender(StatusNack)
    BY <1>2, <2>7 DEF Sender, StatusNack, Ctls
  <2>8. CASE Sender(StatusEnd)
    BY <2>8 DEF Sender, StatusEnd, NoCtl
  <2> QED  BY <2>1, <2>2, <2>3, <2>4, <2>5, <2>6, <2>7, <2>8 DEF Quiet
<1> QED  BY <1>1, <1>3 DEF ConfirmInv

-----------------------------------------------------------------------------
(* Reassembly                                                              *)

UpTo(n) == [k \in 1 .. n |-> k]

LEMMA PiecesFollow ==
  ASSUME NEW lo \in Nat \ {0}, NEW hi \in Nat, lo <= hi, NEW c, c.lo = lo, c.hi = hi
  PROVE  UpTo(lo - 1) \o PiecesOf(c) = UpTo(hi)
<1> DEFINE q == UpTo(lo - 1)
           t == PiecesOf(c)
           x == q \o t
<1>1. lo - 1 \in Nat /\ hi - lo + 1 \in Nat
  OBVIOUS
<1>2. q \in Seq(Nat) /\ Len(q) = lo - 1 /\ \A k \in 1 .. lo - 1 : q[k] = k
  BY <1>1, UpToIs DEF UpTo
<1>3. t \in Seq(Nat) /\ Len(t) = hi - lo + 1 /\ \A k \in 1 .. hi - lo + 1 : t[k] = lo + k - 1
  <2>1. t = [k \in 1 .. hi - lo + 1 |-> lo + k - 1]
    BY DEF PiecesOf
  <2> HIDE DEF t
  <2> DEFINE n == hi - lo + 1
  <2>2. n \in Nat /\ t = [k \in 1 .. n |-> lo + k - 1]
    BY <1>1, <2>1
  <2> HIDE DEF n
  <2>3. \A k \in 1 .. n : lo + k - 1 \in Nat
    <3>1. \A k \in 1 .. n : k \in Nat /\ 1 <= k
      BY <2>2
    <3> QED  BY <3>1
  <2>4. t \in Seq(Nat) /\ Len(t) = n /\ \A k \in 1 .. n : t[k] = lo + k - 1
    BY <2>2, <2>3
  <2> QED  BY <2>4 DEF n
<1>4. x = q \o t
  OBVIOUS
<1> HIDE DEF q, t, x
<1>5. /\ x \in Seq(Nat) /\ Len(x) = Len(q) + Len(t)
      /\ \A n \in 1 .. Len(q) : x[n] = q[n]
      /\ \A n \in 1 .. Len(t) : x[Len(q) + n] = t[n]
  <2>1. q \in Seq(Nat) /\ t \in Seq(Nat)
    BY <1>2, <1>3
  <2> QED  BY <1>4, <2>1, JoinOf
<1>6. Len(x) = hi
  BY <1>2, <1>3, <1>5
<1>7. \A n \in 1 .. hi : x[n] = n
  <2> SUFFICES ASSUME NEW n \in 1 .. hi PROVE x[n] = n
    OBVIOUS
  <2>1. CASE n < lo
    <3>1. n \in 1 .. Len(q) /\ n \in 1 .. lo - 1
      BY <1>2, <2>1
    <3> QED  BY <1>2, <1>5, <3>1
  <2>2. CASE ~ (n < lo)
    <3> DEFINE y == n - lo + 1
    <3>1. y \in 1 .. Len(t) /\ y \in 1 .. hi - lo + 1 /\ Len(q) + y = n /\ lo + y - 1 = n
      BY <1>2, <1>3, <2>2
    <3> HIDE DEF y
    <3> QED  BY <1>3, <1>5, <3>1
  <2> QED  BY <2>1, <2>2
<1>8. x = UpTo(hi)
  <2>1. x = [k \in 1 .. Len(x) |-> x[k]]
    BY <1>5
  <2>2. x = [k \in 1 .. hi |-> x[k]]
    BY <1>6, <2>1
  <2> QED  BY <1>7, <2>2 DEF UpTo
<1> QED  BY <1>8 DEF q, t, x

\* n PDUs from vr_r on follow each other: what is reassembled is got and they.
LEMMA ReassembledIs ==
  ASSUME NEW win, NEW n \in Nat, NEW r \in Int, vrR = SnOf(r), NEW B,
         \A k \in 0 .. n : B[k] \in Nat \ {0},
         \A k \in 0 .. n - 1 :
           /\ win[SnOf(r + k)].lo = B[k] /\ win[SnOf(r + k)].hi + 1 = B[k + 1]
           /\ win[SnOf(r + k)].hi \in Nat /\ B[k] <= win[SnOf(r + k)].hi,
         got = UpTo(B[0] - 1)
  PROVE  Reassembled(win, n) = UpTo(B[n] - 1)
<1> DEFINE Body(f) == [k \in 0 .. n |-> IF k = 0 THEN got
                                        ELSE f[k - 1] \o PiecesOf(win[(vrR + k - 1) % Mod])]
           upTo == CHOOSE f : f = Body(f)
           g == [k \in 0 .. n |-> UpTo(B[k] - 1)]
<1>1. Reassembled(win, n) = upTo[n]
  BY DEF Reassembled
<1>2. ASSUME NEW k \in 1 .. n
      PROVE  UpTo(B[k - 1] - 1) \o PiecesOf(win[(vrR + k - 1) % Mod]) = UpTo(B[k] - 1)
  <2>1. k - 1 \in 0 .. n - 1 /\ k - 1 + 1 = k /\ k - 1 \in 0 .. n
    OBVIOUS
  <2>2. (vrR + k - 1) % Mod = SnOf(r + (k - 1))
    <3>1. SnOf(r) \in Int
      BY SnOfIs
    <3>2. vrR + k - 1 = SnOf(r) + (k - 1)
      BY <3>1
    <3> QED  BY <2>1, <3>2, SnPlus
  <2> DEFINE c == win[SnOf(r + (k - 1))]
             lo == B[k - 1]
             hi == c.hi
  <2>3. c.lo = lo /\ c.hi = hi /\ hi + 1 = B[k] /\ hi \in Nat /\ lo <= hi /\ lo \in Nat \ {0}
    BY <2>1
  <2> HIDE DEF c, lo, hi
  <2>4. UpTo(lo - 1) \o PiecesOf(c) = UpTo(hi)
    BY SMTT(40), <2>3, PiecesFollow
  <2>5. B[k] - 1 = hi
    BY <2>3
  <2> QED  BY <2>2, <2>4, <2>5 DEF c, lo
<1>3. g = Body(g)
  <2>1. \A k \in 0 .. n : g[k] = UpTo(B[k] - 1)
    OBVIOUS
  <2>2. ASSUME NEW k \in 0 .. n
        PROVE  UpTo(B[k] - 1) =
                 IF k = 0 THEN got ELSE g[k - 1] \o PiecesOf(win[(vrR + k - 1) % Mod])
    <3>1. CASE k = 0
      BY <3>1
    <3>2. CASE k # 0
      <4>1. k \in 1 .. n /\ k - 1 \in 0 .. n
        BY <3>2
      <4> HIDE DEF g
      <4> QED  BY ZenonT(40), <1>2, <2>1, <3>2, <4>1
    <3> QED  BY <3>1, <3>2
  <2> QED  BY <2>2
<1>4. upTo = Body(upTo)
  <2>1. \E f : f = Body(f)
    BY <1>3
  <2> QED  BY ZenonT(40), <2>1
<1>5. \A k \in 0 .. n : upTo[k] = IF k = 0 THEN got ELSE upTo[k - 1] \o PiecesOf(win[(vrR + k - 1) % Mod])
  <2> HIDE DEF upTo
  <2> QED  BY <1>4
<1> HIDE DEF upTo
<1>6. \A k \in 0 .. n : upTo[k] = UpTo(B[k] - 1)
  <2> SUFFICES ASSUME NEW x \in 0 .. n, upTo[x] # UpTo(B[x] - 1) PROVE FALSE
    OBVIOUS
  <2> DEFINE Bad == {k \in 0 .. n : upTo[k] # UpTo(B[k] - 1)}
  <2>1. Bad \in SUBSET Nat /\ Bad # {}
    OBVIOUS
  <2> HIDE DEF Bad
  <2>2. PICK k \in Bad : \A y \in Bad : k <= y
    BY <2>1, LeastNat
  <2>3. k \in 0 .. n /\ upTo[k] # UpTo(B[k] - 1)
    BY <2>2 DEF Bad
  <2>4. k # 0
    BY <1>5, <2>3
  <2>5. k \in 1 .. n /\ k - 1 \in 0 .. n
    BY <2>3, <2>4
  <2>6. k - 1 \notin Bad
    BY <2>2, <2>3, <2>5
  <2>7. upTo[k - 1] = UpTo(B[k - 1] - 1)
    BY <2>5, <2>6 DEF Bad
  <2> QED  BY <1>2, <1>5, <2>3, <2>4, <2>5, <2>7
<1>7. n \in 0 .. n
  OBVIOUS
<1> QED  BY <1>1, <1>6, <1>7

-----------------------------------------------------------------------------
(* The receiver gets a PDU                                                 *)

\* win is rx_window with another entry for sn.
AllBut(win, sn) == \A x \in Sn : x # sn => win[x] = rxWindow[x]

\* vr_r goes on over what the window has.
LEMMA KeepFullReaches ==
  ASSUME NEW a \in Int, NEW s \in Int, NEW r \in Int, NEW h \in Int, NEW m \in Int,
         Frame(a, s, r, h, m), RxHolds(r, h, m), NEW d \in Int, r <= d, d < s,
         NEW win, AllBut(win, SnOf(d))
  PROVE  \E r1 \in r .. s :
           /\ FirstMissing(win, vrR) = SnOf(r1) /\ Ahead(SnOf(r1), vrR) = r1 - r
           /\ \A x \in r .. r1 - 1 : win[SnOf(x)] # None
<1> DEFINE h1 == IF d >= h THEN d + 1 ELSE h
<1>1. /\ r <= h /\ h <= s /\ s <= r + Window /\ vrR = SnOf(r) /\ Window + 2 <= Mod
      /\ Window \in Nat /\ Mod \in Nat
  BY FrameBounds, Constants DEF Frame
<1>2. h1 \in Int /\ d < h1 /\ h <= h1 /\ h1 <= s /\ r <= h1 /\ h1 <= r + Window
  BY <1>1
<1> HIDE DEF h1
<1>3. win[SnOf(h1)] = None
  <2>1. SnOf(h1) # SnOf(d)
    <3>1. h1 - d < Mod /\ d - h1 < Mod /\ d # h1
      BY <1>1, <1>2
    <3> QED  BY <1>2, <3>1, SnUnique
  <2>2. rxWindow[SnOf(h1)] = None
    <3> SUFFICES ASSUME rxWindow[SnOf(h1)] # None PROVE FALSE
      OBVIOUS
    <3>1. PICK j \in r .. h - 1 : SnOf(h1) = SnOf(j)
      BY <1>2, SnOfIs DEF RxHolds
    <3>2. j \in Int /\ h1 - j < Mod /\ j - h1 < Mod /\ j # h1
      BY <1>1, <1>2
    <3> QED  BY <1>2, <3>1, <3>2, SnUnique
  <2>3. SnOf(h1) \in Sn
    BY <1>2, SnOfIs
  <2> QED  BY <2>1, <2>2, <2>3 DEF AllBut
<1>4. PICK r1 \in r .. h1 :
        /\ FirstMissing(win, vrR) = SnOf(r1) /\ win[SnOf(r1)] = None
        /\ \A x \in r .. r1 - 1 : win[SnOf(x)] # None
  BY <1>1, <1>2, <1>3, FirstMissingIs
<1>5. r1 \in r .. s /\ r1 \in Int /\ r <= r1 /\ r1 < r + Mod
  BY <1>1, <1>2
<1>6. Ahead(SnOf(r1), vrR) = r1 - r
  BY <1>1, <1>5, AheadIs
<1> QED  BY <1>4, <1>5, <1>6

LEMMA KeepFullContent ==
  ASSUME NEW P \in [Sn -> Intervals],
         NEW a \in Int, NEW s \in Int, NEW r \in Int, NEW h \in Int, NEW m \in Int,
         Frame(a, s, r, h, m), RxHolds(r, h, m), RxTypes, Content(P, a, r, s), sent \in Nat,
         NEW d \in Int, r <= d, d < s, NEW lo, NEW hi, lo = P[SnOf(d)].lo, hi = P[SnOf(d)].hi,
         NEW p, NEW asked, NEW done, KeepFull(SnOf(d), lo, hi, p, asked, done),
         UNCHANGED txVars, Carried(down)' \subseteq Carried(down)
  PROVE  \E r1 \in Int : Content(P, a, r1, s)'
<1> DEFINE win == [rxWindow EXCEPT ![SnOf(d)] = [lo |-> lo, hi |-> hi]]
<1>1. /\ vtA = SnOf(a) /\ vrR = SnOf(r) /\ vtS = SnOf(s)
      /\ a <= r /\ r <= s /\ a <= s /\ s <= a + Window /\ s < r + Mod /\ Mod \in Nat
  BY FrameBounds, Constants DEF Frame
<1>0. Follow(P, a, s)
  BY DEF Content
<1>2. SnOf(d) \in Sn /\ \A j \in Int : SnOf(j) \in Sn
  BY SnOfIs
<1>3. /\ \A x \in Sn : x # SnOf(d) => win[x] = rxWindow[x]
      /\ win[SnOf(d)].lo = lo /\ win[SnOf(d)].hi = hi
  <2>1. rxWindow \in [Sn -> [lo : Nat, hi : Nat]]
    BY DEF RxTypes
  <2> QED  BY <1>2, <2>1
<1>4. /\ FirstMissing(win, vrR) = vrR'
      /\ rxWindow' = [x \in Sn |-> IF x \in {y \in Sn : Ahead(y, vrR) < Ahead(FirstMissing(win, vrR), vrR)}
                                   THEN None ELSE win[x]]
      /\ rxSegments' = [x \in Sn |-> IF x \in {y \in Sn : Ahead(y, vrR) < Ahead(FirstMissing(win, vrR), vrR)} \cup done
                                     THEN {} ELSE rxSegments[x]]
      /\ got' = Reassembled(win, Ahead(FirstMissing(win, vrR), vrR))
  BY DEF KeepFull
<1> HIDE DEF win
<1>5. PICK r1 \in r .. s :
        /\ FirstMissing(win, vrR) = SnOf(r1) /\ Ahead(SnOf(r1), vrR) = r1 - r
        /\ \A x \in r .. r1 - 1 : win[SnOf(x)] # None
  <2>1. AllBut(win, SnOf(d))
    BY <1>3 DEF AllBut
  <2> QED  BY SMTT(30), <2>1, KeepFullReaches
<1> DEFINE n == r1 - r
<1>6. n \in Nat /\ n = r1 - r /\ r + n = r1 /\ r1 \in Int
  OBVIOUS
<1> HIDE DEF n
<1>7. /\ vrR' = SnOf(r1)
      /\ rxWindow' = [x \in Sn |-> IF Ahead(x, vrR) < n THEN None ELSE win[x]]
      /\ \A x \in Sn : \A y \in rxSegments'[x] : y \in rxSegments[x] /\ ~ (Ahead(x, vrR) < n)
      /\ got' = Reassembled(win, n)
  BY <1>4, <1>5, <1>6
<1>8. \A x \in Sn : win[x] # None => win[x].lo = P[x].lo /\ win[x].hi = P[x].hi
  <2> SUFFICES ASSUME NEW x \in Sn, win[x] # None
               PROVE  win[x].lo = P[x].lo /\ win[x].hi = P[x].hi
    OBVIOUS
  <2>1. CASE x = SnOf(d)
    BY <1>3, <2>1
  <2>2. CASE x # SnOf(d)
    BY <1>3, <2>2 DEF Content, SameAs
  <2> QED  BY <2>1, <2>2
<1>9. \A x : First(P, x)' = First(P, x)
  BY DEF First, txVars
<1>10. got' = UpTo(First(P, SnOf(r1)) - 1)
  <2> DEFINE C(x) == First(P, SnOf(x))
             B == [k \in 0 .. n |-> C(r + k)]
  <2>1. /\ \A x \in a .. s : C(x) \in Int
        /\ \A x \in a .. s - 1 : /\ P[SnOf(x)].lo \in Nat /\ P[SnOf(x)].hi \in Nat
                                 /\ C(x) = P[SnOf(x)].lo /\ C(x + 1) = P[SnOf(x)].hi + 1
                                 /\ 1 <= P[SnOf(x)].lo /\ P[SnOf(x)].lo <= P[SnOf(x)].hi
        /\ C(s) = sent + 1
    BY <1>0, <1>1, BordersRise
  <2>2. got = UpTo(C(r) - 1)
    BY <1>1 DEF Content, UpTo
  <2>3. C(r1) = First(P, SnOf(r1))
    OBVIOUS
  <2> HIDE DEF C
  <2>4. \A k \in 0 .. n : B[k] = C(r + k)
    OBVIOUS
  <2> HIDE DEF B
  <2>5. ASSUME NEW k \in 0 .. n
        PROVE  B[k] \in Nat \ {0}
    <3>1. r + k \in a .. s
      BY <1>1, <1>6
    <3>2. CASE r + k = s
      BY <2>1, <2>4, <3>2
    <3>3. CASE r + k # s
      <4>1. r + k \in a .. s - 1
        BY <3>1, <3>3
      <4> QED  BY <2>1, <2>4, <4>1
    <3> QED  BY <3>2, <3>3
  <2>6. ASSUME NEW k \in 0 .. n - 1
        PROVE  /\ win[SnOf(r + k)].lo = B[k] /\ win[SnOf(r + k)].hi + 1 = B[k + 1]
               /\ win[SnOf(r + k)].hi \in Nat /\ B[k] <= win[SnOf(r + k)].hi
    <3>1. /\ r + k \in a .. s - 1 /\ r + k \in r .. r1 - 1 /\ k \in 0 .. n /\ k + 1 \in 0 .. n
          /\ r + (k + 1) = r + k + 1 /\ r + k \in Int
      BY <1>1, <1>6
    <3>2. win[SnOf(r + k)].lo = P[SnOf(r + k)].lo /\ win[SnOf(r + k)].hi = P[SnOf(r + k)].hi
      BY <1>2, <1>5, <1>8, <3>1
    <3>3. B[k] = C(r + k) /\ B[k + 1] = C(r + k + 1)
      BY <2>4, <3>1
    <3> QED  BY <2>1, <3>1, <3>2, <3>3
  <2>7. B[0] = C(r) /\ B[n] = C(r1)
    <3>1. 0 \in 0 .. n /\ n \in 0 .. n /\ r + 0 = r
      BY <1>6
    <3> QED  BY <1>6, <2>4, <3>1
  <2>8. Reassembled(win, n) = UpTo(B[n] - 1)
    BY <1>1, <1>6, <2>2, <2>5, <2>6, <2>7, ReassembledIs
  <2> QED  BY <1>7, <2>3, <2>7, <2>8
<1>11. got' = [z \in 1 .. First(P, vrR)' - 1 |-> z]
  <2>1. First(P, vrR)' = First(P, SnOf(r1))
    BY <1>7 DEF First, txVars
  <2> QED  BY <1>10, <2>1 DEF UpTo
<1>12. Places(a, r1, s)'
  BY <1>1, <1>6, <1>7 DEF Places, txVars
<1>13. Follow(P, a, s)'
  BY <1>0, <1>9 DEF Follow
<1>14. \A sn \in Sn : InWindow(sn)' => SameAs(txWindow'[sn], P[sn])
  BY DEF Content, InWindow, txVars
<1>15. \A sn \in Sn : rxWindow'[sn] # None => SameAs(rxWindow'[sn], P[sn])
  BY <1>7, <1>8 DEF SameAs
<1>16. ASSUME NEW sn \in Sn, NEW x \in rxSegments'[sn]
       PROVE  PartOf(x, P[sn]) /\ \E j \in r1 .. s - 1 : sn = SnOf(j)
  <2>1. x \in rxSegments[sn] /\ ~ (Ahead(sn, vrR) < n)
    BY <1>7, <1>16
  <2>2. PartOf(x, P[sn]) /\ \E j \in r .. s - 1 : sn = SnOf(j)
    BY <2>1 DEF Content
  <2>3. PICK j \in r .. s - 1 : sn = SnOf(j)
    BY <2>2
  <2>4. j \in Int /\ r <= j /\ j < r + Mod
    BY <1>1
  <2>5. Ahead(sn, vrR) = j - r
    BY <1>1, <2>3, <2>4, AheadIs
  <2>6. j \in r1 .. s - 1
    BY <1>6, <2>1, <2>4, <2>5
  <2> QED  BY <2>2, <2>3, <2>6
<1>17. \A x \in Carried(down)' : PartOf(x, P[x.sn]) /\ (~ x.rf => Whole(x))
  BY DEF Content
<1>18. Content(P, a, r1, s)'
  BY <1>11, <1>12, <1>13, <1>14, <1>15, <1>16, <1>17 DEF Content
<1> QED  BY <1>6, <1>18

\* Segments of a PDU that are complete are the whole PDU.
LEMMA CompleteSegments ==
  ASSUME NEW segs \in SUBSET Segments, Complete(segs), NEW c \in Intervals,
         \A x \in segs : PartOf(x, c)
  PROVE  FirstOf(segs).lo = c.lo /\ LastOf(segs).hi = c.hi
<1>1. PICK s \in segs : s.lsf /\ \A off \in 0 .. s.so + s.hi - s.lo :
        \E t \in segs : t.so <= off /\ off <= t.so + t.hi - t.lo
  BY DEF Complete
<1>2. LastOf(segs) \in segs /\ LastOf(segs).lsf
  BY <1>1 DEF LastOf
<1>3. \E t \in segs : t.so = 0
  <2>1. s.so \in Nat /\ s.lo \in Nat /\ s.hi \in Nat /\ s.lo <= s.hi
    <3>1. /\ s.so \in 0 .. Total - 1 /\ s.lo \in Piece /\ s.hi \in Piece /\ s.lo <= s.hi
      BY DEF Segments
    <3>2. Total \in Nat \ {0} /\ Piece = 1 .. Total
      BY EndsAre DEF Piece
    <3> HIDE DEF Piece
    <3> QED  BY <3>1, <3>2
  <2>2. 0 \in 0 .. s.so + s.hi - s.lo
    BY <2>1
  <2>3. PICK t \in segs : t.so <= 0
    BY <1>1, <2>2
  <2>4. t.so \in 0 .. Total - 1
    BY DEF Segments
  <2> QED  BY <2>3, <2>4, EndsAre
<1>4. FirstOf(segs) \in segs /\ FirstOf(segs).so = 0
  BY <1>3 DEF FirstOf
<1>5. FirstOf(segs).lo = c.lo + FirstOf(segs).so /\ c.lo \in Nat
  BY <1>4 DEF PartOf, Intervals
<1>6. LastOf(segs).hi = c.hi
  BY <1>2 DEF PartOf
<1> QED  BY <1>4, <1>5, <1>6

LEMMA HandleDataContent ==
  ASSUME NEW P \in [Sn -> Intervals],
         NEW a \in Int, NEW s \in Int, NEW r \in Int, NEW h \in Int, NEW m \in Int,
         Frame(a, s, r, h, m), RxHolds(r, h, m), RxTypes, Content(P, a, r, s), sent \in Nat,
         NEW pdu \in DataPdus, NEW d \in s - Window .. s - 1, pdu.sn = SnOf(d),
         PartOf(pdu, P[SnOf(d)]), ~ pdu.rf => Whole(pdu),
         HandleData(pdu), UNCHANGED txVars, Carried(down)' \subseteq Carried(down)
  PROVE  \E r1 \in Int : Content(P, a, r1, s)'
<1> DEFINE sn == pdu.sn
           seg == [so |-> pdu.so, lo |-> pdu.lo, hi |-> pdu.hi, lsf |-> pdu.lsf, p |-> pdu.p]
           segs == WithSegment(rxSegments[sn], seg)
<1>1. /\ SnOf(d) \in Sn /\ d \in Int /\ d < s /\ s - Window <= d /\ vrR = SnOf(r)
      /\ s <= r + Window /\ r <= s /\ Mod = 2 * Window /\ Window \in Nat
  <2>1. Window \in Nat /\ Mod = 2 * Window
    BY Constants
  <2>2. d \in Int /\ d < s /\ s - Window <= d
    BY <2>1
  <2>3. r <= s /\ s <= r + Window /\ vrR = SnOf(r)
    BY FrameBounds DEF Frame
  <2> QED  BY <2>1, <2>2, <2>3, SnOfIs
<1>2. seg \in Segments /\ PartOf(seg, P[sn])
  BY DEF DataPdus, Pdus, Segments, PartOf
<1> HIDE DEF seg
<1>3. segs \in SUBSET Segments /\ \A x \in segs : PartOf(x, P[sn])
  <2>1. rxSegments[sn] \in SUBSET Segments
    BY <1>1 DEF RxTypes
  <2>2. \A x \in rxSegments[sn] : PartOf(x, P[sn])
    BY <1>1 DEF Content
  <2>3. segs \subseteq rxSegments[sn] \cup {seg}
    BY DEF WithSegment
  <2> HIDE DEF segs
  <2> QED  BY <1>2, <2>1, <2>2, <2>3
<1> HIDE DEF segs
<1>4. ASSUME InsideRxWindow(sn, vrR)
      PROVE  r <= d
  <2> SUFFICES ASSUME d < r PROVE FALSE
    BY <1>1
  <2>1. r <= d + Mod /\ d - r + Mod >= Window
    BY <1>1
  <2>2. Ahead(SnOf(d), vrR) = d - r + Mod
    BY <2>1, <1>1, AheadIs
  <2> QED  BY <1>4, <2>1, <2>2, <1>1 DEF InsideRxWindow
<1>5. ASSUME UNCHANGED <<vrR, rxWindow, got>>,
             \A y \in Sn : \A x \in rxSegments'[y] :
               x \in rxSegments[y] \/ (PartOf(x, P[y]) /\ \E j \in r .. s - 1 : y = SnOf(j))
      PROVE  \E r1 \in Int : Content(P, a, r1, s)'
  <2>1. UNCHANGED <<vtA, vtS, sent, vrR, rxWindow, got>>
    BY <1>5 DEF txVars
  <2>2. \A y \in Sn : InWindow(y)' =>
          InWindow(y) /\ txWindow'[y].lo = txWindow[y].lo /\ txWindow'[y].hi = txWindow[y].hi
    BY DEF txVars, InWindow
  <2>3. Content(P, a, r, s)'
    BY <1>5, <2>1, <2>2, ContentStays
  <2> QED  BY <2>3
<1>6. CASE Discard(pdu.p)
  <2>1. UNCHANGED <<vrR, rxWindow, got>> /\ rxSegments' = rxSegments
    BY <1>6 DEF Discard
  <2> QED  BY <1>5, <2>1
<1>7. ASSUME NEW lo, NEW hi, lo = P[SnOf(d)].lo, hi = P[SnOf(d)].hi, NEW p, NEW asked, NEW done,
             KeepFull(SnOf(d), lo, hi, p, asked, done), InsideRxWindow(sn, vrR)
      PROVE  \E r1 \in Int : Content(P, a, r1, s)'
  BY ZenonT(40), <1>1, <1>4, <1>7, KeepFullContent
<1>8. CASE ~ pdu.rf /\ InsideRxWindow(sn, vrR) /\ rxWindow[sn] = None
  <2>1. KeepFull(SnOf(d), pdu.lo, pdu.hi, pdu.p, doStatus, {})
    BY <1>8 DEF HandleData, HandleFull
  <2>2. pdu.lo = P[SnOf(d)].lo /\ pdu.hi = P[SnOf(d)].hi
    <3>1. P[SnOf(d)].lo \in Nat
      BY <1>1 DEF Intervals
    <3> QED  BY <1>8, <3>1 DEF PartOf, Whole
  <2> QED  BY <1>7, <1>8, <2>1, <2>2
<1>9. CASE pdu.rf /\ InsideRxWindow(sn, vrR) /\ sn \in segKeys /\ Complete(segs) /\ rxWindow[sn] = None
  <2> DEFINE lo == FirstOf(segs).lo
             hi == LastOf(segs).hi
             p == \E x \in segs : x.p
  <2>1. KeepFull(SnOf(d), lo, hi, p, doStatus \/ pdu.p, {sn})
    BY <1>9 DEF HandleData, HandleSegment, segs, seg
  <2>2. lo = P[SnOf(d)].lo /\ hi = P[SnOf(d)].hi
    BY <1>1, <1>3, <1>9, CompleteSegments
  <2> HIDE DEF lo, hi, p
  <2> QED  BY <1>7, <1>9, <2>1, <2>2
<1>10. CASE pdu.rf /\ InsideRxWindow(sn, vrR) /\ sn \in segKeys /\ Complete(segs) /\ rxWindow[sn] # None
  <2>1. /\ rxSegments' = [rxSegments EXCEPT ![sn] = {}]
        /\ UNCHANGED <<rxWindow, vrR, got>>
    BY <1>10 DEF HandleData, HandleSegment, segs, seg
  <2>2. \A y \in Sn : rxSegments'[y] \subseteq rxSegments[y]
    BY <2>1 DEF RxTypes
  <2> QED  BY <1>5, <2>1, <2>2
<1>11. ASSUME NEW new \in SUBSET Segments, \A x \in new : PartOf(x, P[sn]),
              rxSegments' = [rxSegments EXCEPT ![sn] = new], UNCHANGED <<rxWindow, vrR, got>>,
              InsideRxWindow(sn, vrR)
       PROVE  \E r1 \in Int : Content(P, a, r1, s)'
  <2>1. d \in r .. s - 1
    BY <1>1, <1>4, <1>11
  <2>2. \A y \in Sn : rxSegments'[y] = IF y = sn THEN new ELSE rxSegments[y]
    BY <1>11 DEF RxTypes
  <2>3. \A y \in Sn : \A x \in rxSegments'[y] :
          x \in rxSegments[y] \/ (PartOf(x, P[y]) /\ \E j \in r .. s - 1 : y = SnOf(j))
    BY <1>11, <2>1, <2>2
  <2> QED  BY <1>5, <1>11, <2>3
<1>12. CASE pdu.rf /\ InsideRxWindow(sn, vrR) /\ sn \in segKeys /\ ~ Complete(segs)
  <2>1. /\ rxSegments' = [rxSegments EXCEPT ![sn] = segs]
        /\ UNCHANGED <<rxWindow, vrR, got>>
    BY <1>12 DEF HandleData, HandleSegment, segs, seg
  <2> QED  BY <1>3, <1>11, <1>12, <2>1
<1>13. CASE pdu.rf /\ InsideRxWindow(sn, vrR) /\ sn \notin segKeys
  <2>1. /\ rxSegments' = [rxSegments EXCEPT ![sn] = {seg}]
        /\ UNCHANGED <<rxWindow, vrR, got>>
    BY <1>13 DEF HandleData, HandleSegment, seg
  <2>2. {seg} \in SUBSET Segments /\ \A x \in {seg} : PartOf(x, P[sn])
    BY <1>2
  <2> QED  BY <1>11, <1>13, <2>1, <2>2
<1> QED
  BY <1>6, <1>8, <1>9, <1>10, <1>12, <1>13 DEF HandleData, HandleFull, HandleSegment, segs, seg

\* A piece before the PDU vr_r, or in one that the receiver has, it has.
HasThese ==
  \A P \in [Sn -> Intervals], a, s, r, h, m \in Int :
    Frame(a, s, r, h, m) /\ RxHolds(r, h, m) /\ Content(P, a, r, s) /\ sent \in Nat =>
      \A p \in Int :
        \/ 1 <= p /\ p < First(P, vrR)
        \/ \E j \in a .. s - 1 : j \in Held(r, h) /\ P[SnOf(j)].lo <= p /\ p <= P[SnOf(j)].hi
        => p \in HeldPieces

LEMMA HasTheseHolds == HasThese
<1> SUFFICES ASSUME NEW P \in [Sn -> Intervals],
                    NEW a \in Int, NEW s \in Int, NEW r \in Int, NEW h \in Int, NEW m \in Int,
                    Frame(a, s, r, h, m), RxHolds(r, h, m), Content(P, a, r, s), sent \in Nat,
                    NEW p \in Int,
                    \/ 1 <= p /\ p < First(P, vrR)
                    \/ \E j \in a .. s - 1 : j \in Held(r, h) /\ P[SnOf(j)].lo <= p /\ p <= P[SnOf(j)].hi
             PROVE  p \in HeldPieces
  BY DEF HasThese
<1>1. CASE 1 <= p /\ p < First(P, vrR)
  BY <1>1, HeldIs
<1>2. ASSUME NEW j \in a .. s - 1, j \in Held(r, h), P[SnOf(j)].lo <= p, p <= P[SnOf(j)].hi
      PROVE  p \in HeldPieces
  BY <1>2, HeldPdu
<1> QED  BY <1>1, <1>2

GotHas ==
  \A P \in [Sn -> Intervals], a, r, s \in Int :
    Content(P, a, r, s) /\ sent \in Nat => Len(got) = First(P, vrR) - 1

LEMMA GotHasHolds == GotHas
<1> SUFFICES ASSUME NEW P \in [Sn -> Intervals], NEW a \in Int, NEW r \in Int, NEW s \in Int,
                    Content(P, a, r, s), sent \in Nat
             PROVE  Len(got) = First(P, vrR) - 1
  BY DEF GotHas
<1> QED  BY GotIs

LEMMA ReceivedGrows ==
  ASSUME NEW P \in [Sn -> Intervals],
         NEW a \in Int, NEW s \in Int, NEW r \in Int, NEW h \in Int, NEW m \in Int,
         Frame(a, s, r, h, m), RxHolds(r, h, m), Content(P, a, r, s), sent \in Nat,
         UNCHANGED txVars,
         NEW r1 \in Int, NEW h1 \in Int, NEW m1 \in Int, RxGoesOn(s, r, h, r1, h1, m1),
         NEW q \in Int, Content(P, a, q, s)'
  PROVE  Received \subseteq Received' /\ Len(got) <= Len(got')
<1>1. /\ FirstSn <= a /\ a <= r /\ r <= h /\ h <= s /\ a <= s /\ s <= a + Window
      /\ vtA = SnOf(a) /\ vrR = SnOf(r) /\ vtS = SnOf(s) /\ Window + 2 <= Mod /\ Window \in Nat
      /\ FirstSn \in Int /\ Mod \in Nat
  BY SMTT(40), FrameBounds, Constants DEF Frame
<1>2. /\ vrR' = SnOf(r1) /\ r <= r1 /\ r1 <= m1 /\ m1 <= h1 /\ h <= h1 /\ h1 <= s
      /\ RxHolds(r1, h1, m1)' /\ Held(r, h) \subseteq Held(r1, h1)'
      /\ vrH' = SnOf(h1) /\ vrMs' = SnOf(m1)
  BY DEF RxGoesOn
<1>3. q = r1
  <2>1. SnOf(q) = SnOf(r1) /\ a <= q /\ q <= s
    BY <1>2 DEF Content, Places
  <2>2. q - r1 < Mod /\ r1 - q < Mod
    BY <1>1, <1>2, <2>1
  <2> QED  BY <2>1, <2>2, SnUnique
<1>4. Frame(a, s, r1, h1, m1)'
  BY <1>1, <1>2 DEF Frame, txVars
<1>5. sent' \in Nat /\ Content(P, a, r1, s)'
  BY <1>3 DEF txVars
<1>6. HasThese'
  BY HasTheseHolds, PTL
<1>7. \A x : First(P, x)' = First(P, x)
  BY DEF First, txVars
<1>f. First(P, vrR) <= First(P, vrR)' /\ First(P, vrR)' \in Int /\ First(P, vrR) \in Int
  <2> DEFINE B(x) == First(P, SnOf(x))
  <2>1. /\ \A z \in a .. s : B(z) \in Int /\ \A x, y \in a .. s : x < y => B(x) < B(y)
    <3>1. Follow(P, a, s)
      BY DEF Content
    <3> QED  BY <1>1, <3>1, BordersRise
  <2>2. First(P, vrR) = B(r) /\ First(P, vrR)' = B(r1)
    <3>1. First(P, vrR)' = First(P, vrR')
      BY DEF First, txVars
    <3> QED  BY <1>1, <1>2, <3>1
  <2> HIDE DEF B
  <2>3. r \in a .. s /\ r1 \in a .. s /\ (r = r1 \/ r < r1)
    BY <1>1, <1>2
  <2> QED  BY <2>1, <2>2, <2>3
<1>8. ASSUME NEW p \in Int, p \in HeldPieces
      PROVE  p \in HeldPieces'
  <2>1. CASE 1 <= p /\ p < First(P, vrR)
    <3>2. 1 <= p /\ p < First(P, vrR)'
      BY <2>1, <1>f
    <3> QED  BY <3>2, <1>2, <1>4, <1>5, <1>6 DEF HasThese
  <2>2. ASSUME NEW j \in r .. h - 1, rxWindow[SnOf(j)] # None,
               P[SnOf(j)].lo <= p, p <= P[SnOf(j)].hi
        PROVE  p \in HeldPieces'
    <3>1. j \in a .. s - 1
      BY <1>1
    <3>2. j \in Held(r, h)
      BY <1>1, <2>2 DEF Held
    <3>3. j \in Held(r1, h1)'
      BY <1>2, <3>2
    <3> QED  BY <2>2, <3>1, <3>3, <1>2, <1>4, <1>5, <1>6 DEF HasThese
  <2>3. \/ 1 <= p /\ p < First(P, vrR)
        \/ \E j \in r .. h - 1 : /\ rxWindow[SnOf(j)] # None
                                 /\ P[SnOf(j)].lo <= p /\ p <= P[SnOf(j)].hi
    BY <1>8, HeldIs
  <2> QED  BY <2>1, <2>2, <2>3
<1>9. HeldPieces \cap Piece \subseteq HeldPieces'
  <2>1. Piece \subseteq Int
    BY EndsAre
  <2> QED  BY <1>8, <2>1
<1>10. Received \subseteq Received'
  BY <1>9 DEF Received
<1>11. Len(got) <= Len(got')
  <2>1. Len(got) = First(P, vrR) - 1
    BY GotIs
  <2>2. Len(got') = First(P, vrR)' - 1
    <3>1. GotHas'
      BY GotHasHolds, PTL
    <3> QED  BY SMTT(30), <3>1, <1>5 DEF GotHas
  <2> QED  BY <1>f, <2>1, <2>2
<1> QED  BY <1>10, <1>11

LEMMA ReceiveDataKeepsContent ==
  ASSUME IInv, ContentInv, ReceiveData
  PROVE  ContentInv' /\ Received \subseteq Received' /\ Len(got) <= Len(got')
<1>1. PICK a, s, r, h, m, i, k, e \in Int : \E U \in SUBSET Reports : \E D \in SUBSET U :
        Core(a, s, r, h, m, i, k, e, U, D)
  BY DEF IInv
<1>2. Frame(a, s, r, h, m) /\ RxHolds(r, h, m) /\ DownIsRecent(s)
  BY <1>1 DEF Core
<1>3. PICK P \in [Sn -> Intervals] : Content(P, a, r, s)
  BY <1>2, ContentOf
<1>4. sent \in Nat /\ RxTypes /\ down \in Seq([pdu : DataPdus, late : BOOLEAN])
  BY EndsAre DEF IInv, Types, TxTypes, LinkTypes
<1>5. /\ down # << >> /\ down' = Tail(down) /\ HandleData(Head(down).pdu)
      /\ UNCHANGED txVars
  BY DEF ReceiveData
<1>6. /\ Carried(down') \subseteq Carried(down)
      /\ Head(down).pdu \in Carried(down) /\ Head(down).pdu \in DataPdus
  BY <1>4, <1>5, TailCarries
<1>7. Carried(down)' \subseteq Carried(down)
  BY <1>6 DEF Carried
<1>8. PICK x \in DataPdus : x = Head(down).pdu
  BY <1>6
<1>9. PICK d \in s - Window .. s - 1 : x.sn = SnOf(d)
  BY <1>2, <1>6, <1>8 DEF DownIsRecent
<1>10. PartOf(x, P[SnOf(d)]) /\ (~ x.rf => Whole(x))
  BY <1>3, <1>6, <1>8, <1>9 DEF Content
<1>11. HandleData(x)
  BY <1>5, <1>8
<1>a. Frame(a, s, r, h, m)
  BY <1>2
<1>b. RxHolds(r, h, m)
  BY <1>2
<1>c. RxTypes
  BY <1>4
<1>d. sent \in Nat
  BY <1>4
<1>e. UNCHANGED txVars
  BY <1>5
<1>f. PartOf(x, P[SnOf(d)])
  BY <1>10
<1>g. ~ x.rf => Whole(x)
  BY <1>10
<1>12. PICK q \in Int : Content(P, a, q, s)'
  BY ZenonT(60), <1>3, <1>7, <1>9, <1>11, <1>a, <1>b, <1>c, <1>d, <1>e, <1>f, <1>g,
     HandleDataContent
<1>13. PICK r1, h1, m1 \in Int : RxGoesOn(s, r, h, r1, h1, m1)
  BY ZenonT(60), <1>9, <1>11, <1>a, <1>b, <1>c, HandleDataMoves
<1>14. Received \subseteq Received' /\ Len(got) <= Len(got')
  BY ZenonT(60), <1>3, <1>12, <1>13, <1>a, <1>b, <1>d, <1>e, ReceivedGrows
<1> QED  BY <1>12, <1>14 DEF ContentInv

-----------------------------------------------------------------------------
(* The invariant                                                           *)

LEMMA InitContent ==
  ASSUME Init
  PROVE  ContentInv /\ ConfirmInv
<1>1. TxInit /\ RxInit /\ LinkInit
  BY DEF Init
<1> DEFINE P == [sn \in Sn |-> [lo |-> 0, hi |-> 0]]
           f == FirstSn
<1>2. P \in [Sn -> Intervals]
  BY DEF Intervals
<1>3. f \in Int /\ SnOf(f) = f /\ Window \in Nat
  BY SnOfFirst, Constants
<1>4. /\ \A sn \in Sn : ~ InWindow(sn) /\ rxWindow[sn] = None /\ rxSegments[sn] = {}
      /\ vtA = f /\ vtS = f /\ vrR = f /\ sent = 0 /\ got = << >>
      /\ confirmed = {} /\ ctl.acked = {} /\ down = << >>
  BY <1>1 DEF TxInit, RxInit, LinkInit, InWindow, NoCtl
<1>5. Carried(down) = {}
  BY <1>4 DEF Carried
<1>6. Places(f, f, f)
  BY <1>3, <1>4 DEF Places
<1>7. Follow(P, f, f)
  BY <1>3 DEF Follow
<1>8. got = [n \in 1 .. First(P, vrR) - 1 |-> n]
  <2>1. First(P, vrR) - 1 = 0
    BY <1>4 DEF First
  <2>2. << >> = [n \in 1 .. 0 |-> n]
    OBVIOUS
  <2> QED  BY <1>4, <2>1, <2>2
<1> HIDE DEF P
<1>9. Content(P, f, f, f)
  BY <1>4, <1>5, <1>6, <1>7, <1>8 DEF Content
<1>10. ContentInv
  BY <1>2, <1>3, <1>9 DEF ContentInv
<1> QED  BY <1>4, <1>10 DEF ConfirmInv

LEMMA ReadKeepsContent ==
  ASSUME IInv, ContentInv, ConfirmInv, Read
  PROVE  ContentInv' /\ ConfirmInv'
<1>1. UNCHANGED rxVars /\ \E n \in Grants : RetxWhole(n) \/ RetxSegment(n) \/ NewPdu(n)
  BY DEF Read, ReadPdu
<1>2. PICK n \in Grants : RetxWhole(n) \/ RetxSegment(n) \/ NewPdu(n)
  BY <1>1
<1>3. ContentInv'
  <2>1. CASE RetxWhole(n) \/ RetxSegment(n)
    BY <1>1, <2>1, RetxKeepsContent
  <2>2. CASE NewPdu(n)
    BY <1>1, <2>2, NewPduKeepsContent
  <2> QED  BY <1>2, <2>1, <2>2
<1>4. Received' = Received
  BY <1>1, HeldPiecesStay DEF rxVars
<1>5. confirmed' = confirmed /\ ctl' = ctl
  BY <1>2 DEF RetxWhole, RetxSegment, NewPdu
<1> QED  BY <1>3, <1>4, <1>5 DEF ConfirmInv

LEMMA ReceiveDataKeepsConfirm ==
  ASSUME IInv, ContentInv, ConfirmInv, ReceiveData
  PROVE  ConfirmInv'
<1>1. confirmed' = confirmed /\ ctl' = ctl
  BY DEF ReceiveData, txVars
<1>2. Received \subseteq Received'
  BY ReceiveDataKeepsContent
<1> QED  BY <1>1, <1>2 DEF ConfirmInv

\* Every step is one of the five kinds of the lemmas.
LEMMA StepKinds ==
  ASSUME [Next]_vars
  PROVE  Read \/ ReceiveData \/ Sender(StatusAck) \/ Quiet
BY DEF Next, Quiet

\* What the receiver has, what it has passed on and what the sender confirms:
\* received is what the PDUs carry, each PDU's pieces follow those of the one
\* before, and no SDU is confirmed that the receiver does not have.
THEOREM RlcContentHolds == Spec => [](ContentInv /\ ConfirmInv)
<1>1. Init => ContentInv /\ ConfirmInv
  BY InitContent
<1>2. IInv /\ ContentInv /\ ConfirmInv /\ [Next]_vars => (ContentInv /\ ConfirmInv)'
  <2> SUFFICES ASSUME IInv, ContentInv, ConfirmInv, [Next]_vars
               PROVE  ContentInv' /\ ConfirmInv'
    OBVIOUS
  <2>1. CASE Read
    BY <2>1, ReadKeepsContent
  <2>2. CASE ReceiveData
    BY <2>2, ReceiveDataKeepsContent, ReceiveDataKeepsConfirm
  <2>3. CASE Sender(StatusAck)
    BY <2>3, StatusAckKeepsContent, StatusAckKeepsConfirm
  <2>4. CASE Quiet
    BY <2>4, QuietIsStill, StillKeepsContent, QuietKeepsConfirm
  <2> QED  BY <2>1, <2>2, <2>3, <2>4, StepKinds
<1> QED  BY <1>1, <1>2, RlcInductive, PTL DEF Spec

-----------------------------------------------------------------------------
(* The promise of ReliableDelivery                                         *)

PromiseVars == <<written, Received, got, confirmed>>

LEMMA ArriveStep ==
  ASSUME IInv, ContentInv, PassedOn', ReceiveData
  PROVE  Delivery!Arrive
<1>1. written' = written /\ confirmed' = confirmed /\ sent' = sent
  BY DEF ReceiveData, txVars
<1>2. Received \subseteq Received' /\ Len(got) <= Len(got')
  BY ReceiveDataKeepsContent
<1>3. sent \in Nat /\ written \in Nat /\ sent <= written
  BY EndsAre DEF IInv, Types, TxTypes
<1>4. /\ Received' \subseteq Ends /\ \A e \in Received' : e <= sent
      /\ Len(got') \in 0 .. sent /\ got' = [n \in 1 .. Len(got') |-> n]
      /\ \A e \in Ends : e <= Len(got') => e \in Received'
      /\ \A e \in Received' : {f \in Ends : f < e} \subseteq Received' => e <= Len(got')
  BY <1>1 DEF PassedOn
<1>5. Ends \subseteq Int
  BY EndsAre
<1>6. \A e \in Received' : e \in Ends /\ e <= written
  <2> SUFFICES ASSUME NEW e \in Received' PROVE e \in Ends /\ e <= written
    OBVIOUS
  <2>1. e \in Int /\ e \in Ends /\ e <= sent
    BY <1>4, <1>5
  <2> QED  BY <1>3, <2>1
<1>7. PassedOn
  BY PassedOnHolds
<1>8. Len(got') \in Len(got) .. written
  <2>1. Len(got) \in Int /\ Len(got') \in Int /\ Len(got') <= sent
    BY <1>3, <1>4, <1>7 DEF PassedOn
  <2> QED  BY <1>2, <1>3, <2>1
<1> QED  BY ZenonT(40), <1>1, <1>2, <1>4, <1>6, <1>8 DEF Delivery!Arrive

LEMMA QuietStep ==
  ASSUME IInv, ConfirmInv, Quiet
  PROVE  Delivery!Offer \/ Delivery!Confirm \/ UNCHANGED PromiseVars
<1>1. UNCHANGED <<rxWindow, got>> /\ Received' = Received
  BY QuietIsStill, HeldPiecesStay DEF Still
<1>2. CASE Sender(WriteSdu)
  <2>1. written < Total /\ written' = EndOf[written + 1] /\ confirmed' = confirmed
    BY <1>2 DEF Sender, WriteSdu
  <2>2. got' = got
    BY <1>1
  <2>3. Delivery!Total = Total /\ Delivery!EndOf = EndOf
    BY DEF Total, EndOf, Piece, Delivery!Total, Delivery!EndOf, Delivery!Piece
  <2> QED  BY <1>1, <2>1, <2>2, <2>3 DEF Delivery!Offer
<1>3. CASE Sender(StatusEnd)
  <2>1. confirmed' = confirmed \cup ctl.acked /\ written' = written
    BY <1>3 DEF Sender, StatusEnd
  <2> QED  BY <1>1, <2>1 DEF Delivery!Confirm, ConfirmInv
<1>4. ASSUME written' = written, confirmed' = confirmed
      PROVE  UNCHANGED PromiseVars
  BY <1>1, <1>4 DEF PromiseVars
<1>5. CASE UNCHANGED vars
  BY <1>4, <1>5 DEF vars, txVars
<1>6. CASE \/ LoseData \/ Report \/ LoseStatus
           \/ Receiver(ReorderingExpires) \/ Receiver(ProhibitExpires)
  BY <1>4, <1>6 DEF LoseData, Report, LoseStatus, Receiver, txVars
<1>7. CASE \/ Sender(ReadNothing) \/ ReceiveStatus \/ Sender(PollTimerExpires)
           \/ Sender(StatusNack)
  BY <1>4, <1>7 DEF Sender, ReadNothing, ReceiveStatus, StatusBegin, PollTimerExpires, StatusNack
<1> QED  BY <1>2, <1>3, <1>4, <1>5, <1>6, <1>7 DEF Quiet

LEMMA DeliveryStep ==
  ASSUME IInv, ContentInv, ConfirmInv, PassedOn', [Next]_vars
  PROVE  [Delivery!Next]_(Delivery!deliveryVars)
<1> SUFFICES Delivery!Next \/ UNCHANGED PromiseVars
  BY DEF Delivery!deliveryVars, PromiseVars
<1>1. CASE Read
  <2>1. UNCHANGED rxVars /\ written' = written /\ confirmed' = confirmed
    BY <1>1 DEF Read, ReadPdu, RetxWhole, RetxSegment, NewPdu
  <2> QED  BY <2>1, HeldPiecesStay DEF rxVars, PromiseVars
<1>2. CASE ReceiveData
  BY <1>2, ArriveStep DEF Delivery!Next
<1>3. CASE Sender(StatusAck)
  <2>1. UNCHANGED rxVars /\ written' = written /\ confirmed' = confirmed
    BY <1>3 DEF Sender, StatusAck
  <2> QED  BY <2>1, HeldPiecesStay DEF rxVars, PromiseVars
<1>4. CASE Quiet
  BY <1>4, QuietStep DEF Delivery!Next
<1> QED  BY <1>1, <1>2, <1>3, <1>4, StepKinds

\* The two entities implement ReliableDelivery, however PDUs and status PDUs are
\* lost, late or overtaken: SDUs are passed on in order, without loss, change or
\* repetition, as soon as the SDUs before them allow, and the sender confirms
\* only SDUs that the receiver has.
THEOREM RlcImplementsDelivery == Spec => ImplementsReliableDelivery
<1>1. Init => Delivery!Init
  <2> SUFFICES ASSUME Init PROVE Delivery!Init
    OBVIOUS
  <2>1. /\ written = 0 /\ got = << >> /\ confirmed = {}
        /\ \A sn \in Sn : rxWindow[sn] = None
    BY DEF Init, TxInit, RxInit
  <2>2. HeldPieces = {}
    BY <2>1 DEF HeldPieces
  <2>3. ASSUME NEW e \in Ends
        PROVE  e \in Piece /\ EndOf[e] = e
    <3>a. Ends \subseteq Int /\ Ends \subseteq Piece
      BY EndsAre
    <3>1. e \in Piece /\ e \in Int /\ e <= e
      BY <3>a
    <3>b. EndOf[e] \in Ends
      BY <3>1, EndsAre
    <3>2. EndOf[e] \in Int
      BY <3>a, <3>b
    <3>3. EndOf[e] <= e /\ e <= EndOf[e]
      BY <3>1, EndsAre
    <3> QED  BY <3>1, <3>2, <3>3
  <2>4. Received = {}
    BY <2>2, <2>3 DEF Received
  <2> QED  BY <2>1, <2>4 DEF Delivery!Init
<1>2. IInv /\ ContentInv => PassedOn
  BY PassedOnHolds
<1>3. IInv /\ ContentInv /\ ConfirmInv /\ PassedOn' /\ [Next]_vars
        => [Delivery!Next]_(Delivery!deliveryVars)
  BY DeliveryStep
<1> QED
  BY <1>1, <1>2, <1>3, RlcInductive, RlcContentHolds, PTL
     DEF Spec, ImplementsReliableDelivery, Delivery!Spec
=============================================================================
