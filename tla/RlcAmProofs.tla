---------------------------- MODULE RlcAmProofs ----------------------------
(***************************************************************************)
(* Facts about sequence numbers, the link and the receiving side of RLC    *)
(* AM.                                                                     *)
(***************************************************************************)
EXTENDS RlcAmInv, FiniteSetTheorems, WellFoundedInduction, TLAPS

LEMMA Constants ==
  /\ Window \in Nat /\ Window >= 2
  /\ Mod \in Nat \ {0} /\ Mod = 2 * Window /\ Mod >= Window + 2
  /\ Sn = 0 .. Mod - 1 /\ FirstSn \in Sn /\ FirstSn \in Int
BY WindowAssumption, FirstSnAssumption DEF Mod, Sn

-----------------------------------------------------------------------------
(* Sequence numbers                                                        *)

LEMMA RemainderUnique ==
  ASSUME NEW m \in Nat \ {0}, NEW r \in 0 .. m - 1, NEW s \in 0 .. m - 1,
         NEW p \in Int, NEW q \in Int, m * p + r = m * q + s
  PROVE  p = q /\ r = s
<1>1. CASE p = q
  BY <1>1
<1>2. CASE p > q
  <2>1. p - q >= 1 /\ m * (p - q) = s - r
    BY <1>2
  <2>2. m * (p - q) >= m
    BY <2>1
  <2> QED  BY <2>1, <2>2
<1>3. CASE q > p
  <2>1. q - p >= 1 /\ m * (q - p) = r - s
    BY <1>3
  <2>2. m * (q - p) >= m
    BY <2>1
  <2> QED  BY <2>1, <2>2
<1> QED  BY <1>1, <1>2, <1>3

LEMMA Division ==
  ASSUME NEW m \in Nat \ {0}, NEW x \in Int
  PROVE  x % m \in 0 .. m - 1 /\ \E q \in Int : x = m * q + (x % m)
<1>1. /\ x % m \in 0 .. m - 1 /\ (x \div m) \in Int
      /\ x = m * (x \div m) + (x % m)
  OBVIOUS
<1> QED  BY <1>1

LEMMA Remainder ==
  ASSUME NEW m \in Nat \ {0}, NEW q \in Int, NEW r \in 0 .. m - 1, NEW x \in Int,
         x = m * q + r
  PROVE  x % m = r
<1>1. PICK p \in Int : x = m * p + (x % m)
  BY Division
<1>2. x % m \in 0 .. m - 1
  BY Division
<1> DEFINE s == x % m
<1>3. x = m * p + s /\ s \in 0 .. m - 1
  BY <1>1, <1>2
<1> HIDE DEF s
<1>4. r = s
  BY SMTT(30), <1>3, RemainderUnique
<1> QED  BY <1>4 DEF s

LEMMA Times ==
  ASSUME NEW m \in Int, NEW p \in Int, NEW q \in Int
  PROVE  m * (q - p) = m * q - m * p
OBVIOUS

LEMMA SnOfIs ==
  ASSUME NEW j \in Int
  PROVE  SnOf(j) \in Sn /\ SnOf(j) \in Int /\ \E q \in Int : j = Mod * q + SnOf(j)
<1>1. Mod \in Nat \ {0} /\ Sn = 0 .. Mod - 1
  BY Constants
<1>2. j % Mod \in 0 .. Mod - 1 /\ \E q \in Int : j = Mod * q + (j % Mod)
  BY <1>1, Division
<1>3. j % Mod \in Int
  BY <1>1, <1>2
<1> QED  BY <1>1, <1>2, <1>3 DEF SnOf

LEMMA SnOfFirst == SnOf(FirstSn) = FirstSn
<1>1. FirstSn \in 0 .. Mod - 1 /\ FirstSn = Mod * 0 + FirstSn
  BY Constants
<1> QED  BY <1>1, Constants, Remainder DEF SnOf

LEMMA SnUnique ==
  ASSUME NEW i \in Int, NEW j \in Int, SnOf(i) = SnOf(j), i - j < Mod, j - i < Mod
  PROVE  i = j
<1>1. PICK p \in Int : i = Mod * p + SnOf(i)
  BY SnOfIs
<1>2. PICK q \in Int : j = Mod * q + SnOf(j)
  BY SnOfIs
<1>3. SnOf(i) \in Int
  BY SnOfIs
<1>4. Mod * p - Mod * q = i - j /\ Mod * (p - q) = i - j
  BY SMTT(40), <1>1, <1>2, <1>3, Constants
<1>5. CASE p = q
  BY <1>4, <1>5, Constants
<1>6. CASE p - q >= 1
  <2>1. Mod * (p - q) >= Mod
    BY <1>6, Constants
  <2> QED  BY <2>1, <1>4, Constants
<1>7. CASE q - p >= 1
  <2>1. Mod * (q - p) >= Mod
    BY <1>7, Constants
  <2>2. Mod * (q - p) = j - i
    BY <1>4, Constants
  <2> QED  BY <2>1, <2>2, Constants
<1> QED  BY <1>5, <1>6, <1>7

LEMMA SnPlus ==
  ASSUME NEW j \in Int, NEW n \in Int
  PROVE  (SnOf(j) + n) % Mod = SnOf(j + n)
<1>1. PICK p \in Int : j = Mod * p + SnOf(j)
  BY SnOfIs
<1>2. PICK q \in Int : j + n = Mod * q + SnOf(j + n)
  BY SnOfIs
<1>0. j + n \in Int
  OBVIOUS
<1>3. SnOf(j) \in Int /\ SnOf(j + n) \in Sn /\ Sn = 0 .. Mod - 1
  BY <1>0, SnOfIs, Constants
<1> DEFINE x == SnOf(j) + n
           r == SnOf(j + n)
           c == q - p
<1>4. x = Mod * c + r
  <2>1. Mod * (q - p) = Mod * q - Mod * p /\ Mod * p \in Int /\ Mod * q \in Int
    BY Constants, Times
  <2> QED  BY SMTT(30), <1>1, <1>2, <1>3, <2>1
<1>5. x \in Int /\ r \in 0 .. Mod - 1 /\ c \in Int
  BY <1>3, Constants
<1> HIDE DEF x, r, c
<1>6. Mod \in Nat \ {0}
  BY Constants
<1>7. x % Mod = r
  BY <1>4, <1>5, <1>6, Remainder
<1> QED  BY <1>7 DEF x, r

\* TX_MOD_BASE and RX_MOD_BASE of a number that is not far ahead
LEMMA SnAhead ==
  ASSUME NEW i \in Int, NEW j \in Int, j <= i, i - j < Mod
  PROVE  (SnOf(i) - SnOf(j)) % Mod = i - j
<1>1. PICK p \in Int : i = Mod * p + SnOf(i)
  BY SnOfIs
<1>2. PICK q \in Int : j = Mod * q + SnOf(j)
  BY SnOfIs
<1>3. SnOf(i) \in Int /\ SnOf(j) \in Int
  BY SnOfIs
<1> DEFINE x == SnOf(i) - SnOf(j)
           r == i - j
<1>4. x = Mod * (q - p) + r
  <2>1. Mod * (q - p) = Mod * q - Mod * p /\ Mod * p \in Int /\ Mod * q \in Int
    BY Constants, Times
  <2> QED  BY <1>1, <1>2, <1>3, <2>1
<1>5. x \in Int /\ r \in 0 .. Mod - 1 /\ q - p \in Int
  BY <1>3, Constants
<1> HIDE DEF x, r
<1>6. x % Mod = r
  BY <1>4, <1>5, Constants, Remainder
<1> QED  BY <1>6 DEF x, r

\* ... and of one that is behind
LEMMA SnBehind ==
  ASSUME NEW i \in Int, NEW j \in Int, i < j, j - i <= Mod
  PROVE  (SnOf(i) - SnOf(j)) % Mod = i - j + Mod
<1>1. PICK p \in Int : i = Mod * p + SnOf(i)
  BY SnOfIs
<1>2. PICK q \in Int : j = Mod * q + SnOf(j)
  BY SnOfIs
<1>3. SnOf(i) \in Int /\ SnOf(j) \in Int
  BY SnOfIs
<1> DEFINE x == SnOf(i) - SnOf(j)
           r == i - j + Mod
           c == q - p - 1
<1>4. x = Mod * c + r
  BY <1>1, <1>2, <1>3, Constants
<1>5. x \in Int /\ r \in 0 .. Mod - 1 /\ c \in Int
  BY <1>3, Constants
<1> HIDE DEF x, r, c
<1>6. x % Mod = r
  BY <1>4, <1>5, Constants, Remainder
<1> QED  BY <1>6 DEF x, r

LEMMA SnSame ==
  ASSUME NEW j \in Int
  PROVE  SnOf(j + Mod) = SnOf(j)
<1>1. PICK p \in Int : j = Mod * p + SnOf(j)
  BY SnOfIs
<1>2. SnOf(j) \in 0 .. Mod - 1
  BY SnOfIs, Constants
<1> DEFINE x == j + Mod
           r == SnOf(j)
           c == p + 1
<1>3. x = Mod * c + r
  BY <1>1, <1>2, Constants
<1>4. x \in Int /\ c \in Int /\ r \in 0 .. Mod - 1
  BY <1>2, Constants
<1> HIDE DEF x, r, c
<1>5. x % Mod = r
  BY ZenonT(60), <1>3, <1>4, Constants, Remainder
<1> QED  BY <1>5 DEF x, r, SnOf

-----------------------------------------------------------------------------
(* Least and greatest numbers, ends of SDUs                                *)

LEMMA LeastNat ==
  ASSUME NEW S \in SUBSET Nat, S # {}
  PROVE  \E m \in S : \A x \in S : m <= x
<1> DEFINE Less == OpToRel(<, Nat)
<1>1. PICK m \in S : \A x \in S : ~ (<<x, m>> \in Less)
  BY NatLessThanWellFounded, WFMin
<1>2. \A x \in S : x < m => <<x, m>> \in Less
  BY DEF OpToRel
<1> HIDE DEF Less
<1>3. \A x \in S : ~ (x < m)
  BY <1>1, <1>2
<1> QED  BY <1>3

LEMMA Least ==
  ASSUME NEW b \in Int, NEW S \in SUBSET Int, S # {}, \A x \in S : b <= x
  PROVE  \E m \in S : \A x \in S : m <= x
<1> DEFINE T == {x - b : x \in S}
<1>1. \A x \in S : x - b \in Nat /\ x \in Int
  OBVIOUS
<1>2. T \in SUBSET Nat /\ T # {}
  BY <1>1
<1>3. PICK y \in T : \A z \in T : y <= z
  BY <1>2, LeastNat
<1>4. PICK m \in S : y = m - b
  BY <1>3
<1>5. \A x \in S : x - b \in T
  OBVIOUS
<1> HIDE DEF T
<1>6. \A x \in S : m - b <= x - b
  BY <1>3, <1>4, <1>5
<1> QED  BY <1>1, <1>4, <1>6

LEMMA Greatest ==
  ASSUME NEW b \in Int, NEW S \in SUBSET Int, S # {}, \A x \in S : x <= b
  PROVE  \E m \in S : \A x \in S : x <= m
<1> DEFINE T == {b - x : x \in S}
<1>1. \A x \in S : b - x \in Nat /\ x \in Int
  OBVIOUS
<1>2. T \in SUBSET Nat /\ T # {}
  BY <1>1
<1>3. PICK y \in T : \A z \in T : y <= z
  BY <1>2, LeastNat
<1>4. PICK m \in S : y = b - m
  BY <1>3
<1>5. \A x \in S : b - x \in T
  OBVIOUS
<1> HIDE DEF T
<1>6. \A x \in S : b - m <= b - x
  BY <1>3, <1>4, <1>5
<1> QED  BY <1>1, <1>4, <1>6

\* Finite sets of numbers have a greatest one.
LEMMA LastEnd == \E e \in Ends : \A f \in Ends : f <= e
<1> DEFINE Without2(S) == \A e \in S : \E f \in S : f > e
           Bad == {n \in Nat : \E S \in SUBSET Ends : S # {} /\ Without2(S) /\ Cardinality(S) = n}
<1>1. SUFFICES ASSUME Without2(Ends) PROVE FALSE
  BY EndsAssumption
<1>2. \A S \in SUBSET Ends : IsFiniteSet(S) /\ Cardinality(S) \in Nat
  BY EndsAssumption, FS_Subset, FS_CardinalityType
<1>3. Cardinality(Ends) \in Bad
  BY <1>1, <1>2, EndsAssumption
<1>4. Bad \in SUBSET Nat
  OBVIOUS
<1>5. PICK n \in Bad : \A x \in Bad : n <= x
  BY <1>3, <1>4, LeastNat
<1>6. PICK S \in SUBSET Ends : S # {} /\ Without2(S) /\ Cardinality(S) = n
  BY <1>5
<1>7. PICK e \in S : TRUE
  BY <1>6
<1>8. PICK f \in S : f > e
  BY <1>6
<1> DEFINE T == S \ {e}
<1>9. e \in Nat /\ f \in Nat /\ f \in T /\ T \in SUBSET Ends /\ S \subseteq Nat
  BY <1>8, EndsAssumption
<1>10. Cardinality(T) = n - 1
  BY <1>2, <1>6, <1>7, FS_RemoveElement
<1>11. \A x \in T : \E y \in T : y > x
  <2> TAKE x \in T
  <2>1. PICK y \in S : y > x
    BY <1>6
  <2>2. CASE y = e
    BY <2>1, <2>2, <1>8, <1>9
  <2>3. CASE y # e
    BY <2>1, <2>3
  <2> QED  BY <2>2, <2>3
<1>12. Cardinality(T) \in Nat
  BY <1>2, <1>9
<1>13. n - 1 \in Bad
  BY <1>9, <1>10, <1>11, <1>12
<1> HIDE DEF Bad
<1> QED  BY <1>4, <1>5, <1>13

LEMMA EndsAre ==
  /\ Total \in Ends /\ Total \in Nat \ {0} /\ \A f \in Ends : f <= Total
  /\ Ends \subseteq Piece /\ Piece \subseteq Nat
  /\ \A p \in Piece : EndOf[p] \in Ends /\ p <= EndOf[p]
  /\ \A p \in Piece : \A f \in Ends : p <= f => EndOf[p] <= f
<1>1. Total \in Ends /\ \A f \in Ends : f <= Total
  BY LastEnd DEF Total
<1>2. Total \in Nat \ {0} /\ Ends \subseteq Nat \ {0}
  BY <1>1, EndsAssumption
<1>3. Ends \subseteq Piece /\ Piece \subseteq Nat
  BY <1>1, <1>2 DEF Piece
<1>4. ASSUME NEW p \in Piece
      PROVE  EndOf[p] \in Ends /\ p <= EndOf[p] /\ \A f \in Ends : p <= f => EndOf[p] <= f
  <2> DEFINE Rest == {e \in Ends : p <= e}
  <2>1. Total \in Rest /\ p \in Nat
    BY <1>1, <1>2, <1>3 DEF Piece
  <2>2. Rest \in SUBSET Nat
    BY <1>2
  <2>3. \E m \in Rest : \A x \in Rest : m <= x
    BY <2>1, <2>2, LeastNat
  <2>4. \E e \in Ends : e >= p /\ \A f \in Ends : f >= p => e <= f
    BY <2>1, <2>3, <1>2
  <2>5. EndOf[p] = CHOOSE e \in Ends : e >= p /\ \A f \in Ends : f >= p => e <= f
    BY DEF EndOf
  <2>6. EndOf[p] \in Ends /\ EndOf[p] >= p /\ \A f \in Ends : f >= p => EndOf[p] <= f
    BY <2>4, <2>5
  <2> QED  BY <2>1, <2>6, <1>2
<1> QED  BY <1>1, <1>2, <1>3, <1>4

-----------------------------------------------------------------------------
(* What is on its way                                                      *)

LEMMA AppendIs ==
  ASSUME NEW E, NEW q \in Seq(E), NEW x \in E
  PROVE  /\ Append(q, x) \in Seq(E) /\ Len(q) \in Nat /\ Len(Append(q, x)) = Len(q) + 1
         /\ Append(q, x)[Len(q) + 1] = x
         /\ \A n \in 1 .. Len(q) : Append(q, x)[n] = q[n] /\ q[n] \in E
OBVIOUS

LEMMA TailIs ==
  ASSUME NEW E, NEW q \in Seq(E), q # << >>
  PROVE  /\ Tail(q) \in Seq(E) /\ Len(q) \in Nat /\ Len(q) >= 1 /\ Len(Tail(q)) = Len(q) - 1
         /\ Head(q) = q[1] /\ q[1] \in E
         /\ \A n \in 1 .. Len(q) - 1 : Tail(q)[n] = q[n + 1]
OBVIOUS

LEMMA SubSeqIs ==
  ASSUME NEW E, NEW q \in Seq(E), NEW i \in Nat \ {0}, NEW j \in 0 .. Len(q), i <= j + 1
  PROVE  /\ SubSeq(q, i, j) \in Seq(E) /\ Len(SubSeq(q, i, j)) = j - i + 1
         /\ \A n \in 1 .. j - i + 1 : SubSeq(q, i, j)[n] = q[i + n - 1]
OBVIOUS

LEMMA JoinOf ==
  ASSUME NEW E, NEW q \in Seq(E), NEW t \in Seq(E), NEW c, c = q \o t
  PROVE  /\ c \in Seq(E) /\ Len(c) = Len(q) + Len(t)
         /\ \A n \in 1 .. Len(q) : c[n] = q[n]
         /\ \A n \in 1 .. Len(t) : c[Len(q) + n] = t[n]
OBVIOUS

LEMMA PairIs ==
  ASSUME NEW E, NEW x \in E, NEW y \in E
  PROVE  <<x, y>> \in Seq(E) /\ Len(<<x, y>>) = 2 /\ <<x, y>>[1] = x /\ <<x, y>>[2] = y
OBVIOUS

LEMMA SentCarries ==
  ASSUME NEW P, NEW ch \in Seq([pdu : P, late : BOOLEAN]), NEW pdu \in P,
         NEW c \in Sent(ch, pdu)
  PROVE  /\ c \in Seq([pdu : P, late : BOOLEAN])
         /\ Carried(c) \subseteq Carried(ch) \cup {pdu} /\ pdu \in Carried(c)
<1> DEFINE E == [pdu : P, late : BOOLEAN]
           new == [pdu |-> pdu, late |-> FALSE]
<1>1. new \in E /\ new.pdu = pdu
  OBVIOUS
<1>2. CASE c = Append(ch, new)
  <2>1. c \in Seq(E) /\ Len(c) = Len(ch) + 1 /\ c[Len(ch) + 1] = new
        /\ \A n \in 1 .. Len(ch) : c[n] = ch[n]
    BY <1>1, <1>2
  <2> HIDE DEF E, new
  <2>2. \A n \in 1 .. Len(c) : n \in 1 .. Len(ch) \/ n = Len(ch) + 1
    BY <2>1
  <2> QED  BY SMTT(30), <2>1, <2>2, <1>1 DEF Carried, E, new
<1>3. CASE ch # << >> /\ c = SubSeq(ch, 1, Len(ch) - 1) \o <<new, [ch[Len(ch)] EXCEPT !.late = TRUE]>>
  <2> DEFINE l == Len(ch)
             last == [ch[l] EXCEPT !.late = TRUE]
             l1 == l - 1
             front == SubSeq(ch, 1, l1)
             two == <<new, last>>
  <2> HIDE DEF E, new
  <2>0. ch \in Seq(E) /\ ch # << >>
    BY <1>3 DEF E
  <2>1. l \in Nat /\ l >= 1 /\ ch[l] \in E
    <3>1. Len(ch) \in Nat /\ Len(ch) # 0 /\ \A n \in 1 .. Len(ch) : ch[n] \in E
      BY <2>0
    <3> QED  BY <3>1
  <2>2. last \in E /\ last.pdu = ch[l].pdu
    BY <2>1 DEF E
  <2>3. l1 \in 0 .. l /\ 1 <= l1 + 1
    BY <2>1
  <2> HIDE DEF l1
  <2>4. front \in Seq(E) /\ Len(front) = l1 - 1 + 1 /\ \A n \in 1 .. l1 - 1 + 1 : front[n] = ch[1 + n - 1]
    BY <2>0, <2>1, <2>3, SubSeqIs
  <2>5. front \in Seq(E) /\ Len(front) = l - 1 /\ \A n \in 1 .. l - 1 : front[n] = ch[n]
    BY <2>1, <2>4 DEF l1
  <2> HIDE DEF last
  <2>6. two \in Seq(E) /\ Len(two) = 2 /\ two[1] = new /\ two[2] = last
    BY <1>1, <2>2, PairIs
  <2>7. c = front \o two
    BY <1>3 DEF last, l1
  <2> HIDE DEF front, two, l
  <2>8. /\ c \in Seq(E) /\ Len(c) = Len(front) + Len(two)
        /\ \A n \in 1 .. Len(front) : c[n] = front[n]
        /\ \A n \in 1 .. Len(two) : c[Len(front) + n] = two[n]
    <3>1. front \in Seq(E) /\ two \in Seq(E)
      BY <2>5, <2>6
    <3> QED  BY <3>1, <2>7, JoinOf
  <2>9. c[l - 1 + 1] = new /\ c[l - 1 + 2] = last
    BY <2>5, <2>6, <2>8
  <2>10. Len(c) = l + 1 /\ c[l] = new /\ c[l + 1] = last
         /\ \A n \in 1 .. l - 1 : c[n] = ch[n]
    BY <2>1, <2>5, <2>6, <2>8, <2>9
  <2>11. \A n \in 1 .. Len(c) : n \in 1 .. l - 1 \/ n = l \/ n = l + 1
    BY <2>1, <2>10
  <2>12. \A n \in 1 .. l : ch[n].pdu \in Carried(ch)
    BY DEF Carried, l
  <2>13. \A n \in 1 .. Len(c) : c[n].pdu \in Carried(ch) \cup {pdu}
    BY <1>1, <2>1, <2>2, <2>10, <2>11, <2>12
  <2>14. l \in 1 .. Len(c) /\ c[l].pdu = pdu
    BY <1>1, <2>1, <2>10
  <2> QED  BY <2>8, <2>13, <2>14 DEF Carried, E
<1> QED  BY <1>2, <1>3 DEF Sent

LEMMA TailCarries ==
  ASSUME NEW P, NEW ch \in Seq([pdu : P, late : BOOLEAN]), ch # << >>
  PROVE  /\ Tail(ch) \in Seq([pdu : P, late : BOOLEAN])
         /\ Carried(Tail(ch)) \subseteq Carried(ch)
         /\ Head(ch).pdu \in Carried(ch) /\ Head(ch).pdu \in P
<1> DEFINE E == [pdu : P, late : BOOLEAN]
<1>0. \A x \in E : x.pdu \in P
  OBVIOUS
<1> HIDE DEF E
<1>1. /\ Tail(ch) \in Seq(E) /\ Len(Tail(ch)) = Len(ch) - 1 /\ Len(ch) \in Nat /\ Len(ch) >= 1
      /\ \A n \in 1 .. Len(ch) - 1 : Tail(ch)[n] = ch[n + 1]
      /\ Head(ch) = ch[1] /\ ch[1] \in E
  BY TailIs DEF E
<1>2. 1 \in 1 .. Len(ch) /\ \A n \in 1 .. Len(Tail(ch)) : n + 1 \in 1 .. Len(ch)
  BY <1>1
<1>3. \A n \in 1 .. Len(ch) : ch[n].pdu \in Carried(ch)
  BY DEF Carried
<1>4. \A n \in 1 .. Len(Tail(ch)) : Tail(ch)[n].pdu \in Carried(ch)
  BY <1>1, <1>2, <1>3
<1> QED  BY <1>0, <1>1, <1>2, <1>3, <1>4 DEF Carried, E

LEMMA WithoutCarries ==
  ASSUME NEW P, NEW ch \in Seq([pdu : P, late : BOOLEAN]), NEW k \in 1 .. Len(ch)
  PROVE  /\ Without(ch, k) \in Seq([pdu : P, late : BOOLEAN])
         /\ Carried(Without(ch, k)) \subseteq Carried(ch)
<1> DEFINE E == [pdu : P, late : BOOLEAN]
           l == Len(ch)
           k1 == k - 1
           k2 == k + 1
           one == SubSeq(ch, 1, k1)
           two == SubSeq(ch, k2, l)
           c == one \o two
<1> HIDE DEF E
<1>1. l \in Nat /\ k \in Nat /\ 1 <= k /\ k <= l /\ ch \in Seq(E)
  BY DEF E
<1>2. k1 \in 0 .. l /\ k2 \in Nat \ {0} /\ l \in 0 .. l /\ k2 <= l + 1 /\ 1 <= k1 + 1
  BY <1>1
<1> HIDE DEF k1, k2
<1>3. one \in Seq(E) /\ Len(one) = k1 - 1 + 1 /\ \A n \in 1 .. k1 - 1 + 1 : one[n] = ch[1 + n - 1]
  BY <1>1, <1>2, SubSeqIs
<1>4. two \in Seq(E) /\ Len(two) = l - k2 + 1 /\ \A n \in 1 .. l - k2 + 1 : two[n] = ch[k2 + n - 1]
  BY <1>1, <1>2, SubSeqIs
<1> HIDE DEF one, two, l
<1>5. one \in Seq(E) /\ Len(one) = k - 1 /\ \A n \in 1 .. k - 1 : one[n] = ch[n]
  BY <1>1, <1>3 DEF k1
<1>6. two \in Seq(E) /\ Len(two) = l - k /\ \A n \in 1 .. l - k : two[n] = ch[k + n]
  BY <1>1, <1>4 DEF k2
<1>7. /\ c \in Seq(E) /\ Len(c) = Len(one) + Len(two)
      /\ \A n \in 1 .. Len(one) : c[n] = one[n]
      /\ \A n \in 1 .. Len(two) : c[Len(one) + n] = two[n]
  <2> HIDE DEF c
  <2>1. c = one \o two
    BY DEF c
  <2>2. one \in Seq(E) /\ two \in Seq(E)
    BY <1>5, <1>6
  <2> HIDE DEF c
  <2> QED  BY <2>1, <2>2, JoinOf
<1> HIDE DEF c
<1>8. \A n \in 1 .. l : ch[n].pdu \in Carried(ch)
  BY DEF Carried, l
<1>9. ASSUME NEW n \in 1 .. Len(c)
      PROVE  c[n].pdu \in Carried(ch)
  <2>1. CASE n <= k - 1
    BY <2>1, <1>1, <1>5, <1>7, <1>8
  <2>2. CASE ~ (n <= k - 1)
    <3> DEFINE x == n - (k - 1)
    <3>1. x \in 1 .. l - k /\ k + x \in 1 .. l /\ n = Len(one) + x
      BY <2>2, <1>1, <1>5, <1>6, <1>7
    <3> HIDE DEF x
    <3>2. c[n] = two[x] /\ two[x] = ch[k + x]
      BY <1>6, <1>7, <3>1
    <3> QED  BY <1>8, <3>1, <3>2
  <2> QED  BY <2>1, <2>2
<1>10. c = Without(ch, k)
  BY DEF c, one, two, l, k1, k2, Without
<1> QED  BY <1>7, <1>9, <1>10 DEF Carried, E

-----------------------------------------------------------------------------
(* The receiving side                                                      *)

LEMMA FirstMissingIs ==
  ASSUME NEW win, NEW j \in Int, NEW h \in Int, j <= h, h <= j + Window,
         win[SnOf(h)] = None
  PROVE  \E q \in j .. h :
           /\ FirstMissing(win, SnOf(j)) = SnOf(q) /\ win[SnOf(q)] = None
           /\ \A x \in j .. q - 1 : win[SnOf(x)] # None
<1> DEFINE missing == {k \in 0 .. Window : win[(SnOf(j) + k) % Mod] = None}
           c == CHOOSE k \in missing : \A y \in missing : k <= y
<1>1. \A k \in Int : (SnOf(j) + k) % Mod = SnOf(j + k)
  BY SnPlus
<1>2. h - j \in missing /\ missing \in SUBSET Nat
  <2>1. h - j \in 0 .. Window /\ h - j \in Int /\ j + (h - j) = h
    BY Constants
  <2>2. (SnOf(j) + (h - j)) % Mod = SnOf(j + (h - j))
    BY <2>1, SnPlus
  <2>3. win[(SnOf(j) + (h - j)) % Mod] = None
    BY <2>1, <2>2
  <2>4. missing \in SUBSET Nat
    BY Constants
  <2> QED  BY <2>1, <2>3, <2>4
<1>3. \E k \in missing : \A y \in missing : k <= y
  BY <1>2, LeastNat
<1>4. c \in missing /\ \A y \in missing : c <= y
  BY <1>3
<1>5. FirstMissing(win, SnOf(j)) = (SnOf(j) + c) % Mod
  BY DEF FirstMissing
<1>6. c \in Nat /\ c <= h - j /\ c \in 0 .. Window /\ win[(SnOf(j) + c) % Mod] = None
  BY <1>2, <1>4
<1>7. ASSUME NEW x \in j .. j + c - 1
      PROVE  win[SnOf(x)] # None
  <2>1. x - j \in 0 .. Window /\ x - j \in Int /\ j + (x - j) = x /\ ~ (c <= x - j)
    BY <1>6, Constants
  <2>2. x - j \notin missing
    BY <1>4, <2>1
  <2> QED  BY <2>1, <2>2, <1>1
<1> HIDE DEF c, missing
<1>8. j + c \in j .. h /\ (SnOf(j) + c) % Mod = SnOf(j + c)
  BY <1>1, <1>6
<1> QED  BY <1>5, <1>6, <1>7, <1>8

\* The receiver goes on to r1, h1, m1 and keeps what it has.
RxGoesOn(s, r, h, r1, h1, m1) ==
  /\ vrR' = SnOf(r1) /\ vrH' = SnOf(h1) /\ vrMs' = SnOf(m1)
  /\ r <= r1 /\ r1 <= m1 /\ m1 <= h1 /\ h <= h1 /\ h1 <= s
  /\ RxHolds(r1, h1, m1)' /\ Held(r, h) \subseteq Held(r1, h1)'

LEMMA FrameBounds ==
  ASSUME NEW a \in Int, NEW s \in Int, NEW r \in Int, NEW h \in Int, NEW m \in Int,
         Frame(a, s, r, h, m)
  PROVE  /\ FirstSn <= a /\ a <= r /\ r <= m /\ m <= h /\ h <= s
         /\ s <= a + Window /\ h <= r + Window /\ s <= r + Window
         /\ s < r + Mod /\ s < a + Mod /\ h + 1 < r + Mod
BY Constants DEF Frame

LEMMA AheadIs ==
  ASSUME NEW r \in Int, vrR = SnOf(r)
  PROVE  /\ \A j \in Int : r <= j /\ j < r + Mod => Ahead(SnOf(j), vrR) = j - r
         /\ \A j \in Int : j < r /\ r <= j + Mod => Ahead(SnOf(j), vrR) = j - r + Mod
<1>1. ASSUME NEW j \in Int, r <= j, j < r + Mod
      PROVE  Ahead(SnOf(j), vrR) = j - r
  <2>1. j - r < Mod
    BY <1>1, Constants
  <2> QED  BY <1>1, <2>1, SnAhead DEF Ahead
<1>2. ASSUME NEW j \in Int, j < r, r <= j + Mod
      PROVE  Ahead(SnOf(j), vrR) = j - r + Mod
  <2>1. r - j <= Mod
    BY <1>2, Constants
  <2> QED  BY <1>2, <2>1, SnBehind DEF Ahead
<1> QED  BY <1>1, <1>2

LEMMA KeepFullMoves ==
  ASSUME NEW a \in Int, NEW s \in Int, NEW r \in Int, NEW h \in Int, NEW m \in Int,
         Frame(a, s, r, h, m), RxHolds(r, h, m), RxTypes,
         NEW d \in Int, r <= d, d < s, NEW lo \in Nat \ {0}, NEW hi \in Nat,
         NEW p, NEW asked, NEW done,
         KeepFull(SnOf(d), lo, hi, p, asked, done)
  PROVE  \E r1, h1, m1 \in Int : RxGoesOn(s, r, h, r1, h1, m1)
<1> DEFINE win == [rxWindow EXCEPT ![SnOf(d)] = [lo |-> lo, hi |-> hi]]
           h1 == IF d >= h THEN d + 1 ELSE h
<1>1. /\ FirstSn <= r /\ r <= m /\ m <= h /\ h <= s /\ s <= r + Window /\ h <= r + Window
      /\ vrR = SnOf(r) /\ vrH = SnOf(h) /\ vrMs = SnOf(m)
  BY SMTT(40), FrameBounds, Constants DEF Frame
<1>2. h1 \in Int /\ h <= h1 /\ h1 <= s /\ d < h1 /\ h1 <= r + Window /\ h1 <= m + Window /\ m <= h1
      /\ r <= h1
  BY <1>1, Constants
<1>3. \A j \in Int : r <= j /\ j < r + Mod => Ahead(SnOf(j), vrR) = j - r
  BY <1>1, AheadIs
<1>4. SnOf(d) \in Sn /\ \A j \in Int : SnOf(j) \in Sn
  BY SnOfIs
<1>5. Later(SnOf(d), vrH) = SnOf(h1)
  <2>1. Ahead(SnOf(d), vrR) = d - r /\ Ahead(vrH, vrR) = h - r
    <3>1. d < r + Mod /\ h < r + Mod /\ r <= h
      BY <1>1, Constants
    <3> QED  BY <1>1, <1>3, <3>1
  <2>2. (SnOf(d) + 1) % Mod = SnOf(d + 1)
    BY SnPlus
  <2> QED  BY <2>1, <2>2, <1>1 DEF Later
<1>6. /\ win \in [Sn -> [lo : Nat, hi : Nat]]
      /\ win[SnOf(d)] # None
      /\ \A x \in Sn : x # SnOf(d) => win[x] = rxWindow[x]
      /\ \A x \in Sn : rxWindow[x] # None => win[x] # None
  BY <1>4 DEF RxTypes, None
<1> HIDE DEF win
<1>7. ASSUME NEW x \in Sn, win[x] # None
      PROVE  \E j \in r .. h1 - 1 : x = SnOf(j)
  <2>1. CASE x = SnOf(d)
    BY <2>1, <1>2
  <2>2. CASE x # SnOf(d)
    <3>1. PICK j \in r .. h - 1 : x = SnOf(j)
      BY <2>2, <1>6, <1>7 DEF RxHolds
    <3>2. j \in r .. h1 - 1
      BY <1>1, <1>2
    <3> QED  BY <3>1, <3>2
  <2> QED  BY <2>1, <2>2
<1> HIDE DEF h1
<1>8. win[SnOf(h1)] = None
  <2> SUFFICES ASSUME win[SnOf(h1)] # None PROVE FALSE
    OBVIOUS
  <2>1. PICK j \in r .. h1 - 1 : SnOf(h1) = SnOf(j)
    BY <1>2, <1>4, <1>7
  <2>2. h1 - j < Mod /\ j - h1 < Mod /\ j \in Int /\ j # h1
    BY <1>1, <1>2, Constants
  <2> QED  BY <2>1, <2>2, <1>2, SnUnique
<1>9. PICK r1 \in r .. h1 :
        /\ FirstMissing(win, vrR) = SnOf(r1) /\ win[SnOf(r1)] = None
        /\ \A x \in r .. r1 - 1 : win[SnOf(x)] # None
  BY <1>1, <1>2, <1>8, FirstMissingIs
<1>10. PICK m1 \in m .. h1 :
        /\ FirstMissing(win, vrMs) = SnOf(m1) /\ win[SnOf(m1)] = None
  BY <1>1, <1>2, <1>8, FirstMissingIs
<1>11. /\ r1 \in Int /\ m1 \in Int /\ r <= r1 /\ r1 <= m1 /\ m1 <= h1 /\ r1 <= h1
  <2>1. r1 \in Int /\ m1 \in Int /\ r <= r1 /\ m <= m1 /\ m1 <= h1 /\ r1 <= h1
    BY <1>1, <1>2
  <2>2. CASE m1 < r1
    <3>1. m1 \in r .. r1 - 1
      BY <2>1, <2>2, <1>1
    <3> QED  BY <3>1, <1>9, <1>10
  <2> QED  BY <2>1, <2>2
<1>12. Ahead(SnOf(r1), vrR) = r1 - r
  <2>1. r1 < r + Mod
    BY <1>1, <1>2, <1>11, Constants
  <2> QED  BY <2>1, <1>3, <1>11
<1>13. /\ vrR' = SnOf(r1) /\ vrH' = SnOf(h1) /\ vrMs' = SnOf(m1)
       /\ rxWindow' = [x \in Sn |-> IF x \in {y \in Sn : Ahead(y, vrR) < r1 - r}
                                    THEN None ELSE win[x]]
  <2>1. /\ vrR' = FirstMissing(win, vrR) /\ vrH' = Later(SnOf(d), vrH)
        /\ vrMs' = FirstMissing(win, vrMs)
        /\ rxWindow' = [x \in Sn |-> IF x \in {y \in Sn : Ahead(y, vrR) < Ahead(FirstMissing(win, vrR), vrR)}
                                     THEN None ELSE win[x]]
    BY DEF KeepFull, win
  <2>2. Ahead(FirstMissing(win, vrR), vrR) = r1 - r
    BY <1>9, <1>12
  <2> QED  BY <2>1, <2>2, <1>5, <1>9, <1>10
<1>14. ASSUME NEW x \in Sn, rxWindow'[x] # None
       PROVE  win[x] # None /\ ~ (Ahead(x, vrR) < r1 - r)
  BY <1>13, <1>14
<1>15. ASSUME NEW x \in Sn, rxWindow'[x] # None
       PROVE  \E j \in r1 .. h1 - 1 : x = SnOf(j)
  <2>1. PICK j \in r .. h1 - 1 : x = SnOf(j)
    BY <1>7, <1>14, <1>15
  <2>2. Ahead(x, vrR) = j - r
    <3>1. j \in Int /\ r <= j /\ j < r + Mod
      BY <1>1, <1>2, Constants
    <3> QED  BY <2>1, <3>1, <1>3
  <2>3. j \in r1 .. h1 - 1
    BY <1>2, <1>11, <1>14, <1>15, <2>2
  <2> QED  BY <2>1, <2>3
<1>16. rxWindow'[SnOf(r1)] = None /\ rxWindow'[SnOf(m1)] = None
  BY <1>4, <1>9, <1>10, <1>11, <1>14
<1>17. Held(r, h) \subseteq Held(r1, h1)'
  <2> SUFFICES ASSUME NEW j \in Held(r, h) PROVE j \in Held(r1, h1)'
    OBVIOUS
  <2>1. j \in FirstSn .. h - 1 /\ (j < r \/ rxWindow[SnOf(j)] # None)
    BY DEF Held
  <2>2. j \in FirstSn .. h1 - 1
    BY <2>1, <1>1, <1>2, Constants
  <2>3. CASE j < r1
    BY <2>2, <2>3 DEF Held
  <2>4. CASE r1 <= j
    <3>1. j \in Int /\ r <= j /\ j < r + Mod /\ ~ (j < r)
      BY <2>1, <2>4, <1>1, <1>11, Constants
    <3>2. Ahead(SnOf(j), vrR) = j - r /\ win[SnOf(j)] # None
      BY <3>1, <2>1, <1>3, <1>4, <1>6
    <3>3. ~ (j - r < r1 - r)
      BY <2>4, <1>11, <3>1
    <3>4. rxWindow'[SnOf(j)] = win[SnOf(j)]
      <4>1. SnOf(j) \in Sn /\ SnOf(j) \notin {y \in Sn : Ahead(y, vrR) < r1 - r}
        BY <3>1, <3>2, <3>3, <1>4
      <4> QED  BY <4>1, <1>13
    <3> QED  BY <2>2, <3>2, <3>4 DEF Held
  <2> QED  BY <2>2, <2>3, <2>4, <1>11 DEF Held
<1>18. ASSUME reordering'
       PROVE  \E x \in r1 + 1 .. h1 : vrX' = SnOf(x)
  <2> DEFINE runs == reordering /\ vrX # SnOf(r1)
                       /\ (InsideRxWindow(vrX, SnOf(r1)) \/ vrX = (SnOf(r1) + Window) % Mod)
             starts == ~ runs /\ Ahead(SnOf(h1), SnOf(r1)) > 0
  <2>1. (runs \/ starts) /\ vrX' = IF starts THEN SnOf(h1) ELSE vrX
    BY <1>5, <1>9, <1>18 DEF KeepFull, win
  <2>2. CASE starts
    <3>1. Ahead(SnOf(h1), SnOf(r1)) = h1 - r1
      <4>1. h1 - r1 < Mod
        BY <1>1, <1>2, <1>11, Constants
      <4> QED  BY <4>1, <1>2, <1>11, SnAhead DEF Ahead
    <3>2. h1 \in r1 + 1 .. h1
      BY <2>2, <3>1, <1>2, <1>11
    <3> QED  BY <2>1, <2>2, <3>2
  <2>3. CASE runs
    <3>1. PICK x \in r + 1 .. h : vrX = SnOf(x)
      BY <2>3 DEF RxHolds
    <3>2. x \in Int /\ r + 1 <= x /\ x <= h1
      BY <1>1, <1>2
    <3>3. CASE r1 < x
      <4>1. x \in r1 + 1 .. h1 /\ ~ starts
        BY <2>3, <3>2, <3>3, <1>2, <1>11
      <4> QED  BY <2>1, <3>1, <4>1
    <3>4. CASE x = r1
      BY <2>3, <3>1, <3>4
    <3>5. CASE x < r1
      <4>1. r1 - x < Window /\ r1 - x <= Mod
        BY <3>2, <3>5, <1>1, <1>2, <1>11, Constants
      <4>2. Ahead(vrX, SnOf(r1)) = x - r1 + Mod
        BY <3>1, <3>2, <3>5, <4>1, <1>11, SnBehind DEF Ahead
      <4>3. ~ InsideRxWindow(vrX, SnOf(r1))
        BY <3>2, <4>1, <4>2, <1>11, Constants DEF InsideRxWindow
      <4>4. SnOf(x) = SnOf(r1 + Window)
        BY <2>3, <3>1, <4>3, <1>11, SnPlus, Constants
      <4> DEFINE y == r1 + Window
      <4>5. y \in Int /\ x - y < Mod /\ y - x < Mod /\ x # y
        BY <3>2, <3>5, <4>1, <1>11, Constants
      <4> QED  BY <3>2, <4>4, <4>5, SnUnique
    <3> QED  BY <3>2, <3>3, <3>4, <3>5, <1>11
  <2> QED  BY <2>1, <2>2, <2>3
<1>19. RxHolds(r1, h1, m1)'
  BY <1>15, <1>16, <1>18 DEF RxHolds
<1>20. RxGoesOn(s, r, h, r1, h1, m1)
  BY <1>2, <1>11, <1>13, <1>17, <1>19 DEF RxGoesOn
<1> QED  BY <1>2, <1>11, <1>20

LEMMA KeepFullTypes ==
  ASSUME RxTypes, vrH \in Sn, NEW sn \in Sn, NEW lo \in Nat, NEW hi \in Nat,
         NEW p \in BOOLEAN, NEW asked \in BOOLEAN, NEW done,
         KeepFull(sn, lo, hi, p, asked, done)
  PROVE  RxTypes'
<1> DEFINE win == [rxWindow EXCEPT ![sn] = [lo |-> lo, hi |-> hi]]
           r == FirstMissing(win, vrR)
           n == Ahead(r, vrR)
           h == Later(sn, vrH)
           ms == FirstMissing(win, vrMs)
           passed == {s \in Sn : Ahead(s, vrR) < n}
           runs == reordering /\ vrX # r
                     /\ (InsideRxWindow(vrX, r) \/ vrX = (r + Window) % Mod)
           starts == ~ runs /\ Ahead(h, r) > 0
<1>1. /\ rxWindow' = [s \in Sn |-> IF s \in passed THEN None ELSE win[s]]
      /\ rxSegments' = [s \in Sn |-> IF s \in passed \cup done THEN {} ELSE rxSegments[s]]
      /\ segKeys' = segKeys \ done
      /\ pollReceived' = (pollReceived \/ p)
      /\ doStatus' = (asked \/ (p /\ Ahead(sn, vrR) < Ahead(ms, vrR)))
      /\ reordering' = (runs \/ starts)
      /\ vrX' = IF starts THEN h ELSE vrX
      /\ prohibited' = prohibited
  BY DEF KeepFull
<1>2. h \in Sn
  <2>1. sn + 1 \in Int
    BY Constants
  <2>2. (sn + 1) % Mod \in 0 .. Mod - 1
    BY <2>1, Constants
  <2> QED  BY <2>2, Constants DEF Later
<1>3. win \in [Sn -> [lo : Nat, hi : Nat]] /\ None \in [lo : Nat, hi : Nat]
  BY DEF RxTypes, None
<1> HIDE DEF win, r, n, h, ms, passed, runs, starts
<1>4. rxWindow' \in [Sn -> [lo : Nat, hi : Nat]]
  BY <1>1, <1>3
<1>5. rxSegments' \in [Sn -> SUBSET Segments] /\ segKeys' \subseteq Sn
  BY <1>1 DEF RxTypes
<1>6. pollReceived' \in BOOLEAN /\ doStatus' \in BOOLEAN /\ reordering' \in BOOLEAN
      /\ prohibited' \in BOOLEAN
  BY <1>1 DEF RxTypes, runs, starts
<1>7. vrX' \in Sn
  BY <1>1, <1>2 DEF RxTypes
<1> QED  BY <1>4, <1>5, <1>6, <1>7 DEF RxTypes

LEMMA DiscardStays ==
  ASSUME NEW a \in Int, NEW s \in Int, NEW r \in Int, NEW h \in Int, NEW m \in Int,
         Frame(a, s, r, h, m), RxHolds(r, h, m), RxTypes,
         UNCHANGED <<rxWindow, vrR, vrH, vrMs, vrX, reordering>>
  PROVE  RxGoesOn(s, r, h, r, h, m)
BY DEF RxGoesOn, Frame, RxHolds, Held

LEMMA CompleteIs ==
  ASSUME NEW segs \in SUBSET Segments, Complete(segs)
  PROVE  FirstOf(segs).lo \in Piece /\ LastOf(segs).hi \in Piece
<1>1. PICK s \in segs : s.lsf /\ \A off \in 0 .. s.so + s.hi - s.lo :
        \E t \in segs : t.so <= off /\ off <= t.so + t.hi - t.lo
  BY DEF Complete
<1>2. LastOf(segs) \in segs
  BY <1>1 DEF LastOf
<1>3. \E t \in segs : t.so = 0
  <2>1. s.so \in Nat /\ s.lo \in Nat /\ s.hi \in Nat /\ s.lo <= s.hi
    <3>1. /\ s.so \in 0 .. Total - 1 /\ s.lo \in Piece /\ s.hi \in Piece /\ s.lo <= s.hi
      BY DEF Segments
    <3>2. Total \in Nat \ {0} /\ Piece = 1 .. Total
      BY EndsAre DEF Piece
    <3> HIDE DEF Piece
    <3> QED  BY <3>1, <3>2
  <2>2. 0 \in 0 .. s.so + s.hi - s.lo
    BY <2>1
  <2>3. PICK t \in segs : t.so <= 0
    BY <1>1, <2>2
  <2>4. t.so \in 0 .. Total - 1
    BY DEF Segments
  <2> QED  BY <2>3, <2>4, EndsAre
<1>4. FirstOf(segs) \in segs
  BY <1>3 DEF FirstOf
<1> QED  BY <1>2, <1>4 DEF Segments

LEMMA HandleDataMoves ==
  ASSUME NEW a \in Int, NEW s \in Int, NEW r \in Int, NEW h \in Int, NEW m \in Int,
         Frame(a, s, r, h, m), RxHolds(r, h, m), RxTypes,
         NEW pdu \in DataPdus, NEW d \in s - Window .. s - 1, pdu.sn = SnOf(d),
         HandleData(pdu)
  PROVE  RxTypes' /\ \E r1, h1, m1 \in Int : RxGoesOn(s, r, h, r1, h1, m1)
<1> DEFINE sn == pdu.sn
           seg == [so |-> pdu.so, lo |-> pdu.lo, hi |-> pdu.hi, lsf |-> pdu.lsf, p |-> pdu.p]
           segs == WithSegment(rxSegments[sn], seg)
<1>1. /\ sn \in Sn /\ pdu.lo \in Piece /\ pdu.hi \in Piece /\ pdu.p \in BOOLEAN
      /\ d \in Int /\ d < s /\ vrR = SnOf(r) /\ vrH = SnOf(h) /\ vrH \in Sn
      /\ Piece \subseteq Nat \ {0}
  BY Constants, SnOfIs, EndsAre DEF DataPdus, Pdus, Frame, Piece
<1>0. /\ FirstSn <= r /\ r <= m /\ m <= h /\ h <= s /\ h <= r + Window /\ s <= r + Window
      /\ h < r + Mod /\ s < r + Mod
  BY FrameBounds, Constants
<1>2. seg \in Segments
  BY DEF DataPdus, Pdus, Segments
<1>3. segs \in SUBSET Segments
  <2>1. rxSegments[sn] \in SUBSET Segments
    BY <1>1 DEF RxTypes
  <2> QED  BY <2>1, <1>2 DEF WithSegment
<1>4. ASSUME InsideRxWindow(sn, vrR)
      PROVE  r <= d
  <2> SUFFICES ASSUME d < r PROVE FALSE
    BY <1>1
  <2>1. r <= d + Mod /\ d - r + Mod >= Window
    BY <1>0, Constants
  <2>2. Ahead(SnOf(d), vrR) = d - r + Mod
    BY <2>1, <1>1, AheadIs
  <2> QED  BY <1>4, <2>1, <2>2, Constants DEF InsideRxWindow
<1>5. CASE Discard(pdu.p)
  <2>1. UNCHANGED <<rxWindow, vrR, vrH, vrMs, vrX, reordering>>
    BY <1>5 DEF Discard
  <2>2. RxTypes'
    BY <1>1, <1>5 DEF Discard, RxTypes
  <2> QED  BY <2>1, <2>2, DiscardStays
<1>6. CASE ~ pdu.rf /\ InsideRxWindow(sn, vrR) /\ rxWindow[sn] = None
  <2>1. KeepFull(SnOf(d), pdu.lo, pdu.hi, pdu.p, doStatus, {})
    BY <1>6 DEF HandleData, HandleFull
  <2>2. pdu.lo \in Nat \ {0} /\ pdu.hi \in Nat /\ doStatus \in BOOLEAN
    BY <1>1 DEF RxTypes
  <2>3. RxTypes'
    BY <2>1, <2>2, <1>1, KeepFullTypes
  <2>4. \E r1, h1, m1 \in Int : RxGoesOn(s, r, h, r1, h1, m1)
    BY <2>1, <2>2, <1>1, <1>4, <1>6, KeepFullMoves
  <2> QED  BY <2>3, <2>4
<1>7. CASE pdu.rf /\ InsideRxWindow(sn, vrR) /\ sn \in segKeys /\ Complete(segs) /\ rxWindow[sn] = None
  <2> DEFINE lo == FirstOf(segs).lo
             hi == LastOf(segs).hi
             p == \E x \in segs : x.p
  <2>1. KeepFull(SnOf(d), lo, hi, p, doStatus \/ pdu.p, {sn})
    BY <1>7 DEF HandleData, HandleSegment
  <2>2. lo \in Piece /\ hi \in Piece
    BY <1>3, <1>7, CompleteIs
  <2>3. lo \in Nat \ {0} /\ lo \in Nat /\ hi \in Nat /\ p \in BOOLEAN /\ (doStatus \/ pdu.p) \in BOOLEAN
    BY <2>2, <1>1
  <2> HIDE DEF lo, hi, p
  <2>4. RxTypes'
    BY ZenonT(60), <2>1, <2>3, <1>1, KeepFullTypes
  <2>5. \E r1, h1, m1 \in Int : RxGoesOn(s, r, h, r1, h1, m1)
    BY <2>1, <2>3, <1>1, <1>4, <1>7, KeepFullMoves
  <2> QED  BY <2>4, <2>5
<1>8. CASE pdu.rf /\ InsideRxWindow(sn, vrR) /\ sn \in segKeys /\ Complete(segs) /\ rxWindow[sn] # None
  <2>1. /\ doStatus' = (doStatus \/ pdu.p \/ \E x \in segs : x.p)
        /\ rxSegments' = [rxSegments EXCEPT ![sn] = {}]
        /\ segKeys' = segKeys \ {sn}
        /\ UNCHANGED <<rxWindow, vrR, vrH, vrX, vrMs, pollReceived, reordering, prohibited>>
    BY <1>8 DEF HandleData, HandleSegment
  <2>2. RxTypes'
    BY <2>1 DEF RxTypes
  <2> QED  BY <2>1, <2>2, DiscardStays
<1>9. CASE pdu.rf /\ InsideRxWindow(sn, vrR) /\ sn \in segKeys /\ ~ Complete(segs)
  <2>1. /\ doStatus' = (doStatus \/ pdu.p)
        /\ rxSegments' = [rxSegments EXCEPT ![sn] = segs]
        /\ UNCHANGED <<rxWindow, segKeys, vrR, vrH, vrX, vrMs, pollReceived, reordering, prohibited>>
    BY <1>9 DEF HandleData, HandleSegment
  <2> HIDE DEF segs
  <2>2. RxTypes'
    BY <2>1, <1>3 DEF RxTypes
  <2> QED  BY <2>1, <2>2, DiscardStays
<1>10. CASE pdu.rf /\ InsideRxWindow(sn, vrR) /\ sn \notin segKeys
  <2> DEFINE h1 == IF d >= h THEN d + 1 ELSE h
  <2>1. /\ segKeys' = segKeys \cup {sn}
        /\ rxSegments' = [rxSegments EXCEPT ![sn] = {seg}]
        /\ vrH' = Later(sn, vrH)
        /\ pollReceived' = (pollReceived \/ pdu.p)
        /\ doStatus' = (doStatus \/ (pdu.p /\ Ahead(sn, vrR) < Ahead(vrMs, vrR)))
        /\ UNCHANGED <<rxWindow, vrR, vrX, vrMs, reordering, prohibited>>
    BY <1>10 DEF HandleData, HandleSegment
  <2> HIDE DEF seg
  <2>2. RxTypes'
    BY <2>1, <1>1, <1>2 DEF RxTypes
  <2>3. r <= d
    BY <1>4, <1>10
  <2>4. vrH' = SnOf(h1)
    <3>1. d < r + Mod /\ h < r + Mod /\ r <= h
      BY <1>0, <1>1, Constants
    <3>2. Ahead(SnOf(d), vrR) = d - r /\ Ahead(vrH, vrR) = h - r
      BY <1>1, <2>3, <3>1, AheadIs
    <3>3. (SnOf(d) + 1) % Mod = SnOf(d + 1)
      BY <1>1, SnPlus
    <3> QED  BY <2>1, <3>2, <3>3, <1>1 DEF Later
  <2>5. h1 \in Int /\ h <= h1 /\ h1 <= s /\ r <= r /\ r <= m /\ m <= h1
    BY <1>0, <1>1
  <2> HIDE DEF h1
  <2>6. RxHolds(r, h1, m)'
    <3>1. \A x \in Sn : rxWindow'[x] # None => \E j \in r .. h1 - 1 : x = SnOf(j)
      <4> SUFFICES ASSUME NEW x \in Sn, rxWindow'[x] # None
                   PROVE  \E j \in r .. h1 - 1 : x = SnOf(j)
        OBVIOUS
      <4>1. PICK j \in r .. h - 1 : x = SnOf(j)
        BY <2>1 DEF RxHolds
      <4>2. j \in r .. h1 - 1
        BY <2>5
      <4> QED  BY <4>1, <4>2
    <3>2. rxWindow'[SnOf(r)] = None /\ rxWindow'[SnOf(m)] = None
      BY <2>1 DEF RxHolds
    <3>3. ASSUME reordering'
          PROVE  \E x \in r + 1 .. h1 : vrX' = SnOf(x)
      <4>1. PICK x \in r + 1 .. h : vrX = SnOf(x)
        BY <2>1, <3>3 DEF RxHolds
      <4>2. x \in r + 1 .. h1
        BY <2>5
      <4> QED  BY <2>1, <4>1, <4>2
    <3> QED  BY <3>1, <3>2, <3>3 DEF RxHolds
  <2>7. Held(r, h) \subseteq Held(r, h1)'
    <3> SUFFICES ASSUME NEW j \in Held(r, h) PROVE j \in Held(r, h1)'
      OBVIOUS
    <3>0. j \in FirstSn .. h - 1
      BY DEF Held
    <3>1. j \in FirstSn .. h1 - 1
      BY <3>0, <2>5, Constants
    <3> QED  BY <3>1, <2>1 DEF Held
  <2>8. RxGoesOn(s, r, h, r, h1, m)
    BY <2>1, <2>4, <2>5, <2>6, <2>7 DEF RxGoesOn, Frame
  <2> QED  BY <2>2, <2>5, <2>8
<1> QED
  BY <1>5, <1>6, <1>7, <1>8, <1>9, <1>10 DEF HandleData, HandleFull, HandleSegment

LEMMA ReorderingMoves ==
  ASSUME NEW a \in Int, NEW s \in Int, NEW r \in Int, NEW h \in Int, NEW m \in Int,
         Frame(a, s, r, h, m), RxHolds(r, h, m), RxTypes, ReorderingExpires
  PROVE  RxTypes' /\ \E m1 \in Int : RxGoesOn(s, r, h, r, h, m1)
<1>0. /\ FirstSn <= r /\ r <= m /\ m <= h /\ h <= s /\ h <= r + Window /\ h < r + Mod
  BY FrameBounds, Constants
<1>1. /\ vrR = SnOf(r) /\ vrH = SnOf(h) /\ vrH \in Sn
  BY SnOfIs DEF Frame
<1> DEFINE ms == FirstMissing(rxWindow, vrX)
           again == Ahead(vrH, vrR) > Ahead(ms, vrR)
<1>2. /\ reordering /\ vrMs' = ms /\ doStatus' = (doStatus \/ pollReceived)
      /\ reordering' = again /\ vrX' = IF again THEN vrH ELSE vrX
      /\ UNCHANGED <<rxWindow, rxSegments, segKeys, vrR, vrH, pollReceived, prohibited>>
  BY DEF ReorderingExpires
<1>3. PICK x \in r + 1 .. h : vrX = SnOf(x)
  BY <1>2 DEF RxHolds
<1>4. x \in Int /\ r < x /\ x <= h /\ h <= x + Window
  BY <1>0, Constants
<1>5. rxWindow[SnOf(h)] = None
  <2> SUFFICES ASSUME rxWindow[SnOf(h)] # None PROVE FALSE
    OBVIOUS
  <2>1. PICK j \in r .. h - 1 : SnOf(h) = SnOf(j)
    BY SnOfIs DEF RxHolds
  <2>2. h - j < Mod /\ j - h < Mod /\ j \in Int /\ j # h
    BY <1>0, Constants
  <2> QED  BY <2>1, <2>2, SnUnique
<1>6. PICK m1 \in x .. h : ms = SnOf(m1) /\ rxWindow[SnOf(m1)] = None
  BY ZenonT(60), <1>3, <1>4, <1>5, FirstMissingIs
<1>7. m1 \in Int /\ r < m1 /\ m1 <= h /\ m1 < r + Mod
  BY <1>0, <1>4, Constants
<1>8. Ahead(vrH, vrR) = h - r /\ Ahead(ms, vrR) = m1 - r
  BY <1>0, <1>1, <1>6, <1>7, AheadIs
<1> HIDE DEF ms
<1>9. RxTypes'
  BY <1>1, <1>2 DEF RxTypes
<1>10. ASSUME reordering'
       PROVE  \E y \in r + 1 .. h : vrX' = SnOf(y)
  <2>1. h \in r + 1 .. h
    BY <1>2, <1>7, <1>8, <1>10
  <2> QED  BY <2>1, <1>1, <1>2, <1>10
<1>11. RxHolds(r, h, m1)'
  BY <1>2, <1>6, <1>10 DEF RxHolds
<1>12. RxGoesOn(s, r, h, r, h, m1)
  BY <1>0, <1>1, <1>2, <1>6, <1>7, <1>11 DEF RxGoesOn, Held
<1> QED  BY <1>7, <1>9, <1>12

\* Every sequence number is that of a number from r on.
LEMMA AheadBack ==
  ASSUME NEW r \in Int, vrR = SnOf(r), NEW x \in Sn
  PROVE  Ahead(x, vrR) \in 0 .. Mod - 1 /\ SnOf(r + Ahead(x, vrR)) = x
<1> DEFINE y == Ahead(x, vrR)
           z == r + y
<1>1. PICK p \in Int : r = Mod * p + vrR
  BY SnOfIs
<1>2. vrR \in Int /\ x \in Int /\ x \in 0 .. Mod - 1 /\ Mod \in Nat \ {0}
  BY SnOfIs, Constants
<1>3. x - vrR \in Int
  BY <1>2
<1>4. y \in 0 .. Mod - 1 /\ \E q \in Int : x - vrR = Mod * q + y
  BY <1>2, <1>3, Division DEF Ahead
<1>5. PICK q \in Int : x - vrR = Mod * q + y
  BY <1>4
<1> DEFINE c == p - q
<1> HIDE DEF y
<1>6. z = Mod * c + x
  <2>1. Mod * c = Mod * p - Mod * q /\ Mod * p \in Int /\ Mod * q \in Int
    BY <1>2, Times
  <2>2. y \in Int
    BY <1>2, <1>4
  <2> HIDE DEF c
  <2> QED  BY <1>1, <1>2, <1>5, <2>1, <2>2
<1>7. c \in Int /\ z \in Int
  BY <1>2, <1>4
<1> HIDE DEF c, z
<1>8. z % Mod = x
  BY <1>2, <1>6, <1>7, Remainder
<1> QED  BY <1>4, <1>8 DEF SnOf, z, y

Missing == {s \in Sn : Ahead(s, vrR) < Ahead(vrMs, vrR) /\ rxWindow[s] = None}
Before(s) == {x \in Missing : Ahead(x, vrR) < Ahead(s, vrR)}
Nacked(room) == {s \in Missing : Cardinality(Before(s)) < room}
CutOff(room) == CHOOSE s \in Missing \ Nacked(room) : Before(s) = Nacked(room)
Had(cut) == {s \in Sn : Ahead(s, vrR) < Ahead(cut, vrR) /\ rxWindow[s] # None}
LastHad(had) == CHOOSE s \in had : \A t \in had : Ahead(t, vrR) <= Ahead(s, vrR)

LEMMA StatusWithIs ==
  ASSUME NEW room
  PROVE  StatusWith(room) =
           CASE Missing = Nacked(room) -> [ack |-> vrMs, nacks |-> Nacked(room)]
             [] Missing # Nacked(room) /\ Had(CutOff(room)) # {}
                  /\ Before(LastHad(Had(CutOff(room)))) = Nacked(room) ->
                  [ack |-> LastHad(Had(CutOff(room))), nacks |-> Nacked(room)]
             [] OTHER -> [ack |-> vrR, nacks |-> {}]
BY DEF StatusWith, Missing, Before, Nacked, CutOff, Had, LastHad

\* The first NACK that is left out has all that are kept before it.
LEMMA CutOffIs ==
  ASSUME NEW r \in Int, vrR = SnOf(r), NEW room \in Nat, Missing # Nacked(room)
  PROVE  CutOff(room) \in Missing \ Nacked(room) /\ Before(CutOff(room)) = Nacked(room)
<1> DEFINE left == Missing \ Nacked(room)
           far == {Ahead(x, vrR) : x \in left}
<1>1. \A x \in Sn : Ahead(x, vrR) \in Nat
  BY SMTT(30), AheadBack, Constants
<1>2. Missing \subseteq Sn /\ left # {} /\ Nacked(room) \subseteq Missing
  BY DEF Missing, Nacked
<1>3. far \in SUBSET Nat /\ far # {}
  BY <1>1, <1>2
<1>4. PICK f \in far : \A g \in far : f <= g
  BY <1>3, LeastNat
<1>5. PICK c \in left : f = Ahead(c, vrR)
  BY <1>4
<1>6. \A x \in left : Ahead(c, vrR) <= Ahead(x, vrR)
  BY <1>4, <1>5
<1>7. Before(c) \subseteq Nacked(room)
  <2> SUFFICES ASSUME NEW x \in Before(c), x \notin Nacked(room) PROVE FALSE
    OBVIOUS
  <2>1. x \in left /\ Ahead(x, vrR) < Ahead(c, vrR) /\ x \in Sn /\ c \in Sn
    BY <1>2 DEF Before
  <2> QED  BY <2>1, <1>1, <1>6
<1>8. Nacked(room) \subseteq Before(c)
  <2> SUFFICES ASSUME NEW x \in Nacked(room), ~ (Ahead(x, vrR) < Ahead(c, vrR)) PROVE FALSE
    BY <1>2 DEF Before
  <2>1. x \in Sn /\ c \in Sn /\ Ahead(c, vrR) <= Ahead(x, vrR)
    BY <1>1, <1>2
  <2>2. Before(c) \subseteq Before(x)
    BY <2>1, <1>1, <1>2 DEF Before
  <2>3. IsFiniteSet(Sn)
    BY Constants, FS_Interval
  <2>4. Before(x) \subseteq Sn
    BY <1>2 DEF Before
  <2>5. IsFiniteSet(Before(x))
    BY <2>3, <2>4, FS_Subset
  <2>6. /\ Cardinality(Before(c)) \in Nat /\ Cardinality(Before(x)) \in Nat
        /\ Cardinality(Before(c)) <= Cardinality(Before(x))
    BY <2>2, <2>5, FS_Subset, FS_CardinalityType
  <2>7. Cardinality(Before(x)) < room /\ ~ (Cardinality(Before(c)) < room)
    BY <1>2 DEF Nacked
  <2> QED  BY <2>6, <2>7
<1>9. \E y \in left : Before(y) = Nacked(room)
  BY <1>7, <1>8
<1> QED  BY <1>9 DEF CutOff

LEMMA LastHadIs ==
  ASSUME NEW r \in Int, vrR = SnOf(r), NEW had \in SUBSET Sn, had # {}
  PROVE  LastHad(had) \in had /\ \A t \in had : Ahead(t, vrR) <= Ahead(LastHad(had), vrR)
<1> DEFINE far == {Ahead(x, vrR) : x \in had}
<1>0. Mod \in Int
  BY Constants
<1>1. \A x \in Sn : Ahead(x, vrR) \in Int /\ Ahead(x, vrR) <= Mod
  BY <1>0, AheadBack
<1>2. far \in SUBSET Int /\ far # {} /\ \A y \in far : y <= Mod
  BY <1>1
<1>3. PICK f \in far : \A g \in far : g <= f
  <2> HIDE DEF far
  <2> QED  BY <1>0, <1>2, Greatest
<1>4. \E x \in had : \A t \in had : Ahead(t, vrR) <= Ahead(x, vrR)
  BY <1>3
<1> QED  BY <1>4 DEF LastHad

\* Each status PDU is the truth about what the receiver has when it is sent.
LEMMA StatusWithTrue ==
  ASSUME NEW a \in Int, NEW s \in Int, NEW r \in Int, NEW h \in Int, NEW m \in Int,
         Frame(a, s, r, h, m), RxHolds(r, h, m), NEW room \in Nat
  PROVE  /\ StatusWith(room) \in Statuses
         /\ \E u \in Reports : /\ u.have = Held(r, h) /\ AckFits(u)
                               /\ r <= u.k /\ u.k <= h /\ Says(StatusWith(room), u, a)
<1> DEFINE R(k) == [k |-> k, have |-> Held(r, h)]
<1>0. /\ FirstSn <= a /\ a <= r /\ r <= m /\ m <= h /\ m <= a + Window /\ m < r + Mod
      /\ FirstSn \in Int
  BY FrameBounds, Constants
<1>1. vrR = SnOf(r) /\ vrMs = SnOf(m) /\ vrR \in Sn /\ vrMs \in Sn
  BY SnOfIs DEF Frame
<1>2. Ahead(vrMs, vrR) = m - r
  BY <1>0, <1>1, AheadIs
<1>3. ASSUME NEW j \in Int, a <= j, j < m
      PROVE  SnOf(j) \in Missing <=> j \notin Held(r, h)
  <2>1. j \in FirstSn .. h - 1 /\ SnOf(j) \in Sn
    BY <1>0, <1>3, SnOfIs
  <2>2. CASE j < r
    <3>1. r <= j + Mod /\ ~ (j - r + Mod < m - r)
      BY <1>0, <1>3, Constants
    <3>2. Ahead(SnOf(j), vrR) = j - r + Mod
      BY <1>1, <2>2, <3>1, AheadIs
    <3> QED  BY <1>2, <2>1, <2>2, <3>1, <3>2 DEF Missing, Held
  <2>3. CASE r <= j
    <3>1. j < r + Mod /\ j - r < m - r /\ ~ (j < r)
      BY <1>0, <1>3, <2>3, Constants
    <3>2. Ahead(SnOf(j), vrR) = j - r
      BY <1>1, <2>3, <3>1, AheadIs
    <3> QED  BY <1>2, <2>1, <3>1, <3>2 DEF Missing, Held
  <2> QED  BY <2>2, <2>3
<1>4. \A j \in FirstSn .. r - 1 : j \in Held(r, h)
  BY <1>0 DEF Held
<1>5. \A j \in Held(r, h) : j \in Int /\ j < h /\ (j < r \/ rxWindow[SnOf(j)] # None)
  BY <1>0 DEF Held
<1>6. r \notin Held(r, h) /\ m \notin Held(r, h) /\ Held(r, h) \subseteq Int
  BY <1>0, <1>5 DEF RxHolds
<1>7. \A k \in Int : R(k) \in Reports /\ R(k).k = k /\ R(k).have = Held(r, h)
  BY <1>6 DEF Reports
<1>8. Missing \subseteq Sn /\ Nacked(room) \subseteq Missing
  BY DEF Missing, Nacked
<1> HIDE DEF R
<1>9. CASE Missing = Nacked(room)
  <2>1. StatusWith(room) = [ack |-> vrMs, nacks |-> Missing]
    BY <1>9, StatusWithIs
  <2>2. StatusWith(room) \in Statuses
    BY <1>1, <1>8, <2>1 DEF Statuses
  <2>3. Says(StatusWith(room), R(m), a)
    BY <1>0, <1>1, <1>3, <1>7, <2>1 DEF Says
  <2>4. AckFits(R(m))
    BY <1>6, <1>7 DEF AckFits
  <2> QED  BY <1>0, <1>7, <2>2, <2>3, <2>4
<1>10. CASE StatusWith(room) = [ack |-> vrR, nacks |-> {}]
  <2>1. StatusWith(room) \in Statuses
    BY <1>1, <1>10 DEF Statuses
  <2>2. Says(StatusWith(room), R(r), a)
    <3>1. \A j \in a .. r - 1 : j \in FirstSn .. r - 1
      BY <1>0
    <3> QED  BY <1>1, <1>4, <1>7, <1>10, <3>1 DEF Says
  <2>3. AckFits(R(r))
    BY <1>6, <1>7 DEF AckFits
  <2>4. r <= R(r).k /\ R(r).k <= h
    BY <1>0, <1>7
  <2> QED  BY <1>7, <2>1, <2>2, <2>3, <2>4
<1>11. CASE /\ Missing # Nacked(room) /\ Had(CutOff(room)) # {}
            /\ Before(LastHad(Had(CutOff(room)))) = Nacked(room)
  <2> DEFINE cut == CutOff(room)
             last == LastHad(Had(cut))
             c == r + Ahead(cut, vrR)
             l == r + Ahead(last, vrR)
  <2>1. StatusWith(room) = [ack |-> last, nacks |-> Nacked(room)] /\ Before(last) = Nacked(room)
    BY <1>11, StatusWithIs
  <2>2. cut \in Missing
    BY <1>1, <1>11, CutOffIs
  <2>3. Had(cut) \in SUBSET Sn
    BY DEF Had
  <2>4. last \in Had(cut) /\ \A t \in Had(cut) : Ahead(t, vrR) <= Ahead(last, vrR)
    BY <1>1, <1>11, <2>3, LastHadIs
  <2>5. cut \in Sn /\ last \in Sn
    BY <1>8, <2>2, <2>3, <2>4
  <2>6. /\ Ahead(cut, vrR) \in 0 .. Mod - 1 /\ SnOf(c) = cut
        /\ Ahead(last, vrR) \in 0 .. Mod - 1 /\ SnOf(l) = last
    BY <1>1, <2>5, AheadBack
  <2>7. c \in Int /\ l \in Int /\ r <= l /\ l < c /\ c < m
    <3>1. Ahead(cut, vrR) < m - r /\ Ahead(last, vrR) < Ahead(cut, vrR)
      BY <1>2, <2>2, <2>4 DEF Missing, Had
    <3> QED  BY <1>0, <2>6, <3>1, Constants
  <2>8. Ahead(cut, vrR) = c - r /\ Ahead(last, vrR) = l - r
    BY <2>6, Constants
  <2>9. rxWindow[SnOf(c)] = None /\ rxWindow[SnOf(l)] # None
    BY <2>2, <2>4, <2>6 DEF Missing, Had
  <2> HIDE DEF cut, last, c, l
  <2>10. l \in Held(r, h) /\ l # r
    <3>1. l \in FirstSn .. h - 1
      BY <1>0, <2>7
    <3> QED  BY <2>9, <3>1 DEF Held, RxHolds
  <2>11. l + 1 \notin Held(r, h)
    <3> SUFFICES ASSUME l + 1 \in Held(r, h) PROVE FALSE
      OBVIOUS
    <3> DEFINE j == l + 1
    <3>1. j \in Int /\ r <= j /\ j < r + Mod /\ ~ (j < r)
      BY <1>0, <2>7, Constants
    <3>2. rxWindow[SnOf(j)] # None /\ SnOf(j) \in Sn
      BY <1>5, <3>1, SnOfIs
    <3>3. j < c
      <4>1. j # c
        BY <2>9, <3>2
      <4> QED  BY <4>1, <2>7
    <3>4. Ahead(SnOf(j), vrR) = j - r
      BY <1>1, <3>1, AheadIs
    <3>5. j - r < c - r /\ ~ (j - r <= l - r)
      BY <2>7, <3>3
    <3> HIDE DEF j
    <3>6. SnOf(j) \in Had(cut)
      BY <2>8, <3>2, <3>4, <3>5 DEF Had
    <3> QED  BY <2>4, <2>8, <3>4, <3>5, <3>6
  <2>12. \E n \in FirstSn .. l - 1 : n \notin Held(r, h) /\ \A j \in n + 1 .. l : j \in Held(r, h)
    <3> DEFINE gaps == {j \in r .. l - 1 : j \notin Held(r, h)}
    <3>1. gaps \in SUBSET Int /\ gaps # {} /\ \A x \in gaps : x <= l
      <4>1. r \in gaps
        BY <1>6, <2>7, <2>10
      <4> QED  BY <4>1, <2>7
    <3>2. \E n \in gaps : \A x \in gaps : x <= n
      <4> HIDE DEF gaps
      <4> QED  BY <2>7, <3>1, Greatest
    <3>5. PICK n \in gaps : \A x \in gaps : x <= n
      BY <3>2
    <3>3. ASSUME NEW j \in n + 1 .. l, j \notin Held(r, h)
          PROVE  FALSE
      <4>1. n \in r .. l - 1
        BY <3>5
      <4>2. j \in r .. l - 1
        BY <2>7, <2>10, <3>3, <4>1
      <4>3. j <= n
        BY <3>5, <3>3, <4>2
      <4> QED  BY <4>1, <4>3, <2>7
    <3>4. n \in FirstSn .. l - 1 /\ n \notin Held(r, h)
      BY <1>0, <2>7, <3>5
    <3> QED  BY <3>3, <3>4
  <2>13. AckFits(R(l))
    BY <1>7, <2>7, <2>11, <2>12 DEF AckFits
  <2>14. ASSUME NEW j \in a .. l - 1
         PROVE  SnOf(j) \in Nacked(room) <=> j \notin Held(r, h)
    <3>1. j \in Int /\ a <= j /\ j < m /\ j < l
      BY <1>0, <2>7
    <3>2. SnOf(j) \in Missing <=> j \notin Held(r, h)
      BY <1>3, <3>1
    <3>3. SnOf(j) \in Missing => Ahead(SnOf(j), vrR) < Ahead(last, vrR)
      <4> SUFFICES ASSUME j \notin Held(r, h) PROVE Ahead(SnOf(j), vrR) < Ahead(last, vrR)
        BY <3>2
      <4>1. r <= j /\ j < r + Mod
        BY <1>0, <1>4, <3>1, <2>7, Constants
      <4>2. Ahead(SnOf(j), vrR) = j - r
        BY <1>1, <3>1, <4>1, AheadIs
      <4> QED  BY <2>7, <2>8, <3>1, <4>2
    <3> QED  BY <2>1, <3>2, <3>3 DEF Before
  <2>15. Says(StatusWith(room), R(l), a)
    BY <1>7, <2>1, <2>6, <2>7, <2>14 DEF Says
  <2>16. StatusWith(room) \in Statuses
    BY <1>8, <2>1, <2>5 DEF Statuses
  <2>17. r <= R(l).k /\ R(l).k <= h
    BY <1>0, <1>7, <2>7
  <2> QED  BY <1>7, <2>7, <2>13, <2>15, <2>16, <2>17
<1> QED  BY <1>9, <1>10, <1>11, StatusWithIs
=============================================================================
