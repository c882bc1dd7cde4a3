--------------------------- MODULE DlHarqProofs ---------------------------
(***************************************************************************)
(* What downlink HARQ promises for every number of processes, tries and    *)
(* sizes, every delay and gap, and every loss: no process is retransmitted *)
(* beyond its tries, and the demultiplexer gets no block twice. Without    *)
(* gaps and refusals, each ACK finds its process, and the two ends carry   *)
(* one block after the other as TbTransfer says.                           *)
(***************************************************************************)
EXTENDS DlHarq, NaturalsInduction, WellFoundedInduction, TLAPS

(* Choices of the harq_entity                                              *)

LEMMA Least ==
  ASSUME NEW S \in SUBSET Nat, S # {}
  PROVE  \E m \in S : \A x \in S : m <= x
<1> DEFINE Less == OpToRel(<, Nat)
<1>1. PICK m \in S : \A x \in S : ~ (<<x, m>> \in Less)
  BY NatLessThanWellFounded, WFMin
<1>2. \A x \in S : x < m => <<x, m>> \in Less
  BY DEF OpToRel
<1> HIDE DEF Less
<1>3. \A x \in S : ~ (x < m)
  BY <1>1, <1>2
<1> QED
  BY <1>3

LEMMA Greatest ==
  ASSUME NEW n \in Nat, NEW S \in SUBSET (0 .. n), S # {}
  PROVE  \E m \in S : \A x \in S : x <= m
<1> DEFINE T == {n - x : x \in S}
<1>1. \A x \in S : x \in Int /\ x <= n /\ n - x \in Nat
  OBVIOUS
<1>2. T \in SUBSET Nat /\ T # {}
  BY <1>1
<1>3. PICK y \in T : \A z \in T : y <= z
  BY <1>2, Least
<1>4. PICK m \in S : y = n - m
  BY <1>3
<1>5. \A x \in S : n - x \in T
  OBVIOUS
<1> HIDE DEF T
<1>6. \A x \in S : n - m <= n - x
  BY <1>3, <1>4, <1>5
<1> QED
  BY <1>1, <1>4, <1>6

\* get_oldest_dl_harq finds a process that waits to be retransmitted.
LEMMA OldestFound ==
  ASSUME NEW hs, Candidates(hs) # {}
  PROVE  GetOldest(hs) \in Candidates(hs)
<1> DEFINE C == Candidates(hs)
           ages == {hs[p].age : p \in C}
<1>1. C # {} /\ C \in SUBSET Nat
  BY ProcsAssumption DEF GetOldest, Candidates, Pid
<1>2. NofHarq \in Nat
  BY DelaysAssumption DEF NofHarq
<1>3. ages \in SUBSET (0 .. 2 * NofHarq) /\ ages # {}
  <2>1. \A p \in C : hs[p].age \in NofHarq .. 2 * NofHarq - 1
    BY DEF Candidates, AckTtiIsRecent
  <2>2. NofHarq .. 2 * NofHarq - 1 \subseteq 0 .. 2 * NofHarq
    BY <1>2
  <2> QED  BY <1>1, <2>1, <2>2
<1>4. PICK a \in ages : \A x \in ages : x <= a
  <2>1. 2 * NofHarq \in Nat
    BY <1>2
  <2> HIDE DEF ages
  <2> QED
    BY <1>3, <2>1, Greatest
<1> DEFINE eldest == {p \in C : hs[p].age = a}
<1>5. eldest \in SUBSET Nat /\ eldest # {}
  BY <1>1, <1>4
<1>6. PICK m \in eldest : \A q \in eldest : m <= q
  BY <1>5, Least
<1>7. m \in C /\ hs[m].age = a /\ m \in Nat
  BY <1>5, <1>6
<1>8. ASSUME NEW q \in C
      PROVE  hs[q].age <= hs[m].age /\ (q < m => hs[q].age < hs[m].age)
  <2>1. hs[q].age \in ages /\ hs[q].age <= a
    BY <1>4
  <2>2. hs[q].age \in Nat /\ a \in Nat /\ q \in Nat
    BY <1>1, <1>2, <1>3, <1>4, <2>1
  <2>3. hs[q].age = a => m <= q
    BY <1>6
  <2> QED
    BY <1>7, <2>1, <2>2, <2>3
<1> HIDE DEF C
<1> QED
  BY <1>1, <1>7, <1>8 DEF GetOldest, C

LEMMA OldestWaits ==
  ASSUME NEW hs, GetOldest(hs) # NoPid
  PROVE  GetOldest(hs) \in Candidates(hs)
BY OldestFound DEF GetOldest

\* get_empty_dl_harq finds an empty one.
LEMMA EmptyIsEmpty ==
  ASSUME NEW hs, GetEmpty(hs) # NoPid
  PROVE  /\ GetEmpty(hs) \in Pid /\ ~ hs[GetEmpty(hs)].active
         /\ \A q \in Pid : q < GetEmpty(hs) => hs[q].active
<1> DEFINE E == {p \in Pid : ~ hs[p].active}
<1>1. E \in SUBSET Nat /\ E # {}
  BY ProcsAssumption DEF GetEmpty, Pid
<1>2. PICK m \in E : \A q \in E : m <= q
  BY <1>1, Least
<1>3. \A q \in Pid : q < m => hs[q].active
  <2>1. Pid \subseteq Nat /\ m \in Nat
    BY <1>1, ProcsAssumption DEF Pid
  <2>2. \A q \in Pid : ~ hs[q].active => m <= q
    BY <1>2
  <2> QED
    BY <2>1, <2>2
<1> QED
  BY <1>1, <1>2, <1>3 DEF GetEmpty

-----------------------------------------------------------------------------
(* Type correctness                                                        *)

HarqType ==
  [active : BOOLEAN, ack : BOOLEAN, nRtx : 0 .. MaxRetx - 1, ndi : BOOLEAN,
   tbs : Sizes \cup {0}, age : {NoAge} \cup 0 .. TtiMod - 1]
UeType ==
  [first : BOOLEAN, ndi : BOOLEAN, tbs : Sizes \cup {0}, ack : BOOLEAN,
   n : 0 .. NBound]

\* new_tti gives up the processes whose tries are over, so that none of them
\* is retransmitted in this TTI.
TriesInv ==
  phase = "alloc" =>
    \A p \in Pid : HasPendingRetx(harq[p]) => ~ LastTry(harq[p])

\* The DCI on the air is that of the last transmission of its process.
AirInv ==
  /\ air # NoDci => /\ phase = "air"
                    /\ air.ndi = harq[air.pid].ndi
                    /\ air.tbs = harq[air.pid].tbs

\* A process in use has a block.
BusyInv == \A p \in Pid : harq[p].active => harq[p].tbs \in Sizes

TypeInv == TypeOK /\ TriesInv /\ AirInv /\ BusyInv

\* What the constants are
LEMMA Constants ==
  /\ MaxRetx \in Nat \ {0} /\ TtiMod \in Nat \ {0} /\ NofHarq \in Nat
  /\ NBound \in Nat \ {0, 1} /\ MaxRetx <= NBound /\ NBound = DuplicateTimeout + 1
  /\ MaxRefused \in Nat /\ GapPeriod \in Nat /\ Pid \subseteq Nat
  /\ NoAge = -1 /\ NoPid \notin Pid
  /\ Sizes \subseteq Nat \ {0}
<1>1. NofHarq \in Nat \ {0}
  BY DelaysAssumption DEF NofHarq
<1> QED
  BY <1>1, MaxRetxAssumption, TtiModAssumption, TimeoutAssumption, DuplicateAssumption,
     RefusedAssumption, GapAssumption, ProcsAssumption, SizesAssumption
     DEF NBound, Pid, NoAge, NoPid

\* Each method of the processes keeps their type.
LEMMA MethodTypes ==
  ASSUME NEW h \in HarqType
  PROVE  /\ \A ok \in BOOLEAN : SetAck(h, ok) \in HarqType
         /\ HarqNewTti(h) \in HarqType
         /\ HasPendingRetx(HarqNewTti(h)) => ~ LastTry(HarqNewTti(h))
         /\ \A size \in Sizes : NewTx(h, size) \in HarqType
         /\ ~ LastTry(h) => NewRetx(h) \in HarqType
         /\ Older(h) \in HarqType
<1> USE Constants DEF HarqType
<1>1. \A ok \in BOOLEAN : SetAck(h, ok) \in HarqType
  BY DEF SetAck
<1>2. HarqNewTti(h) \in HarqType
  BY DEF HarqNewTti
<1>3. HasPendingRetx(HarqNewTti(h)) => ~ LastTry(HarqNewTti(h))
  BY DEF HarqNewTti, HasPendingRetx
<1>4. \A size \in Sizes : NewTx(h, size) \in HarqType
  BY DEF NewTx
<1>5. ~ LastTry(h) => NewRetx(h) \in HarqType
  <2> SUFFICES ASSUME ~ LastTry(h) PROVE NewRetx(h) \in HarqType
    OBVIOUS
  <2> DEFINE n == h.nRtx + 1
  <2>1. n \in 0 .. MaxRetx - 1
    BY DEF LastTry
  <2>2. NewRetx(h) = [h EXCEPT !.ack = FALSE, !.nRtx = n, !.age = 0]
    BY DEF NewRetx
  <2>3. 0 \in 0 .. TtiMod - 1
    OBVIOUS
  <2> HIDE DEF n
  <2> QED
    BY <2>1, <2>2, <2>3
<1>6. Older(h) \in HarqType
  <2>1. CASE h.age = NoAge
    BY <2>1 DEF Older
  <2>2. CASE h.age # NoAge
    <3>1. (h.age + 1) % TtiMod \in 0 .. TtiMod - 1
      BY <2>2
    <3> QED
      BY <2>2, <3>1 DEF Older
  <2> QED
    BY <2>1, <2>2
<1> QED
  BY <1>1, <1>2, <1>3, <1>4, <1>5, <1>6

LEMMA AfterGrantType ==
  ASSUME NEW u \in UeType, NEW dci
  PROVE  AfterGrant(u, dci) \in UeType
<1> USE Constants DEF UeType
<1> DEFINE n == IF StartsOver(u, dci) THEN 1
                ELSE IF u.n < NBound THEN u.n + 1 ELSE u.n
           ack == u.ack /\ ~ StartsOver(u, dci)
<1>1. n \in 0 .. NBound /\ ack \in BOOLEAN
  OBVIOUS
<1>2. AfterGrant(u, dci) = [u EXCEPT !.first = FALSE, !.ack = ack, !.n = n]
  BY DEF AfterGrant
<1> HIDE DEF n, ack
<1> QED
  BY <1>1, <1>2

LEMMA ReactType ==
  ASSUME NEW u \in UeType, NEW dci \in [pid : Pid, ndi : BOOLEAN, tbs : Sizes],
         NEW good \in BOOLEAN
  PROVE  /\ React(u, dci, good).ue \in UeType
         /\ React(u, dci, good).ack \in BOOLEAN
         /\ React(u, dci, good).push \in BOOLEAN
<1> USE Constants DEF UeType
<1> DEFINE v == AfterGrant(u, dci)
<1>1. v \in UeType
  BY AfterGrantType
<1> HIDE DEF v
<1>2. Decode(v, dci, good) \in UeType
  BY <1>1 DEF Decode
<1>3. DiscardDuplicate(v) \in UeType
  BY <1>1 DEF DiscardDuplicate, FreshUe
<1>4. React(u, dci, good) =
        IF v.ack
        THEN [ue |-> DiscardDuplicate(v), ack |-> TRUE, push |-> FALSE]
        ELSE [ue |-> Decode(v, dci, good), ack |-> good, push |-> good]
  BY DEF React, v
<1> DEFINE d == DiscardDuplicate(v)
           e == Decode(v, dci, good)
<1> HIDE DEF d, e
<1>5. CASE v.ack
  <2>1. React(u, dci, good) = [ue |-> d, ack |-> TRUE, push |-> FALSE]
    BY <1>4, <1>5 DEF d
  <2> QED
    BY <1>3, <2>1 DEF d
<1>6. CASE ~ v.ack
  <2>1. React(u, dci, good) = [ue |-> e, ack |-> good, push |-> good]
    BY <1>4, <1>6 DEF e
  <2> QED
    BY <1>2, <2>1 DEF e
<1> QED
  BY <1>5, <1>6

\* Nor does any of them put another block into a process in use.
LEMMA MethodsKeepBlock ==
  ASSUME NEW h \in HarqType
  PROVE  /\ \A ok \in BOOLEAN : SetAck(h, ok).active => h.active
         /\ HarqNewTti(h).active => h.active
         /\ \A ok \in BOOLEAN : SetAck(h, ok).tbs = h.tbs
         /\ HarqNewTti(h).tbs = h.tbs
         /\ Older(h).tbs = h.tbs /\ Older(h).ndi = h.ndi
         /\ Older(h).active = h.active /\ Older(h).nRtx = h.nRtx
         /\ NewRetx(h).tbs = h.tbs /\ NewRetx(h).ndi = h.ndi
         /\ NewRetx(h).active = h.active
BY DEF HarqType, SetAck, HarqNewTti, Older, NewRetx

\* What is sent is that of the process it is sent from.
LEMMA SendType ==
  ASSUME TypeInv, NEW p \in Pid, NEW h \in HarqType,
         harq' = [harq EXCEPT ![p] = h], h.tbs \in Sizes, Send(p)
  PROVE  /\ harq' \in [Pid -> HarqType]
         /\ air' \in [pid : Pid, ndi : BOOLEAN, tbs : Sizes] /\ air'.pid = p
         /\ uci' \in [Pid -> {"none", "no_ack", "ack"}]
         /\ phase' = "air" /\ AirInv' /\ BusyInv'
<1>1. harq \in [Pid -> HarqType]
  BY DEF TypeInv, TypeOK, HarqType
<1>2. harq' \in [Pid -> HarqType] /\ harq'[p] = h
  BY <1>1
<1>3. air' = [pid |-> p, ndi |-> h.ndi, tbs |-> h.tbs] /\ phase' = "air"
  BY <1>2 DEF Send
<1>4. h.ndi \in BOOLEAN
  BY DEF HarqType
<1>5. AirInv'
  BY <1>2, <1>3 DEF AirInv
<1>6. BusyInv'
  BY <1>1 DEF BusyInv, TypeInv
<1>7. uci' \in [Pid -> {"none", "no_ack", "ack"}]
  BY DEF Send, TypeInv, TypeOK
<1> QED
  BY <1>2, <1>3, <1>4, <1>5, <1>6, <1>7

LEMMA TypeInit == Init => TypeInv
<1> USE Constants
<1>1. EmptyProc \in HarqType
  BY DEF EmptyProc, HarqType
<1>2. FreshUe \in UeType
  BY DEF FreshUe, UeType
<1> SUFFICES ASSUME Init PROVE TypeInv
  OBVIOUS
<1>3. harq \in [Pid -> HarqType] /\ ue \in [Pid -> UeType]
  BY <1>1, <1>2 DEF Init
<1>4. /\ uci \in [Pid -> {"none", "no_ack", "ack"}] /\ air = NoDci /\ phase = "tti"
      /\ pushes \in [Pid -> Nat] /\ seen \in [Pid -> BOOLEAN]
      /\ prevSeen \in [Pid -> BOOLEAN] /\ lossy \in Lossy
      /\ gapPos \in 0 .. GapPeriod /\ refused \in 0 .. MaxRefused
  BY DEF Init
<1>5. BusyInv
  BY DEF Init, BusyInv, EmptyProc
<1> QED
  BY <1>3, <1>4, <1>5 DEF TypeInv, TypeOK, TriesInv, AirInv, HarqType, UeType

LEMMA TypeStep == TypeInv /\ [Next]_vars => TypeInv'
<1> SUFFICES ASSUME TypeInv, [Next]_vars PROVE TypeInv'
  OBVIOUS
<1>t. /\ harq \in [Pid -> HarqType] /\ ue \in [Pid -> UeType]
      /\ uci \in [Pid -> {"none", "no_ack", "ack"}]
      /\ air \in {NoDci} \cup [pid : Pid, ndi : BOOLEAN, tbs : Sizes]
      /\ gapPos \in 0 .. GapPeriod /\ refused \in 0 .. MaxRefused
      /\ phase \in {"tti", "alloc", "air"} /\ lossy \in Lossy
      /\ pushes \in [Pid -> Nat] /\ seen \in [Pid -> BOOLEAN]
      /\ prevSeen \in [Pid -> BOOLEAN]
      /\ TriesInv /\ AirInv /\ BusyInv
  BY DEF TypeInv, TypeOK, HarqType, UeType
<1>s. SUFFICES
      /\ harq' \in [Pid -> HarqType] /\ ue' \in [Pid -> UeType]
      /\ uci' \in [Pid -> {"none", "no_ack", "ack"}]
      /\ air' \in {NoDci} \cup [pid : Pid, ndi : BOOLEAN, tbs : Sizes]
      /\ gapPos' \in 0 .. GapPeriod /\ refused' \in 0 .. MaxRefused
      /\ phase' \in {"tti", "alloc", "air"} /\ lossy' \in Lossy
      /\ pushes' \in [Pid -> Nat] /\ seen' \in [Pid -> BOOLEAN]
      /\ prevSeen' \in [Pid -> BOOLEAN]
      /\ TriesInv' /\ AirInv' /\ BusyInv'
  BY DEF TypeInv, TypeOK, HarqType, UeType
<1>r. RefuseRetx => refused' \in 0 .. MaxRefused
  BY <1>t, Constants DEF RefuseRetx
<1>n. ASSUME NextTti PROVE
      /\ phase' = "tti" /\ air' = NoDci /\ harq' \in [Pid -> HarqType]
      /\ gapPos' \in 0 .. GapPeriod /\ refused' = refused /\ lossy' = lossy
      /\ TriesInv' /\ AirInv' /\ BusyInv'
  <2>1. harq' \in [Pid -> HarqType]
    BY <1>t, <1>n, MethodTypes DEF NextTti
  <2>2. gapPos' \in 0 .. GapPeriod
    BY <1>t, <1>n, Constants DEF NextTti
  <2>3. BusyInv'
    <3>1. ASSUME NEW p \in Pid, harq'[p].active PROVE harq'[p].tbs \in Sizes
      <4>1. harq'[p] = Older(harq[p]) /\ harq[p] \in HarqType
        BY <1>t, <1>n DEF NextTti
      <4>2. harq[p].active /\ harq'[p].tbs = harq[p].tbs
        BY <3>1, <4>1, MethodsKeepBlock
      <4> QED
        BY <1>t, <4>2 DEF BusyInv
    <3> QED
      BY <3>1 DEF BusyInv
  <2> QED
    BY <1>n, <2>1, <2>2, <2>3 DEF NextTti, TriesInv, AirInv
<1>1. CASE BeginTti
  <2>1. PICK ok \in BOOLEAN : harq' = [p \in Pid |-> HarqNewTti(Acked(ok)[p])]
    BY <1>1 DEF BeginTti
  <2>2. ASSUME NEW p \in Pid
        PROVE  Acked(ok)[p] \in HarqType
    <3>1. Acked(ok)[p] \in {harq[p], SetAck(harq[p], ok)}
      BY <1>t DEF Acked
    <3>2. harq[p] \in HarqType /\ SetAck(harq[p], ok) \in HarqType
      BY <1>t, MethodTypes
    <3> QED
      BY <3>1, <3>2
  <2>3. \A p \in Pid : /\ harq'[p] \in HarqType
                       /\ HasPendingRetx(harq'[p]) => ~ LastTry(harq'[p])
    BY <2>1, <2>2, MethodTypes
  <2>4. harq' \in [Pid -> HarqType]
    BY <2>1, <2>3
  <2>5. TriesInv'
    BY <2>3 DEF TriesInv
  <2>6. uci' \in [Pid -> {"none", "no_ack", "ack"}]
    BY <1>t, <1>1 DEF BeginTti
  <2>7. BusyInv'
    <3>1. ASSUME NEW p \in Pid, harq'[p].active PROVE harq'[p].tbs \in Sizes
      <4>1. Acked(ok)[p] \in {harq[p], SetAck(harq[p], ok)}
        BY <1>t DEF Acked
      <4>2. harq'[p] = HarqNewTti(Acked(ok)[p])
        BY <2>1
      <4>3. harq[p].active /\ harq'[p].tbs = harq[p].tbs
        BY <1>t, <2>2, <3>1, <4>1, <4>2, MethodsKeepBlock
      <4> QED
        BY <1>t, <4>3 DEF BusyInv
    <3> QED
      BY <3>1 DEF BusyInv
  <2>8. AirInv'
    BY <1>t, <1>1 DEF BeginTti, AirInv
  <2> QED
    BY <1>t, <1>1, <2>4, <2>5, <2>6, <2>7, <2>8 DEF BeginTti, history
<1>2. CASE AllocRetx
  <2> DEFINE p == GetOldest(harq)
  <2>1. p \in Pid /\ HasPendingRetx(harq[p])
    BY <1>2, OldestWaits DEF AllocRetx, RetxDue, Candidates
  <2>2. ~ LastTry(harq[p])
    BY <1>t, <1>2, <2>1 DEF AllocRetx, TriesInv
  <2>3. harq' = [harq EXCEPT ![p] = NewRetx(harq[p])]
    BY <1>2 DEF AllocRetx
  <2>4. NewRetx(harq[p]) \in HarqType
    BY <1>t, <2>1, <2>2, MethodTypes
  <2>5. harq[p].active /\ NewRetx(harq[p]).tbs \in Sizes
    BY ZenonT(40), <1>t, <2>1, MethodsKeepBlock DEF HasPendingRetx, BusyInv
  <2>6. Send(p)
    BY <1>2 DEF AllocRetx
  <2> HIDE DEF p
  <2>7. /\ harq' \in [Pid -> HarqType]
        /\ air' \in [pid : Pid, ndi : BOOLEAN, tbs : Sizes]
        /\ uci' \in [Pid -> {"none", "no_ack", "ack"}]
        /\ phase' = "air" /\ AirInv' /\ BusyInv'
    BY <2>1, <2>3, <2>4, <2>5, <2>6, SendType
  <2> QED
    BY <1>t, <1>2, <2>7 DEF AllocRetx, history, TriesInv
<1>3. CASE AllocNewTx
  <2> DEFINE p == GetEmpty(harq)
  <2>1. p \in Pid
    BY <1>3, EmptyIsEmpty DEF AllocNewTx
  <2>2. PICK size \in Sizes : harq' = [harq EXCEPT ![p] = NewTx(harq[p], size)]
    BY <1>3 DEF AllocNewTx
  <2>3. NewTx(harq[p], size) \in HarqType /\ NewTx(harq[p], size).tbs \in Sizes
    BY <1>t, <2>1, MethodTypes DEF NewTx
  <2>4. /\ Send(p) /\ RefuseRetx
        /\ pushes' = [pushes EXCEPT ![p] = 0]
        /\ prevSeen' = [prevSeen EXCEPT ![p] = seen[p]]
        /\ seen' = [seen EXCEPT ![p] = FALSE]
        /\ UNCHANGED <<ue, gapPos, lossy>>
    BY <1>3 DEF AllocNewTx
  <2> HIDE DEF p
  <2>5. /\ harq' \in [Pid -> HarqType]
        /\ air' \in [pid : Pid, ndi : BOOLEAN, tbs : Sizes]
        /\ uci' \in [Pid -> {"none", "no_ack", "ack"}]
        /\ phase' = "air" /\ AirInv' /\ BusyInv'
    BY <2>1, <2>2, <2>3, <2>4, SendType
  <2>6. /\ pushes' \in [Pid -> Nat] /\ prevSeen' \in [Pid -> BOOLEAN]
        /\ seen' \in [Pid -> BOOLEAN]
    BY <1>t, <2>1, <2>4
  <2> QED
    BY <1>t, <1>r, <2>4, <2>5, <2>6 DEF TriesInv
<1>4. CASE AllocNothing
  BY <1>t, <1>r, <1>4 DEF AllocNothing, history, TriesInv, AirInv, BusyInv
<1>5. CASE Receive
  <2> DEFINE p == air.pid
  <2>1. PICK good \in BOOLEAN :
          LET r == React(ue[p], air, good)
          IN  /\ ue' = [ue EXCEPT ![p] = r.ue]
              /\ uci' = [uci EXCEPT ![p] = IF r.ack THEN "ack" ELSE "no_ack"]
              /\ pushes' = [pushes EXCEPT ![p] = IF r.push THEN @ + 1 ELSE @]
              /\ seen' = [seen EXCEPT ![p] = TRUE]
    BY <1>5 DEF Receive
  <2>2. air \in [pid : Pid, ndi : BOOLEAN, tbs : Sizes] /\ p \in Pid
    BY <1>t, <1>5 DEF Receive
  <2>3. React(ue[p], air, good).ue \in UeType
    BY <1>t, <2>2, ReactType
  <2>4. /\ ue' \in [Pid -> UeType] /\ uci' \in [Pid -> {"none", "no_ack", "ack"}]
        /\ pushes' \in [Pid -> Nat] /\ seen' \in [Pid -> BOOLEAN]
    BY <1>t, <2>1, <2>2, <2>3
  <2>5. NextTti /\ prevSeen' = prevSeen
    BY <1>5 DEF Receive
  <2> QED
    BY <1>t, <1>n, <2>4, <2>5
<1>6. CASE Miss \/ Idle
  BY <1>t, <1>n, <1>6 DEF Miss, Idle, history
<1>7. CASE UNCHANGED vars
  BY <1>t, <1>7 DEF vars, history, TriesInv, AirInv, BusyInv
<1> QED
  BY <1>1, <1>2, <1>3, <1>4, <1>5, <1>6, <1>7 DEF Next

\* Whatever is lost and however the PHY's reports of it look, the processes of
\* both ends keep their types: none is retransmitted beyond its tries.
THEOREM TypeCorrect == Spec => []TypeOK
<1>1. TypeInv => TypeOK
  BY DEF TypeInv
<1> QED
  BY <1>1, TypeInit, TypeStep, PTL DEF Spec

-----------------------------------------------------------------------------
(* Copies                                                                  *)

OnAir(p) == air # NoDci /\ air.pid = p

\* What the UE has made of the eNB's current block, if it saw the one before.
\* Its count of copies goes with the eNB's tries, so that it forgets the block
\* only when no try is left.
Copy(p) ==
  /\ seen[p] => ue[p].first \/ ue[p].ndi = harq[p].ndi
  /\ prevSeen[p] /\ ~ seen[p] =>
       pushes[p] = 0 /\ (ue[p].first \/ ue[p].ndi # harq[p].ndi)
  /\ prevSeen[p] /\ seen[p] /\ ue[p].first =>
       /\ pushes[p] <= 1 /\ ~ OnAir(p)
       /\ ~ harq[p].active \/ LastTry(harq[p])
  /\ prevSeen[p] /\ seen[p] /\ ~ ue[p].first =>
       /\ ue[p].tbs = harq[p].tbs
       /\ pushes[p] = IF ue[p].ack THEN 1 ELSE 0
       /\ ue[p].n <= IF OnAir(p) THEN harq[p].nRtx ELSE harq[p].nRtx + 1

CopyInv == \A p \in Pid : Copy(p)

Types ==
  /\ harq \in [Pid -> HarqType] /\ ue \in [Pid -> UeType]
  /\ pushes \in [Pid -> Nat] /\ seen \in [Pid -> BOOLEAN]
  /\ prevSeen \in [Pid -> BOOLEAN]

LEMMA TypesOfInv == TypeInv => Types
BY DEF TypeInv, TypeOK, Types, HarqType, UeType

\* A step that leaves the block and the UE's process as they are
LEMMA CopyKept ==
  ASSUME Types, Types', NEW p \in Pid, Copy(p),
         ue'[p] = ue[p], pushes'[p] = pushes[p], seen'[p] = seen[p],
         prevSeen'[p] = prevSeen[p],
         harq'[p].ndi = harq[p].ndi, harq'[p].tbs = harq[p].tbs,
         harq'[p].nRtx = harq[p].nRtx, harq'[p].active => harq[p].active,
         OnAir(p)' => OnAir(p)
  PROVE  Copy(p)'
<1>1. harq[p].nRtx \in Nat /\ ue[p].n \in Nat
  BY Constants DEF Types, HarqType, UeType
<1>2. LastTry(harq[p]) => LastTry(harq[p])'
  BY DEF LastTry
<1> QED
  BY <1>1, <1>2 DEF Copy

\* The UE has a DCI of the block.
LEMMA CopyReceived ==
  ASSUME Types, NEW p \in Pid, Copy(p), air # NoDci, air.pid = p,
         air.ndi = harq[p].ndi, air.tbs = harq[p].tbs,
         NEW good \in BOOLEAN, seen'[p] = TRUE, prevSeen'[p] = prevSeen[p],
         ue'[p] = React(ue[p], air, good).ue,
         pushes'[p] = IF React(ue[p], air, good).push THEN pushes[p] + 1 ELSE pushes[p],
         harq'[p] = Older(harq[p]), air' = NoDci
  PROVE  Copy(p)'
<1> DEFINE u == ue[p]
           h == harq[p]
           v == AfterGrant(u, air)
<1>t. /\ u \in UeType /\ h \in HarqType /\ pushes[p] \in Nat
      /\ h.nRtx \in 0 .. MaxRetx - 1 /\ u.n \in 0 .. NBound
      /\ u.ack \in BOOLEAN /\ u.first \in BOOLEAN
      /\ seen[p] \in BOOLEAN /\ prevSeen[p] \in BOOLEAN
  BY DEF Types, HarqType, UeType
<1>h. /\ harq'[p].ndi = h.ndi /\ harq'[p].tbs = h.tbs /\ harq'[p].nRtx = h.nRtx
      /\ harq'[p].active = h.active
      /\ OnAir(p) /\ ~ OnAir(p)'
  BY <1>t, MethodsKeepBlock DEF OnAir
<1>a. /\ v.first = FALSE /\ v.ndi = u.ndi /\ v.tbs = u.tbs
      /\ v.ack = (u.ack /\ ~ StartsOver(u, air))
      /\ v.n = IF StartsOver(u, air) THEN 1 ELSE IF u.n < NBound THEN u.n + 1 ELSE u.n
  BY <1>t DEF AfterGrant, UeType
<1> HIDE DEF v
<1>1. CASE v.ack
  <2>1. ~ StartsOver(u, air) /\ u.ack /\ ~ u.first /\ air.ndi = u.ndi
    BY <1>1, <1>a DEF StartsOver, IsNewTransmission
  <2>2. ue'[p] = DiscardDuplicate(v) /\ pushes'[p] = pushes[p]
    BY <1>1 DEF React, v
  <2>3. ue'[p] = FreshUe \/ (ue'[p] = v /\ ~ (v.n > DuplicateTimeout))
    BY <2>2 DEF DiscardDuplicate
  <2>4. ue'[p] = FreshUe => v.n > DuplicateTimeout
    BY <1>a, <2>2, <2>3 DEF DiscardDuplicate, FreshUe
  <2>5. ASSUME prevSeen[p]
        PROVE  /\ pushes[p] = 1 /\ u.tbs = h.tbs /\ u.n <= h.nRtx
               /\ v.n <= h.nRtx + 1
    <3>1. seen[p]
      BY <1>t, <2>1, <2>5 DEF Copy
    <3>2. /\ u.tbs = h.tbs /\ pushes[p] = 1 /\ u.n <= h.nRtx
      BY <1>h, <2>1, <2>5, <3>1 DEF Copy
    <3>3. v.n <= u.n + 1
      BY <1>a, <1>t, <2>1, Constants
    <3>4. v.n \in Nat
      BY <1>a, <1>t, <2>1, Constants
    <3> HIDE DEF u, h
    <3> QED
      BY <1>t, <3>2, <3>3, <3>4, Constants
  <2>6. CASE ue'[p] = FreshUe
    <3>1. v.n > DuplicateTimeout
      BY <2>4, <2>6
    <3>2. v.n \in Nat
      BY <1>a, <1>t, <2>1, Constants
    <3>3. prevSeen[p] => LastTry(h)
      BY <1>t, <2>5, <3>1, <3>2, DuplicateAssumption, TimeoutAssumption, Constants
         DEF LastTry
    <3>4. LastTry(h) => LastTry(harq[p])'
      BY <1>h DEF LastTry
    <3>5. ue'[p].first
      BY <2>6 DEF FreshUe
    <3> QED
      BY <1>h, <2>2, <2>5, <3>3, <3>4, <3>5 DEF Copy
  <2>7. CASE ue'[p] = v
    <3>1. /\ ue'[p].first = FALSE /\ ue'[p].ndi = harq'[p].ndi
          /\ ue'[p].ack = TRUE
      BY <1>1, <1>a, <1>h, <2>1, <2>7
    <3>2. prevSeen[p] => /\ ue'[p].tbs = harq'[p].tbs /\ pushes'[p] = 1
                         /\ ue'[p].n <= harq'[p].nRtx + 1
      BY <1>a, <1>h, <2>2, <2>5, <2>7
    <3> QED
      BY <1>h, <3>1, <3>2 DEF Copy
  <2> QED
    BY <2>3, <2>6, <2>7
<1>2. CASE ~ v.ack
  <2> DEFINE d == Decode(v, air, good)
  <2>1. ue'[p] = d /\ pushes'[p] = IF good THEN pushes[p] + 1 ELSE pushes[p]
    BY <1>2 DEF React, v
  <2>2. v \in UeType
    BY <1>t, AfterGrantType DEF v
  <2>3. /\ d.first = FALSE /\ d.ndi = air.ndi /\ d.tbs = air.tbs
        /\ d.ack = good /\ d.n = v.n
    BY <1>a, <2>2 DEF Decode, UeType
  <2> HIDE DEF d
  <2>4. ASSUME prevSeen[p]
        PROVE  pushes[p] = 0 /\ v.n <= h.nRtx + 1
    <3>1. CASE ~ seen[p]
      <4>1. StartsOver(u, air) /\ pushes[p] = 0
        BY <2>4, <3>1 DEF Copy, StartsOver, IsNewTransmission
      <4> HIDE DEF u, h
      <4> QED
        BY <1>t, <1>a, <4>1, Constants
    <3>2. CASE seen[p]
      <4>1. ~ u.first
        BY <1>h, <2>4, <3>2 DEF Copy
      <4>2. /\ u.ndi = h.ndi /\ u.tbs = h.tbs /\ u.n <= h.nRtx
            /\ pushes[p] = IF u.ack THEN 1 ELSE 0
        BY <1>h, <2>4, <3>2, <4>1 DEF Copy
      <4>3. ~ StartsOver(u, air)
        BY <4>1, <4>2 DEF StartsOver, IsNewTransmission
      <4>4. ~ u.ack
        BY <1>2, <1>a, <1>t, <4>3
      <4> HIDE DEF u, h
      <4> QED
        BY <1>t, <1>a, <4>2, <4>3, <4>4, Constants
    <3> QED
      BY <1>t, <3>1, <3>2
  <2>5. prevSeen[p] => /\ pushes'[p] = (IF ue'[p].ack THEN 1 ELSE 0)
                       /\ ue'[p].n <= harq'[p].nRtx + 1
    BY <1>h, <2>1, <2>3, <2>4
  <2>6. ue'[p].first = FALSE /\ ue'[p].ndi = harq'[p].ndi /\ ue'[p].tbs = harq'[p].tbs
    BY <1>h, <2>1, <2>3
  <2> QED
    BY <1>h, <2>5, <2>6 DEF Copy
<1> QED
  BY <1>1, <1>2

LEMMA CopyStep == TypeInv /\ CopyInv /\ [Next]_vars => CopyInv'
<1> SUFFICES ASSUME TypeInv, CopyInv, [Next]_vars, NEW p \in Pid
             PROVE  Copy(p)'
  BY DEF CopyInv
<1>t. Types /\ Types' /\ TypeInv' /\ Copy(p)
  <2>1. TypeInv'
    BY TypeStep
  <2>2. Types'
    BY <2>1 DEF TypeInv, TypeOK, Types, HarqType, UeType
  <2> QED
    BY <2>1, <2>2, TypesOfInv DEF CopyInv
<1>f. /\ harq \in [Pid -> HarqType] /\ ue \in [Pid -> UeType] /\ pushes \in [Pid -> Nat]
      /\ seen \in [Pid -> BOOLEAN] /\ prevSeen \in [Pid -> BOOLEAN]
      /\ harq[p] \in HarqType /\ harq[p].nRtx \in Nat /\ ue[p].n \in Nat
      /\ AirInv /\ TriesInv
  BY <1>t, Constants DEF Types, HarqType, UeType, TypeInv
<1>1. CASE BeginTti
  <2>1. PICK ok \in BOOLEAN : harq' = [q \in Pid |-> HarqNewTti(Acked(ok)[q])]
    BY <1>1 DEF BeginTti
  <2>2. Acked(ok)[p] \in {harq[p], SetAck(harq[p], ok)}
    BY <1>f DEF Acked
  <2>3. harq'[p] = HarqNewTti(Acked(ok)[p])
    BY <2>1
  <2>4. /\ harq'[p].ndi = harq[p].ndi /\ harq'[p].tbs = harq[p].tbs
        /\ harq'[p].nRtx = harq[p].nRtx
        /\ harq'[p].active => harq[p].active
    <3> DEFINE a == Acked(ok)[p]
    <3>1. /\ a \in HarqType
          /\ a.ndi = harq[p].ndi /\ a.tbs = harq[p].tbs
          /\ a.nRtx = harq[p].nRtx
          /\ a.active => harq[p].active
      <4>1. CASE a = harq[p]
        BY <1>f, <4>1
      <4>2. CASE a = SetAck(harq[p], ok)
        <5>1. a \in HarqType
          BY <1>f, <4>2, MethodTypes
        <5> QED
          BY <1>f, <4>2, <5>1 DEF SetAck, HarqType
      <4> QED
        BY <2>2, <4>1, <4>2
    <3>2. harq'[p] = HarqNewTti(a)
      BY <2>3
    <3> HIDE DEF a
    <3>3. /\ harq'[p].ndi = a.ndi /\ harq'[p].tbs = a.tbs
          /\ harq'[p].nRtx = a.nRtx
          /\ harq'[p].active => a.active
      BY <3>1, <3>2 DEF HarqNewTti, HarqType
    <3> QED
      BY <3>1, <3>3
  <2>5. UNCHANGED <<ue, air, pushes, seen, prevSeen>>
    BY <1>1 DEF BeginTti, history
  <2>6. OnAir(p)' => OnAir(p)
    BY <2>5 DEF OnAir
  <2> QED
    BY <1>t, <2>4, <2>5, <2>6, CopyKept
<1>2. CASE AllocRetx
  <2> DEFINE q == GetOldest(harq)
  <2>1. q \in Pid /\ HasPendingRetx(harq[q]) /\ phase = "alloc"
    BY <1>2, OldestWaits DEF AllocRetx, RetxDue, Candidates
  <2>2. ~ LastTry(harq[q]) /\ harq[q].active
    BY <1>f, <2>1 DEF TriesInv, HasPendingRetx
  <2>3. /\ harq' = [harq EXCEPT ![q] = NewRetx(harq[q])]
        /\ air' # NoDci /\ air'.pid = q
        /\ UNCHANGED <<ue, pushes, seen, prevSeen>>
    <3>1. NoPid \notin Pid
      BY Constants
    <3> QED
      BY <1>2, <2>1, <3>1 DEF AllocRetx, Send, history, NoDci
  <2> HIDE DEF q
  <2>4. CASE p # q
    <3>1. harq'[p] = harq[p] /\ ~ OnAir(p)'
      BY <1>f, <2>3, <2>4 DEF OnAir
    <3> QED
      BY <1>t, <2>3, <3>1, CopyKept
  <2>5. CASE p = q
    <3>1. harq'[p] = NewRetx(harq[p])
      BY <1>f, <2>1, <2>3, <2>5
    <3>2. /\ harq'[p].ndi = harq[p].ndi /\ harq'[p].tbs = harq[p].tbs
          /\ harq'[p].nRtx = harq[p].nRtx + 1
      BY <1>f, <3>1 DEF NewRetx, HarqType
    <3>3. ~ OnAir(p)
      BY <1>f, <2>1 DEF AirInv, OnAir
    <3>4. prevSeen[p] /\ seen[p] => ~ ue[p].first
      BY <1>t, <2>2, <2>5 DEF Copy
    <3>5. OnAir(p)'
      BY <2>3, <2>5 DEF OnAir
    <3> QED
      BY <1>t, <2>3, <3>2, <3>3, <3>4, <3>5 DEF Copy
  <2> QED
    BY <2>4, <2>5
<1>3. CASE AllocNewTx
  <2> DEFINE q == GetEmpty(harq)
  <2>1. q \in Pid /\ phase = "alloc"
    BY <1>3, EmptyIsEmpty DEF AllocNewTx
  <2>2. PICK size \in Sizes : harq' = [harq EXCEPT ![q] = NewTx(harq[q], size)]
    BY <1>3 DEF AllocNewTx
  <2>3. /\ air' # NoDci /\ air'.pid = q /\ ue' = ue
        /\ pushes' = [pushes EXCEPT ![q] = 0]
        /\ prevSeen' = [prevSeen EXCEPT ![q] = seen[q]]
        /\ seen' = [seen EXCEPT ![q] = FALSE]
    <3>1. NoPid \notin Pid
      BY Constants
    <3> QED
      BY <1>3, <2>1, <3>1 DEF AllocNewTx, Send, NoDci
  <2> HIDE DEF q
  <2>4. CASE p # q
    <3>1. /\ harq'[p] = harq[p] /\ ~ OnAir(p)' /\ pushes'[p] = pushes[p]
          /\ prevSeen'[p] = prevSeen[p] /\ seen'[p] = seen[p]
      BY <1>f, <2>2, <2>3, <2>4 DEF OnAir
    <3> QED
      BY <1>t, <2>3, <3>1, CopyKept
  <2>5. CASE p = q
    <3>1. /\ harq'[p] = NewTx(harq[p], size) /\ pushes'[p] = 0
          /\ prevSeen'[p] = seen[p] /\ seen'[p] = FALSE
      BY <1>f, <2>1, <2>2, <2>3, <2>5
    <3>2. harq'[p].ndi = ~ harq[p].ndi /\ harq[p].ndi \in BOOLEAN
      BY <1>f, <3>1 DEF NewTx, HarqType
    <3>3. harq'[p].ndi # harq[p].ndi
      BY <3>2
    <3> QED
      BY <1>t, <2>3, <3>1, <3>3 DEF Copy
  <2> QED
    BY <2>4, <2>5
<1>4. CASE AllocNothing
  <2>1. UNCHANGED <<harq, ue, air, pushes, seen, prevSeen>>
    BY <1>4 DEF AllocNothing, history
  <2> QED
    BY <1>t, <2>1, CopyKept DEF OnAir
<1>o. /\ Older(harq[p]).ndi = harq[p].ndi /\ Older(harq[p]).tbs = harq[p].tbs
      /\ Older(harq[p]).nRtx = harq[p].nRtx /\ Older(harq[p]).active = harq[p].active
  BY <1>f, MethodsKeepBlock
<1>n. NextTti => harq'[p] = Older(harq[p]) /\ air' = NoDci /\ ~ OnAir(p)'
  BY DEF NextTti, OnAir
<1>5. CASE Receive
  <2> DEFINE q == air.pid
  <2>1. PICK good \in BOOLEAN :
          /\ ue' = [ue EXCEPT ![q] = React(ue[q], air, good).ue]
          /\ pushes' = [pushes EXCEPT ![q] = IF React(ue[q], air, good).push
                                             THEN pushes[q] + 1 ELSE pushes[q]]
          /\ seen' = [seen EXCEPT ![q] = TRUE]
    BY <1>5 DEF Receive
  <2>2. /\ air # NoDci /\ NextTti /\ prevSeen' = prevSeen
    BY <1>5 DEF Receive
  <2>3. /\ q \in Pid /\ air.ndi = harq[q].ndi /\ air.tbs = harq[q].tbs
    BY <2>2 DEF TypeInv, TypeOK, AirInv
  <2>4. CASE p # q
    <3>1. ue'[p] = ue[p] /\ pushes'[p] = pushes[p] /\ seen'[p] = seen[p]
      BY <1>f, <2>1, <2>4
    <3> QED
      BY <1>t, <1>n, <1>o, <2>2, <3>1, CopyKept
  <2>5. CASE p = q
    <3>1. /\ ue'[p] = React(ue[p], air, good).ue /\ seen'[p] = TRUE
          /\ pushes'[p] = IF React(ue[p], air, good).push THEN pushes[p] + 1
                          ELSE pushes[p]
      BY <1>f, <2>1, <2>3, <2>5
    <3>2. harq'[p] = Older(harq[p]) /\ air' = NoDci
      BY <1>n, <2>2
    <3> QED
      BY <1>t, <2>2, <2>3, <2>5, <3>1, <3>2, CopyReceived
  <2> QED
    BY <2>4, <2>5
<1>6. CASE Miss \/ Idle
  <2>1. NextTti /\ UNCHANGED <<ue, pushes, seen, prevSeen>>
    BY <1>6 DEF Miss, Idle, history
  <2> QED
    BY <1>t, <1>n, <1>o, <2>1, CopyKept
<1>7. CASE UNCHANGED vars
  <2>1. UNCHANGED <<harq, ue, air, pushes, seen, prevSeen>>
    BY <1>7 DEF vars
  <2> QED
    BY <1>t, <2>1, CopyKept DEF OnAir
<1> QED
  BY <1>1, <1>2, <1>3, <1>4, <1>5, <1>6, <1>7 DEF Next

\* The demultiplexer gets a block at most once, however many ACKs, DCIs and
\* UCIs are lost, unless the UE missed the block before altogether.
THEOREM DeliveredOnce == Spec => []PushedOnce
<1>1. Init => CopyInv
  BY DEF Init, CopyInv, Copy, EmptyProc, FreshUe, OnAir
<1>2. TypeInv /\ CopyInv => PushedOnce
  <2> SUFFICES ASSUME TypeInv, CopyInv, NEW p \in Pid, pushes[p] > 1, prevSeen[p]
               PROVE  FALSE
    BY DEF PushedOnce
  <2>1. Copy(p) /\ pushes[p] \in Nat
    BY DEF CopyInv, TypeInv, TypeOK
  <2> QED
    BY <2>1 DEF Copy
<1> QED
  BY <1>1, <1>2, TypeInit, TypeStep, CopyStep, PTL DEF Spec

-----------------------------------------------------------------------------
(* The time of each process                                                *)

\* No measurement gaps, and a retransmission that is due finds room.
Undisturbed == GapPeriod = 0 /\ MaxRefused = 0

\* A process in use was transmitted in the last NofHarq TTIs.
TurnInv ==
  \A p \in Pid : harq[p].active =>
    /\ ~ harq[p].ack
    /\ harq[p].age \in IF phase = "air" THEN 0 .. NofHarq - 1 ELSE 1 .. NofHarq

\* A process that the PHY expects feedback for, or that has a DCI, is in use.
AwaitedInv ==
  /\ \A p \in Pid : uci[p] # "none" =>
       harq[p].active /\ (phase = "alloc" => harq[p].age # NofHarq)
  /\ air # NoDci => harq[air.pid].active

\* No process in use has the turn of one with a lower number, in use or not.
ApartInv ==
  \A p, q \in Pid : harq[p].active /\ q < p =>
    harq[q].age = NoAge \/ harq[q].age % NofHarq # harq[p].age % NofHarq

TimeInv == TurnInv /\ AwaitedInv /\ ApartInv

LEMMA TimeConstants ==
  /\ NofHarq \in Nat \ {0} /\ TtiMod \in Nat \ {0} /\ 3 * NofHarq <= TtiMod
  /\ TtiMod % NofHarq = 0
BY DelaysAssumption, TtiModAssumption DEF NofHarq

LEMMA RemainderUnique ==
  ASSUME NEW m \in Nat \ {0}, NEW r \in 0 .. m - 1, NEW s \in 0 .. m - 1,
         NEW i \in Int, NEW j \in Int, m * i + r = m * j + s
  PROVE  i = j /\ r = s
<1>1. CASE i = j
  BY <1>1
<1>2. CASE i > j
  <2>1. i - j >= 1 /\ m * (i - j) = s - r
    BY <1>2
  <2>2. m * (i - j) >= m
    BY <2>1
  <2> QED  BY <2>1, <2>2
<1>3. CASE j > i
  <2>1. j - i >= 1 /\ m * (j - i) = r - s
    BY <1>3
  <2>2. m * (j - i) >= m
    BY <2>1
  <2> QED  BY <2>1, <2>2
<1> QED  BY <1>1, <1>2, <1>3

LEMMA Division ==
  ASSUME NEW m \in Nat \ {0}, NEW x \in Int
  PROVE  x % m \in 0 .. m - 1 /\ \E i \in Int : x = m * i + (x % m)
<1>1. /\ x % m \in 0 .. m - 1 /\ (x \div m) \in Int
      /\ x = m * (x \div m) + (x % m)
  OBVIOUS
<1> QED  BY <1>1

LEMMA Remainder ==
  ASSUME NEW m \in Nat \ {0}, NEW i \in Int, NEW r \in 0 .. m - 1, NEW x \in Int,
         x = m * i + r
  PROVE  x % m = r
<1>1. PICK j \in Int : x = m * j + (x % m)
  BY Division
<1>2. x % m \in 0 .. m - 1
  BY Division
<1> DEFINE s == x % m
<1>3. x = m * j + s /\ s \in 0 .. m - 1
  BY <1>1, <1>2
<1> HIDE DEF s
<1>4. r = s
  BY SMTT(30), <1>3, RemainderUnique
<1> QED  BY <1>4 DEF s

LEMMA RemainderMoves ==
  ASSUME NEW n \in Nat \ {0}, NEW w \in Nat \ {0}, w % n = 0, NEW x \in 0 .. w - 1
  PROVE  ((x + 1) % w) % n = IF x % n = n - 1 THEN 0 ELSE (x % n) + 1
<1>a. w \in Int /\ x \in Int
  OBVIOUS
<1>1. PICK k \in Int : w = n * k
  <2>1. \E k \in Int : w = n * k + (w % n)
    BY ZenonT(30), <1>a, Division
  <2>2. PICK k \in Int : w = n * k + (w % n)
    BY <2>1
  <2>3. w = n * k
    BY <2>2
  <2> QED  BY <2>3
<1>2. PICK i \in Int : x = n * i + (x % n)
  BY ZenonT(30), <1>a, Division
<1>3. x % n \in 0 .. n - 1
  BY Division
<1> DEFINE r == x % n
<1>4. r \in 0 .. n - 1 /\ x = n * i + r /\ x % n = r
  BY <1>2, <1>3
<1> HIDE DEF r
<1>5. CASE x = w - 1
  <2>1. n * (k - 1) + (n - 1) = n * k - 1
    OBVIOUS
  <2>2. x = n * (k - 1) + (n - 1) /\ k - 1 \in Int /\ n - 1 \in 0 .. n - 1
    BY <1>1, <1>5, <2>1
  <2>3. x % n = n - 1
    BY <2>2, Remainder
  <2>4. x + 1 = w * 1 + 0 /\ x + 1 \in Int /\ 0 \in 0 .. w - 1
    BY <1>5
  <2>5. (x + 1) % w = 0
    BY <2>4, Remainder
  <2>6. 0 % n = 0
    OBVIOUS
  <2> QED  BY <2>3, <2>5, <2>6
<1>6. CASE x # w - 1
  <2>1. x + 1 = w * 0 + (x + 1) /\ x + 1 \in 0 .. w - 1
    BY <1>6
  <2>2. (x + 1) % w = x + 1
    BY <2>1, Remainder
  <2>3. CASE r = n - 1
    <3>1. n * (i + 1) = n * i + n
      OBVIOUS
    <3>2. PICK y \in Int, j \in Int : y = x + 1 /\ j = i + 1
      BY <1>a
    <3>3. y = n * j + 0 /\ 0 \in 0 .. n - 1
      BY <1>4, <2>3, <3>1, <3>2
    <3>4. y % n = 0
      BY <3>3, Remainder
    <3> QED  BY <1>4, <2>2, <2>3, <3>2, <3>4
  <2>4. CASE r # n - 1
    <3>1. PICK y \in Int, z \in 0 .. n - 1 : y = x + 1 /\ z = r + 1
      BY <1>4, <2>4
    <3>2. y = n * i + z
      BY <1>4, <3>1
    <3>3. y % n = z
      BY <3>2, Remainder
    <3> QED  BY <1>4, <2>2, <2>4, <3>1, <3>3
  <2> QED  BY <2>3, <2>4
<1> QED  BY <1>5, <1>6

\* The turn of a process moves on by one with each TTI, also where TTIs wrap.
LEMMA TurnMoves ==
  ASSUME NEW x \in 0 .. TtiMod - 1
  PROVE  ((x + 1) % TtiMod) % NofHarq
           = IF x % NofHarq = NofHarq - 1 THEN 0 ELSE (x % NofHarq) + 1
BY TimeConstants, RemainderMoves

LEMMA StayApart ==
  ASSUME NEW x \in 0 .. TtiMod - 1, NEW y \in 0 .. TtiMod - 1, x % NofHarq # y % NofHarq
  PROVE  ((x + 1) % TtiMod) % NofHarq # ((y + 1) % TtiMod) % NofHarq
<1>1. x % NofHarq \in 0 .. NofHarq - 1 /\ y % NofHarq \in 0 .. NofHarq - 1
  BY TimeConstants, Division
<1>2. NofHarq \in Nat \ {0}
  BY TimeConstants
<1> DEFINE a == x % NofHarq
           b == y % NofHarq
<1>3. /\ ((x + 1) % TtiMod) % NofHarq = (IF a = NofHarq - 1 THEN 0 ELSE a + 1)
      /\ ((y + 1) % TtiMod) % NofHarq = (IF b = NofHarq - 1 THEN 0 ELSE b + 1)
  BY TurnMoves
<1>4. a \in 0 .. NofHarq - 1 /\ b \in 0 .. NofHarq - 1 /\ a # b
  BY <1>1
<1> HIDE DEF a, b
<1>5. (IF a = NofHarq - 1 THEN 0 ELSE a + 1) # (IF b = NofHarq - 1 THEN 0 ELSE b + 1)
  BY <1>2, <1>4
<1> QED  BY <1>3, <1>5

\* The feedback of a process in use is due NofHarq TTIs after its transmission.
LEMMA DueIs ==
  ASSUME NEW h \in HarqType, h.age \in 0 .. NofHarq
  PROVE  AckIsDue(h) <=> h.age = NofHarq
<1> DEFINE n == NofHarq
           w == TtiMod
           x == h.age - n
<1>1. n \in Nat \ {0} /\ w \in Nat \ {0} /\ 3 * n <= w /\ h.age \in 0 .. n /\ x \in Int
  BY TimeConstants
<1>2. w \div 2 \in Int /\ 2 * (w \div 2) <= w /\ 0 <= w \div 2
  BY <1>1
<1>3. AckIsDue(h) <=> x % w <= w \div 2
  BY DEF AckIsDue
<1>4. h.age = n <=> x = 0
  BY <1>1
<1>5. -n <= x /\ x <= 0
  BY <1>1
<1> HIDE DEF n, w, x
<1>6. CASE x = 0
  <2>1. x % w = 0
    BY <1>1, <1>6
  <2> QED  BY <1>2, <1>3, <1>4, <1>6, <2>1 DEF n
<1>7. CASE x # 0
  <2>1. x = w * (-1) + (w + x) /\ w + x \in 0 .. w - 1
    BY <1>1, <1>5, <1>7
  <2>2. x % w = w + x
    BY <1>1, <2>1, Remainder
  <2>3. ~ (w + x <= w \div 2)
    BY <1>1, <1>2, <1>5
  <2> QED  BY <1>3, <1>4, <1>7, <2>2, <2>3 DEF n
<1> QED  BY <1>6, <1>7

\* Small remainders
LEMMA OwnTurn ==
  /\ 0 % NofHarq = 0 /\ NofHarq % NofHarq = 0
  /\ \A x \in 1 .. NofHarq - 1 : x % NofHarq # 0
BY TimeConstants

-----------------------------------------------------------------------------
(* Which process a feedback finds                                          *)

LEMMA TargetIs ==
  ASSUME TypeInv, TimeInv, phase = "tti", NEW p \in Pid, p \in Reported
  PROVE  AckTarget(harq) = p
<1>1. harq[p].active /\ harq[p].age = NofHarq
  BY DEF Reported, TimeInv, AwaitedInv
<1>2. NofHarq # NoAge /\ Pid \subseteq Int
  BY TimeConstants, Constants
<1>3. ASSUME NEW q \in Pid, q < p
      PROVE  harq[q].age # NofHarq
  BY <1>1, <1>2, <1>3 DEF TimeInv, ApartInv
<1>4. ASSUME NEW x \in Pid, harq[x].age = NofHarq, \A q \in Pid : q < x => harq[q].age # NofHarq
      PROVE  x = p
  <2>1. x \in Int /\ p \in Int
    BY <1>2
  <2>2. ~ (x < p) /\ ~ (p < x)
    BY <1>1, <1>3, <1>4
  <2> QED  BY <2>1, <2>2
<1> QED  BY <1>1, <1>3, <1>4 DEF AckTarget

LEMMA TimeInit == Init => TimeInv
BY DEF Init, TimeInv, TurnInv, AwaitedInv, ApartInv, EmptyProc

\* What the invariants say of one TTI's processes
Timed ==
  /\ harq \in [Pid -> HarqType]
  /\ uci \in [Pid -> {"none", "no_ack", "ack"}]
  /\ \A p \in Pid : harq[p].age \in {NoAge} \cup 0 .. TtiMod - 1

LEMMA TimedOfInv == TypeInv => Timed
BY DEF TypeInv, TypeOK, Timed, HarqType

\* new_tti gives up only processes whose feedback is due; the feedback changes
\* only the process it is due for.
LEMMA TimeBegins ==
  ASSUME TypeInv, TimeInv, BeginTti
  PROVE  TimeInv'
<1>t. Timed
  BY TimedOfInv
<1>1. PICK ok \in BOOLEAN : harq' = [p \in Pid |-> HarqNewTti(Acked(ok)[p])]
  BY DEF BeginTti
<1>2. /\ phase = "tti" /\ phase' = "alloc" /\ air' = air
      /\ uci' = [p \in Pid |-> IF p \in Reported THEN "none" ELSE uci[p]]
  BY DEF BeginTti
<1>3. ASSUME NEW p \in Pid
      PROVE  /\ Acked(ok)[p] \in {harq[p], SetAck(harq[p], ok)}
             /\ p \notin Reported => Acked(ok)[p] = harq[p]
  <2>1. CASE Reported = {}
    BY <2>1 DEF Acked
  <2>2. CASE Reported # {}
    <3>1. PICK q \in Pid : q \in Reported
      BY <2>2 DEF Reported
    <3>2. AckTarget(harq) = q
      BY <1>2, <3>1, TargetIs
    <3>3. Acked(ok) = [harq EXCEPT ![q] = SetAck(harq[q], ok)]
      BY <2>2, <3>2 DEF Acked
    <3> QED
      BY <1>t, <3>1, <3>3 DEF Timed
  <2> QED
    BY <2>1, <2>2
<1>4. ASSUME NEW p \in Pid
      PROVE  /\ harq'[p].age = harq[p].age
             /\ harq'[p].active => harq[p].active /\ ~ harq'[p].ack
             /\ harq[p].active /\ p \notin Reported /\ harq[p].age # NofHarq
                  => harq'[p] = harq[p]
  <2> DEFINE a == Acked(ok)[p]
  <2>1. harq[p] \in HarqType /\ harq'[p] = HarqNewTti(a)
    BY <1>1, <1>t DEF Timed
  <2>2. harq[p].active => ~ harq[p].ack
    BY DEF TimeInv, TurnInv
  <2>3. a = harq[p] \/ a = SetAck(harq[p], ok)
    BY <1>3
  <2>4. p \notin Reported => a = harq[p]
    BY <1>3
  <2>5. harq[p].active => harq[p].age \in 1 .. NofHarq
    BY <1>2 DEF TimeInv, TurnInv
  <2> HIDE DEF a
  <2>6. /\ a.age = harq[p].age
        /\ a.active => harq[p].active /\ ~ a.ack
    <3>1. CASE a = harq[p]
      BY <2>2, <3>1
    <3>2. CASE a = SetAck(harq[p], ok)
      BY <2>1, <2>2, <3>2 DEF SetAck, HarqType
    <3> QED
      BY <2>3, <3>1, <3>2
  <2>7. a \in HarqType
    <3>1. SetAck(harq[p], ok) \in HarqType
      BY <2>1, MethodTypes
    <3> QED
      BY <2>1, <2>3, <3>1
  <2>8. /\ harq'[p].age = a.age
        /\ harq'[p].active => a.active
        /\ harq'[p].ack = a.ack
    BY <2>1, <2>7 DEF HarqNewTti, HarqType
  <2>9. ASSUME harq[p].active, p \notin Reported, harq[p].age # NofHarq
        PROVE  harq'[p] = harq[p]
    <3>1. harq[p].age \in 0 .. NofHarq
      BY <2>5, <2>9, TimeConstants
    <3>2. ~ AckIsDue(harq[p])
      BY <2>1, <2>9, <3>1, DueIs
    <3> QED
      BY <2>1, <2>4, <2>9, <3>2 DEF HarqNewTti, HasPendingRetx
  <2> QED
    BY <2>6, <2>8, <2>9
<1>5. TurnInv'
  <2>1. ASSUME NEW p \in Pid, harq'[p].active
        PROVE  ~ harq'[p].ack /\ harq'[p].age \in 1 .. NofHarq
    BY <1>2, <1>4, <2>1 DEF TimeInv, TurnInv
  <2> QED
    BY <1>2, <2>1 DEF TurnInv
<1>6. AwaitedInv'
  <2>1. ASSUME NEW p \in Pid, uci'[p] # "none"
        PROVE  harq'[p].active /\ harq'[p].age # NofHarq
    <3>1. p \notin Reported /\ uci[p] # "none"
      BY <1>2, <2>1
    <3>2. harq[p].age # NofHarq /\ harq[p].active
      BY <3>1 DEF Reported, TimeInv, AwaitedInv
    <3> QED
      BY <1>4, <3>1, <3>2
  <2>2. air = NoDci
    BY <1>2 DEF TypeInv, AirInv
  <2> QED
    BY <1>2, <2>1, <2>2 DEF AwaitedInv
<1>7. ApartInv'
  BY <1>4 DEF TimeInv, ApartInv
<1> QED
  BY <1>5, <1>6, <1>7 DEF TimeInv

\* The process whose turn it is may be retransmitted, and no other.
LEMMA OnTurn ==
  ASSUME TypeInv, TimeInv, phase = "alloc"
  PROVE  /\ \A p \in Candidates(harq) : p \in Pid /\ harq[p].active /\ harq[p].age = NofHarq
         /\ \A p \in Pid : harq[p].active /\ harq[p].age = NofHarq => p \in Candidates(harq)
<1>1. NofHarq \in Nat \ {0} /\ harq \in [Pid -> HarqType]
  BY TimeConstants, TimedOfInv DEF Timed
<1>2. ASSUME NEW p \in Candidates(harq)
      PROVE  p \in Pid /\ harq[p].active /\ harq[p].age = NofHarq
  <2>1. p \in Pid /\ harq[p].active /\ harq[p].age \in NofHarq .. 2 * NofHarq - 1
    BY DEF Candidates, HasPendingRetx, AckTtiIsRecent
  <2>2. harq[p].age \in 1 .. NofHarq
    BY <2>1 DEF TimeInv, TurnInv
  <2> QED
    BY <1>1, <2>1, <2>2
<1>3. ASSUME NEW p \in Pid, harq[p].active, harq[p].age = NofHarq
      PROVE  p \in Candidates(harq)
  <2>1. harq[p] \in HarqType /\ harq[p].age \in 0 .. NofHarq
    BY <1>1, <1>3
  <2>2. AckIsDue(harq[p])
    BY <1>3, <2>1, DueIs
  <2>3. ~ harq[p].ack
    BY <1>3 DEF TimeInv, TurnInv
  <2>4. AckTtiIsRecent(harq[p])
    BY <1>1, <1>3 DEF AckTtiIsRecent
  <2> QED
    BY <1>3, <2>2, <2>3, <2>4 DEF Candidates, HasPendingRetx
<1> QED
  BY <1>2, <1>3

\* A process that starts its turn is apart from all others in use.
LEMMA TurnTaken ==
  ASSUME TypeInv, TimeInv, phase = "alloc", NEW p \in Pid, NEW h \in HarqType,
         harq' = [harq EXCEPT ![p] = h], h.active, ~ h.ack, h.age = 0, Send(p),
         \A q \in Pid \ {p} : harq[q].active => harq[q].age # NofHarq,
         \A q \in Pid : q < p =>
           harq[q].age = NoAge \/ harq[q].age % NofHarq # 0
  PROVE  TimeInv'
<1>1. /\ harq \in [Pid -> HarqType] /\ NofHarq \in Nat \ {0}
      /\ Pid \subseteq Int /\ uci \in [Pid -> {"none", "no_ack", "ack"}]
  BY TimeConstants, TimedOfInv, Constants DEF Timed
<1>2. harq'[p] = h /\ \A q \in Pid \ {p} : harq'[q] = harq[q]
  BY <1>1
<1>3. phase' = "air" /\ uci' = [uci EXCEPT ![p] = "no_ack"] /\ air'.pid = p
  BY DEF Send
<1>4. ASSUME NEW q \in Pid \ {p}, harq[q].active
      PROVE  /\ ~ harq[q].ack /\ harq[q].age \in 0 .. NofHarq - 1
             /\ harq[q].age % NofHarq # 0
  <2>1. /\ ~ harq[q].ack /\ harq[q].age \in 1 .. NofHarq /\ harq[q].age # NofHarq
    BY <1>4 DEF TimeInv, TurnInv
  <2>2. harq[q].age \in 1 .. NofHarq - 1 /\ harq[q].age \in 0 .. NofHarq - 1
    BY <1>1, <2>1
  <2> QED
    BY <2>1, <2>2, OwnTurn
<1>5. TurnInv'
  <2>1. ASSUME NEW q \in Pid, harq'[q].active
        PROVE  ~ harq'[q].ack /\ harq'[q].age \in 0 .. NofHarq - 1
    <3>1. CASE q = p
      BY <1>1, <1>2, <3>1
    <3>2. CASE q # p
      BY <1>2, <1>4, <2>1, <3>2
    <3> QED
      BY <3>1, <3>2
  <2> QED
    BY <1>3, <2>1 DEF TurnInv
<1>6. AwaitedInv'
  <2>1. ASSUME NEW q \in Pid, uci'[q] # "none"
        PROVE  harq'[q].active
    <3>1. CASE q = p
      BY <1>2, <3>1
    <3>2. CASE q # p
      BY <1>1, <1>2, <1>3, <2>1, <3>2 DEF TimeInv, AwaitedInv
    <3> QED
      BY <3>1, <3>2
  <2> QED
    BY <1>2, <1>3, <2>1 DEF AwaitedInv
<1>7. ApartInv'
  <2>1. ASSUME NEW x \in Pid, NEW q \in Pid, harq'[x].active, q < x
        PROVE  harq'[q].age = NoAge \/ harq'[q].age % NofHarq # harq'[x].age % NofHarq
    <3>1. CASE x = p
      <4>1. q # p
        BY <1>1, <2>1, <3>1
      <4> QED
        BY <1>2, <2>1, <3>1, <4>1, OwnTurn
    <3>2. CASE x # p /\ q = p
      <4>1. harq[x].active /\ harq'[x] = harq[x]
        BY <1>2, <2>1, <3>2
      <4>2. harq[x].age % NofHarq # 0
        BY <1>4, <3>2, <4>1
      <4> QED
        BY <1>2, <3>2, <4>1, <4>2, OwnTurn
    <3>3. CASE x # p /\ q # p
      BY <1>2, <2>1, <3>3 DEF TimeInv, ApartInv
    <3> QED
      BY <3>1, <3>2, <3>3
  <2> QED
    BY <2>1 DEF ApartInv
<1> QED
  BY <1>5, <1>6, <1>7 DEF TimeInv

\* Undisturbed, the process whose turn it is gets its retransmission.
LEMMA TurnUsed ==
  ASSUME Undisturbed, TypeInv, TimeInv, phase = "alloc", RefuseRetx,
         NEW q \in Pid, harq[q].active
  PROVE  harq[q].age # NofHarq
<1> SUFFICES ASSUME harq[q].age = NofHarq PROVE FALSE
  OBVIOUS
<1>1. Candidates(harq) # {}
  BY OnTurn
<1>2. GetOldest(harq) \in Pid
  BY <1>1, OldestFound DEF Candidates
<1>3. RetxDue
  BY <1>2, Constants DEF RetxDue, PdschEnabled, Undisturbed
<1>4. refused \in 0 .. 0
  BY DEF TypeInv, TypeOK, Undisturbed
<1> QED
  BY <1>3, <1>4 DEF RefuseRetx, Undisturbed

\* All processes are a TTI older.
LEMMA TimeGoesOn ==
  ASSUME TypeInv, TimeInv, phase = "air", NextTti,
         \A p \in Pid : uci'[p] = uci[p] \/ harq[p].active
  PROVE  TimeInv'
<1>1. /\ harq \in [Pid -> HarqType] /\ NofHarq \in Nat \ {0} /\ TtiMod \in Nat \ {0}
      /\ 3 * NofHarq <= TtiMod /\ NoAge = -1
  BY TimeConstants, TimedOfInv, Constants DEF Timed
<1>2. phase' = "tti" /\ air' = NoDci /\ harq' = [p \in Pid |-> Older(harq[p])]
  BY DEF NextTti
<1>3. ASSUME NEW p \in Pid
      PROVE  /\ harq'[p].active = harq[p].active /\ harq'[p].ack = harq[p].ack
             /\ harq'[p].age = IF harq[p].age = NoAge THEN NoAge
                               ELSE (harq[p].age + 1) % TtiMod
             /\ harq[p].age # NoAge => harq[p].age \in 0 .. TtiMod - 1
  BY <1>1, <1>2 DEF Older, HarqType
<1>4. TurnInv'
  <2>1. ASSUME NEW p \in Pid, harq'[p].active
        PROVE  ~ harq'[p].ack /\ harq'[p].age \in 1 .. NofHarq
    <3>1. ~ harq[p].ack /\ harq[p].age \in 0 .. NofHarq - 1
      BY <1>3, <2>1 DEF TimeInv, TurnInv
    <3>2. harq[p].age # NoAge /\ harq[p].age + 1 \in 1 .. NofHarq
          /\ harq[p].age + 1 \in 0 .. TtiMod - 1
      BY <1>1, <3>1
    <3>3. PICK x \in 0 .. TtiMod - 1 : x = harq[p].age + 1
      BY <3>2
    <3>4. x % TtiMod = x
      BY <1>1
    <3> QED
      BY <1>3, <3>1, <3>2, <3>3, <3>4
  <2> QED
    BY <1>2, <2>1 DEF TurnInv
<1>5. AwaitedInv'
  <2>1. ASSUME NEW p \in Pid, uci'[p] # "none"
        PROVE  harq'[p].active
    BY <1>3, <2>1 DEF TimeInv, AwaitedInv
  <2> QED
    BY <1>2, <2>1 DEF AwaitedInv
<1>6. ApartInv'
  <2>1. ASSUME NEW p \in Pid, NEW q \in Pid, harq'[p].active, q < p
        PROVE  harq'[q].age = NoAge \/ harq'[q].age % NofHarq # harq'[p].age % NofHarq
    <3>1. harq[q].age = NoAge \/ harq[q].age % NofHarq # harq[p].age % NofHarq
      BY <1>3, <2>1 DEF TimeInv, ApartInv
    <3>2. harq[p].age # NoAge
      <4>1. harq[p].age \in 0 .. NofHarq - 1
        BY <1>3, <2>1 DEF TimeInv, TurnInv
      <4> QED
        BY <1>1, <4>1
    <3>3. CASE harq[q].age = NoAge
      BY <1>3, <3>3
    <3>4. CASE harq[q].age # NoAge
      <4>1. harq[q].age \in 0 .. TtiMod - 1 /\ harq[p].age \in 0 .. TtiMod - 1
        BY <1>3, <3>2, <3>4
      <4>2. ((harq[q].age + 1) % TtiMod) % NofHarq # ((harq[p].age + 1) % TtiMod) % NofHarq
        BY <3>1, <3>4, <4>1, StayApart
      <4> QED
        BY <1>3, <3>2, <3>4, <4>2
    <3> QED
      BY <3>3, <3>4
  <2> QED
    BY <2>1 DEF ApartInv
<1> QED
  BY <1>4, <1>5, <1>6 DEF TimeInv

LEMMA TimeStep ==
  ASSUME Undisturbed, TypeInv, TimeInv, [Next]_vars
  PROVE  TimeInv'
<1>t. /\ harq \in [Pid -> HarqType] /\ NofHarq \in Nat \ {0} /\ Pid \subseteq Int
      /\ uci \in [Pid -> {"none", "no_ack", "ack"}] /\ TtiMod \in Nat \ {0}
  BY TimeConstants, TimedOfInv, Constants DEF Timed
<1>1. CASE BeginTti
  BY <1>1, TimeBegins
<1>2. CASE AllocRetx
  <2> DEFINE p == GetOldest(harq)
  <2>1. phase = "alloc" /\ Send(p) /\ harq' = [harq EXCEPT ![p] = NewRetx(harq[p])]
    BY <1>2 DEF AllocRetx
  <2>2. p \in Candidates(harq)
    BY <1>2, OldestWaits DEF AllocRetx, RetxDue
  <2> HIDE DEF p
  <2>3. /\ p \in Pid /\ harq[p].active /\ harq[p].age = NofHarq
        /\ HasPendingRetx(harq[p])
    BY <2>1, <2>2, OnTurn DEF Candidates
  <2>4. ~ LastTry(harq[p]) /\ harq[p] \in HarqType
    BY <1>t, <2>1, <2>3 DEF TypeInv, TriesInv
  <2>5. NewRetx(harq[p]) \in HarqType
    BY <2>4, MethodTypes
  <2>6. /\ NewRetx(harq[p]).active /\ ~ NewRetx(harq[p]).ack
        /\ NewRetx(harq[p]).age = 0
    BY <2>3, <2>4 DEF NewRetx, HarqType
  <2>7. ASSUME NEW q \in Pid \ {p}, harq[q].active
        PROVE  harq[q].age # NofHarq
    <3>1. NofHarq # NoAge
      BY <1>t, Constants
    <3>2. q < p \/ p < q
      BY <1>t, <2>3
    <3> QED
      BY <2>3, <2>7, <3>1, <3>2 DEF TimeInv, ApartInv
  <2>8. ASSUME NEW q \in Pid, q < p
        PROVE  harq[q].age = NoAge \/ harq[q].age % NofHarq # 0
    BY <2>3, <2>8, OwnTurn DEF TimeInv, ApartInv
  <2> DEFINE h == NewRetx(harq[p])
  <2> HIDE DEF h
  <2>9. h \in HarqType /\ h.active /\ ~ h.ack /\ h.age = 0
        /\ harq' = [harq EXCEPT ![p] = h]
    BY <2>1, <2>5, <2>6 DEF h
  <2> QED
    BY <2>1, <2>3, <2>7, <2>8, <2>9, TurnTaken
<1>3. CASE AllocNewTx
  <2> DEFINE p == GetEmpty(harq)
  <2>1. phase = "alloc" /\ Send(p) /\ RefuseRetx
    BY <1>3 DEF AllocNewTx
  <2>2. p \in Pid /\ \A q \in Pid : q < p => harq[q].active
    BY <1>3, EmptyIsEmpty DEF AllocNewTx
  <2>3. PICK size \in Sizes : harq' = [harq EXCEPT ![p] = NewTx(harq[p], size)]
    BY <1>3 DEF AllocNewTx
  <2> HIDE DEF p
  <2> DEFINE h == NewTx(harq[p], size)
  <2>4. h \in HarqType
    BY <1>t, <2>2, MethodTypes
  <2>5. h.active /\ ~ h.ack /\ h.age = 0
    BY DEF NewTx
  <2>6. harq' = [harq EXCEPT ![p] = h]
    BY <2>3
  <2>7. \A q \in Pid \ {p} : harq[q].active => harq[q].age # NofHarq
    BY <2>1, TurnUsed
  <2>8. ASSUME NEW q \in Pid, q < p
        PROVE  harq[q].age = NoAge \/ harq[q].age % NofHarq # 0
    <3>1. harq[q].active
      BY <2>2, <2>8
    <3>2. harq[q].age # NofHarq
      BY <2>1, <3>1, TurnUsed
    <3>3. harq[q].age \in 1 .. NofHarq
      BY <2>1, <3>1 DEF TimeInv, TurnInv
    <3>4. harq[q].age \in 1 .. NofHarq - 1
      BY <1>t, <3>2, <3>3
    <3> QED
      BY <3>4, OwnTurn
  <2> HIDE DEF h
  <2> QED
    BY <2>1, <2>2, <2>4, <2>5, <2>6, <2>7, <2>8, TurnTaken
<1>4. CASE AllocNothing
  <2>1. phase = "alloc" /\ phase' = "air" /\ RefuseRetx
        /\ harq' = harq /\ uci' = uci /\ air' = air
    BY <1>4 DEF AllocNothing
  <2>2. TurnInv'
    <3>1. ASSUME NEW q \in Pid, harq[q].active
          PROVE  ~ harq[q].ack /\ harq[q].age \in 0 .. NofHarq - 1
      <4>1. harq[q].age # NofHarq
        BY <2>1, <3>1, TurnUsed
      <4>2. ~ harq[q].ack /\ harq[q].age \in 1 .. NofHarq
        BY <2>1, <3>1 DEF TimeInv, TurnInv
      <4> QED
        BY <1>t, <4>1, <4>2
    <3> QED
      BY <2>1, <3>1 DEF TurnInv
  <2>3. AwaitedInv'
    BY <2>1 DEF TimeInv, AwaitedInv
  <2>4. ApartInv'
    BY <2>1 DEF TimeInv, ApartInv
  <2> QED
    BY <2>2, <2>3, <2>4 DEF TimeInv
<1>5. CASE Receive
  <2>1. phase = "air" /\ air # NoDci /\ NextTti
    BY <1>5 DEF Receive
  <2>2. \A p \in Pid : uci'[p] = uci[p] \/ p = air.pid
    BY <1>t, <1>5 DEF Receive
  <2>3. harq[air.pid].active
    BY <2>1 DEF TimeInv, AwaitedInv
  <2> QED
    BY <2>1, <2>2, <2>3, TimeGoesOn
<1>6. CASE Miss \/ Idle
  <2>1. phase = "air" /\ NextTti /\ uci' = uci
    BY <1>6 DEF Miss, Idle
  <2> QED
    BY <2>1, TimeGoesOn
<1>7. CASE UNCHANGED vars
  BY <1>7 DEF vars, TimeInv, TurnInv, AwaitedInv, ApartInv
<1> QED
  BY <1>1, <1>2, <1>3, <1>4, <1>5, <1>6, <1>7 DEF Next

\* With no measurement gap in the way and room for the retransmissions, the
\* ACK or NACK of a TTI reaches the process that was transmitted in it: for
\* every number of processes and tries, and whatever the UE misses.
THEOREM AcksFindTheirProcess ==
  ASSUME Undisturbed
  PROVE  Spec => []AckFindsItsProcess
<1>1. TypeInv /\ TimeInv => AckFindsItsProcess
  <2> SUFFICES ASSUME TypeInv, TimeInv, phase = "tti", NEW p \in Reported
               PROVE  AckTarget(harq) = p
    BY DEF AckFindsItsProcess
  <2>1. p \in Pid
    BY DEF Reported
  <2> QED
    BY <2>1, TargetIs
<1>2. TypeInv /\ TimeInv /\ [Next]_vars => TimeInv'
  BY TimeStep
<1> QED
  BY <1>1, <1>2, TypeInit, TypeStep, TimeInit, PTL DEF Spec

-----------------------------------------------------------------------------
(* Blocks that are acknowledged                                            *)

\* An ACK is for a block that the UE has pushed, unless the UE may take the
\* block for the one before.
AnswerInv ==
  \A p \in Pid :
    uci[p] = "ack" \/ harq[p].ack => pushes[p] > 0 \/ ~ prevSeen[p]

\* The UE misses a block altogether only on a process whose DCIs may be lost.
LossyInv ==
  \A p \in Pid : /\ ~ prevSeen[p] => p \in lossy
                 /\ ~ seen[p] /\ ~ OnAir(p) => p \in lossy

LEMMA AnswerInit == Init => AnswerInv /\ LossyInv
BY DEF Init, AnswerInv, LossyInv, EmptyProc

LEMMA LossyStep ==
  ASSUME TypeInv, LossyInv, [Next]_vars
  PROVE  LossyInv'
<1>t. seen \in [Pid -> BOOLEAN] /\ prevSeen \in [Pid -> BOOLEAN] /\ NoPid \notin Pid
  BY Constants DEF TypeInv, TypeOK
<1>a. phase = "alloc" => air = NoDci
  BY DEF TypeInv, AirInv
<1>n. NextTti => lossy' = lossy /\ air' = NoDci
  BY DEF NextTti
<1>1. CASE BeginTti \/ AllocNothing \/ UNCHANGED vars
  <2>1. UNCHANGED <<air, seen, prevSeen, lossy>>
    BY <1>1 DEF BeginTti, AllocNothing, vars, history
  <2> QED
    BY <2>1 DEF LossyInv, OnAir
<1>2. CASE AllocRetx
  <2>1. /\ air = NoDci
        /\ UNCHANGED <<seen, prevSeen, lossy>>
    BY <1>a, <1>2 DEF AllocRetx, history
  <2> QED
    BY <2>1 DEF LossyInv, OnAir
<1>3. CASE AllocNewTx
  <2> DEFINE q == GetEmpty(harq)
  <2>1. /\ air = NoDci /\ q \in Pid /\ lossy' = lossy
        /\ prevSeen' = [prevSeen EXCEPT ![q] = seen[q]]
        /\ seen' = [seen EXCEPT ![q] = FALSE]
        /\ air'.pid = q /\ air' # NoDci
    <3>1. q \in Pid
      BY <1>3, EmptyIsEmpty DEF AllocNewTx
    <3> QED
      BY <1>a, <1>t, <1>3, <3>1 DEF AllocNewTx, Send, NoDci
  <2> HIDE DEF q
  <2>2. ASSUME NEW p \in Pid
        PROVE  /\ ~ prevSeen'[p] => p \in lossy'
               /\ ~ seen'[p] /\ ~ OnAir(p)' => p \in lossy'
    <3>1. CASE p = q
      <4>1. prevSeen'[p] = seen[p] /\ OnAir(p)' /\ ~ OnAir(p)
        BY <1>t, <2>1, <3>1 DEF OnAir
      <4> QED
        BY <2>1, <4>1 DEF LossyInv
    <3>2. CASE p # q
      <4>1. prevSeen'[p] = prevSeen[p] /\ seen'[p] = seen[p] /\ ~ OnAir(p)
        BY <1>t, <2>1, <3>2 DEF OnAir
      <4> QED
        BY <2>1, <4>1 DEF LossyInv
    <3> QED
      BY <3>1, <3>2
  <2> QED
    BY <2>2 DEF LossyInv
<1>4. CASE Receive
  <2>1. /\ NextTti /\ prevSeen' = prevSeen /\ air # NoDci
        /\ seen' = [seen EXCEPT ![air.pid] = TRUE]
    BY <1>4 DEF Receive
  <2>2. lossy' = lossy
    BY <1>n, <2>1
  <2>3. ASSUME NEW p \in Pid, ~ seen'[p]
        PROVE  ~ seen[p] /\ ~ OnAir(p)
    BY <1>t, <2>1, <2>3 DEF OnAir
  <2> QED
    BY <2>1, <2>2, <2>3 DEF LossyInv
<1>5. CASE Miss \/ Idle
  <2>1. /\ NextTti /\ UNCHANGED <<seen, prevSeen>>
        /\ air = NoDci \/ air.pid \in lossy
    BY <1>5 DEF Miss, Idle, history
  <2>2. lossy' = lossy
    BY <1>n, <2>1
  <2>3. ASSUME NEW p \in Pid, OnAir(p)
        PROVE  p \in lossy
    BY <2>1, <2>3 DEF OnAir
  <2> QED
    BY <2>1, <2>2, <2>3 DEF LossyInv
<1> QED
  BY <1>1, <1>2, <1>3, <1>4, <1>5 DEF Next

\* The UE acknowledges what it pushes, or has pushed before.
LEMMA AckMeansPushed ==
  ASSUME TypeInv, CopyInv, AirInv, air # NoDci, NEW good \in BOOLEAN,
         React(ue[air.pid], air, good).ack,
         ~ React(ue[air.pid], air, good).push, prevSeen[air.pid]
  PROVE  pushes[air.pid] > 0
<1> DEFINE p == air.pid
           v == AfterGrant(ue[p], air)
<1>1. p \in Pid /\ air.ndi = harq[p].ndi /\ ue[p] \in UeType
      /\ seen[p] \in BOOLEAN
  BY TypesOfInv DEF TypeInv, TypeOK, AirInv, Types
<1>2. v.ack
  BY DEF React
<1>3. v.ack = (ue[p].ack /\ ~ StartsOver(ue[p], air))
  BY <1>1 DEF AfterGrant, UeType
<1>4. ue[p].ack /\ ~ ue[p].first /\ ue[p].ndi = harq[p].ndi
  BY <1>1, <1>2, <1>3 DEF StartsOver, IsNewTransmission
<1> HIDE DEF v
<1>5. Copy(p)
  BY <1>1 DEF CopyInv
<1>6. pushes[p] = 1
  BY <1>1, <1>4, <1>5 DEF Copy
<1> QED
  BY <1>6

LEMMA AnswerStep ==
  ASSUME Undisturbed, TypeInv, TimeInv, CopyInv, AnswerInv, [Next]_vars
  PROVE  AnswerInv'
<1>t. /\ harq \in [Pid -> HarqType] /\ uci \in [Pid -> {"none", "no_ack", "ack"}]
      /\ pushes \in [Pid -> Nat] /\ prevSeen \in [Pid -> BOOLEAN] /\ AirInv
  BY TimedOfInv DEF Timed, TypeInv, TypeOK
<1>n. ASSUME NextTti, NEW p \in Pid
      PROVE  harq'[p].ack = harq[p].ack
  BY <1>t, <1>n DEF NextTti, Older, HarqType
<1>1. CASE BeginTti
  <2>1. PICK ok \in {FALSE} \cup {uci[p] = "ack" : p \in Reported} :
          harq' = [p \in Pid |-> HarqNewTti(Acked(ok)[p])]
    BY <1>1 DEF BeginTti
  <2>2. UNCHANGED <<pushes, prevSeen>> /\ phase = "tti"
        /\ uci' = [p \in Pid |-> IF p \in Reported THEN "none" ELSE uci[p]]
    BY <1>1 DEF BeginTti, history
  <2>3. ASSUME NEW p \in Pid, harq'[p].ack
        PROVE  harq[p].ack \/ uci[p] = "ack"
    <3> DEFINE a == Acked(ok)[p]
    <3>1. harq'[p] = HarqNewTti(a) /\ ok \in BOOLEAN
      BY <2>1
    <3>2. a \in HarqType /\ (a.ack => harq[p].ack \/ uci[p] = "ack")
      <4>1. CASE Reported = {}
        BY <1>t, <4>1 DEF Acked
      <4>2. CASE Reported # {}
        <5>1. PICK q \in Pid : q \in Reported
          BY <4>2 DEF Reported
        <5>2. AckTarget(harq) = q
          BY <2>2, <5>1, TargetIs
        <5>3. Acked(ok) = [harq EXCEPT ![q] = SetAck(harq[q], ok)]
          BY <4>2, <5>2 DEF Acked
        <5>4. CASE p # q
          BY <1>t, <5>3, <5>4
        <5>5. CASE p = q
          <6>1. a = SetAck(harq[p], ok)
            BY <1>t, <5>3, <5>5
          <6>2. a \in HarqType /\ (a.ack => harq[p].ack \/ ok)
            <7>1. harq[p] \in HarqType /\ SetAck(harq[p], ok) \in HarqType
              BY <1>t, <3>1, MethodTypes
            <7>2. SetAck(harq[p], ok).ack => harq[p].ack \/ ok
              <8>1. CASE harq[p].active
                <9>1. SetAck(harq[p], ok).ack = ok
                  BY <7>1, <8>1 DEF SetAck, HarqType
                <9> QED  BY <9>1
              <8>2. CASE ~ harq[p].active
                BY <8>2 DEF SetAck
              <8> QED  BY <8>1, <8>2
            <7> QED  BY <6>1, <7>1, <7>2
          <6>3. ASSUME ok PROVE uci[p] = "ack"
            <7>1. PICK r \in Reported : uci[r] = "ack"
              BY <2>1, <6>3
            <7>2. r \in Pid
              BY DEF Reported
            <7>3. AckTarget(harq) = r
              BY <2>2, <7>2, TargetIs
            <7> QED
              BY <5>2, <5>5, <7>1, <7>3
          <6> QED
            BY <6>2, <6>3
        <5> QED
          BY <5>4, <5>5
      <4> QED
        BY <4>1, <4>2
    <3> HIDE DEF a
    <3>3. harq'[p].ack = a.ack
      BY <3>1, <3>2 DEF HarqNewTti, HarqType
    <3> QED
      BY <2>3, <3>2, <3>3
  <2>4. \A p \in Pid : uci'[p] = "ack" => uci[p] = "ack"
    BY <2>2
  <2> QED
    BY <2>2, <2>3, <2>4 DEF AnswerInv
<1>2. CASE AllocRetx
  <2> DEFINE q == GetOldest(harq)
  <2>1. /\ harq' = [harq EXCEPT ![q] = NewRetx(harq[q])]
        /\ uci' = [uci EXCEPT ![q] = "no_ack"]
        /\ UNCHANGED <<pushes, prevSeen>>
    BY <1>2 DEF AllocRetx, Send, history
  <2> HIDE DEF q
  <2>2. ASSUME NEW p \in Pid
        PROVE  /\ harq'[p].ack => harq[p].ack
               /\ uci'[p] = "ack" => uci[p] = "ack"
    <3>1. CASE p = q
      <4>1. harq'[p] = NewRetx(harq[p]) /\ harq[p] \in HarqType
        BY <1>t, <2>1, <3>1
      <4>2. ~ harq'[p].ack
        BY <4>1 DEF NewRetx, HarqType
      <4> QED
        BY <1>t, <2>1, <3>1, <4>2
    <3>2. CASE p # q
      BY <1>t, <2>1, <3>2
    <3> QED
      BY <3>1, <3>2
  <2> QED
    BY <2>1, <2>2 DEF AnswerInv
<1>3. CASE AllocNewTx
  <2> DEFINE q == GetEmpty(harq)
  <2>1. PICK size \in Sizes : harq' = [harq EXCEPT ![q] = NewTx(harq[q], size)]
    BY <1>3 DEF AllocNewTx
  <2>2. /\ uci' = [uci EXCEPT ![q] = "no_ack"]
        /\ pushes' = [pushes EXCEPT ![q] = 0]
        /\ prevSeen' = [prevSeen EXCEPT ![q] = seen[q]]
    BY <1>3 DEF AllocNewTx, Send
  <2> HIDE DEF q
  <2>3. ASSUME NEW p \in Pid, uci'[p] = "ack" \/ harq'[p].ack
        PROVE  pushes'[p] > 0 \/ ~ prevSeen'[p]
    <3>1. CASE p = q
      <4>1. harq'[p] = NewTx(harq[p], size) /\ uci'[p] = "no_ack"
        BY <1>t, <2>1, <2>2, <3>1
      <4>2. ~ harq'[p].ack
        BY <4>1 DEF NewTx
      <4> QED
        BY <2>3, <4>1, <4>2
    <3>2. CASE p # q
      <4>1. /\ harq'[p] = harq[p] /\ uci'[p] = uci[p]
            /\ pushes'[p] = pushes[p] /\ prevSeen'[p] = prevSeen[p]
        BY <1>t, <2>1, <2>2, <3>2
      <4> QED
        BY <2>3, <4>1 DEF AnswerInv
    <3> QED
      BY <3>1, <3>2
  <2> QED
    BY <2>3 DEF AnswerInv
<1>4. CASE Receive
  <2> DEFINE q == air.pid
  <2>1. PICK good \in BOOLEAN :
          /\ uci' = [uci EXCEPT ![q] = IF React(ue[q], air, good).ack
                                       THEN "ack" ELSE "no_ack"]
          /\ pushes' = [pushes EXCEPT ![q] = IF React(ue[q], air, good).push
                                             THEN pushes[q] + 1 ELSE pushes[q]]
    BY <1>4 DEF Receive
  <2>2. NextTti /\ prevSeen' = prevSeen /\ air # NoDci
    BY <1>4 DEF Receive
  <2>3. q \in Pid
    BY <2>2 DEF TypeInv, TypeOK
  <2>4. ASSUME NEW p \in Pid, uci'[p] = "ack" \/ harq'[p].ack, prevSeen[p]
        PROVE  pushes'[p] > 0
    <3>1. harq'[p].ack => harq[p].ack
      BY <1>n, <2>2
    <3>2. CASE p # q
      <4>1. uci'[p] = uci[p] /\ pushes'[p] = pushes[p]
        BY <1>t, <2>1, <3>2
      <4> QED
        BY <2>4, <3>1, <4>1 DEF AnswerInv
    <3>3. CASE p = q
      <4>1. pushes'[p] = IF React(ue[q], air, good).push
                         THEN pushes[p] + 1 ELSE pushes[p]
        BY <1>t, <2>1, <3>3
      <4>2. pushes[p] \in Nat
        BY <1>t
      <4>3. CASE React(ue[q], air, good).push
        BY <4>1, <4>2, <4>3
      <4>4. CASE ~ React(ue[q], air, good).push
        <5>1. CASE harq'[p].ack
          BY <2>4, <3>1, <4>1, <4>4, <5>1 DEF AnswerInv
        <5>2. CASE uci'[p] = "ack"
          <6>1. React(ue[q], air, good).ack
            BY <1>t, <2>1, <3>3, <5>2
          <6>2. pushes[q] > 0
            BY <1>t, <2>2, <2>4, <3>3, <4>4, <6>1, AckMeansPushed
          <6> QED
            BY <3>3, <4>1, <4>4, <6>2
        <5> QED
          BY <2>4, <5>1, <5>2
      <4> QED
        BY <4>3, <4>4
    <3> QED
      BY <3>2, <3>3
  <2> QED
    BY <2>2, <2>4 DEF AnswerInv
<1>5. CASE Miss \/ Idle
  <2>1. NextTti /\ UNCHANGED <<uci, pushes, prevSeen>>
    BY <1>5 DEF Miss, Idle, history
  <2> QED
    BY <1>n, <2>1 DEF AnswerInv
<1>6. CASE AllocNothing \/ UNCHANGED vars
  <2>1. UNCHANGED <<harq, uci, pushes, prevSeen>>
    BY <1>6 DEF AllocNothing, vars, history
  <2> QED
    BY <2>1 DEF AnswerInv
<1> QED
  BY <1>1, <1>2, <1>3, <1>4, <1>5, <1>6 DEF Next

\* All that is known of the two ends, undisturbed
LinkInv == TypeInv /\ TimeInv /\ CopyInv /\ AnswerInv /\ LossyInv

LEMMA LinkInit == Init => LinkInv
<1>1. Init => CopyInv
  BY DEF Init, CopyInv, Copy, EmptyProc, FreshUe, OnAir
<1> QED
  BY <1>1, TypeInit, TimeInit, AnswerInit DEF LinkInv

LEMMA LinkStep ==
  ASSUME Undisturbed, LinkInv, [Next]_vars
  PROVE  LinkInv'
BY TypeStep, TimeStep, CopyStep, AnswerStep, LossyStep DEF LinkInv

\* Undisturbed, the eNB believes a block delivered that the UE never pushed only
\* if the UE missed every DCI of the block before it.
THEOREM LostOnlyUnseen ==
  ASSUME Undisturbed
  PROVE  Spec => []OnlyUnseenLost
<1>1. LinkInv => OnlyUnseenLost
  <2> SUFFICES ASSUME LinkInv, NEW p \in Pid, harq[p].ack, pushes[p] = 0
               PROVE  ~ prevSeen[p]
    BY DEF OnlyUnseenLost
  <2> QED
    BY DEF LinkInv, AnswerInv
<1>2. LinkInv /\ [Next]_vars => LinkInv'
  BY LinkStep
<1> QED
  BY <1>1, <1>2, LinkInit, PTL DEF Spec

-----------------------------------------------------------------------------
(* One block after the other                                               *)

\* The block of a process, step by step
BlockStep(p) ==
  LET b == Block(p)
      c == Block(p)'
  IN  \/ c = b
      \/ b.state # "busy" /\ c = [state |-> "busy", tries |-> 1]
      \/ /\ b.state = "busy" /\ b.tries < MaxRetx
         /\ c = [state |-> "busy", tries |-> b.tries + 1]
      \/ b.state = "busy" /\ c = [state |-> "delivered", tries |-> 0]
      \/ /\ b.state = "busy" /\ b.tries = MaxRetx
         /\ c = [state |-> "given_up", tries |-> 0]
      \/ p \in lossy /\ b.state = "busy" /\ c = [state |-> "lost", tries |-> 0]

\* A step that leaves the block to its process
LEMMA BlockKept ==
  ASSUME TypeInv, NEW p \in Pid, pushes'[p] = pushes[p],
         harq'[p] = harq[p] \/ harq'[p] = Older(harq[p])
  PROVE  Block(p)' = Block(p)
<1>1. harq[p] \in HarqType /\ TtiMod \in Nat \ {0} /\ NoAge = -1
  BY TimedOfInv, Constants DEF Timed
<1>2. /\ harq'[p].active = harq[p].active /\ harq'[p].nRtx = harq[p].nRtx
      /\ harq'[p].ack = harq[p].ack
      /\ (harq'[p].age = NoAge) <=> (harq[p].age = NoAge)
  <2>1. CASE harq'[p] = harq[p] \/ harq[p].age = NoAge
    BY <2>1 DEF Older
  <2>2. CASE harq'[p] = Older(harq[p]) /\ harq[p].age # NoAge
    <3>1. harq[p].age \in 0 .. TtiMod - 1
      BY <1>1, <2>2 DEF HarqType
    <3>2. (harq[p].age + 1) % TtiMod \in 0 .. TtiMod - 1
      BY <1>1, <3>1
    <3>3. (harq[p].age + 1) % TtiMod # NoAge
      BY <1>1, <3>2
    <3> QED
      BY <1>1, <2>2, <3>3 DEF Older, HarqType
  <2> QED
    BY <2>1, <2>2
<1> QED
  BY <1>2 DEF Block

\* new_tti ends the blocks that are acknowledged or have no tries left.
LEMMA BlockEnds ==
  ASSUME Undisturbed, LinkInv, AnswerInv', BeginTti, NEW p \in Pid
  PROVE  BlockStep(p)
<1>1. PICK ok \in BOOLEAN : harq' = [q \in Pid |-> HarqNewTti(Acked(ok)[q])]
  BY DEF BeginTti
<1>2. /\ UNCHANGED <<pushes, prevSeen>> /\ phase = "tti"
  BY DEF BeginTti, history
<1> DEFINE h == harq[p]
           a == Acked(ok)[p]
           k == harq'[p]
<1>3. h \in HarqType /\ pushes[p] \in Nat /\ prevSeen[p] \in BOOLEAN
  BY TimedOfInv DEF Timed, LinkInv, TypeInv, TypeOK
<1>4. a \in {h, SetAck(h, ok)} /\ k = HarqNewTti(a)
  BY <1>1, <1>3, TimedOfInv DEF Acked, Timed, LinkInv
<1>5. h.active => ~ h.ack /\ h.age # NoAge
  <2>1. h.active => ~ h.ack /\ h.age \in 1 .. NofHarq
    BY <1>2 DEF LinkInv, TimeInv, TurnInv
  <2>2. NofHarq \in Nat /\ NoAge = -1
    BY Constants
  <2> QED
    BY <2>1, <2>2
<1> HIDE DEF h, a, k
<1>6. CASE pushes[p] > 0
  <2>1. Block(p)' = Block(p)
    BY <1>2, <1>6 DEF Block
  <2> QED
    BY <2>1 DEF BlockStep
<1>7. CASE ~ (pushes[p] > 0) /\ ~ h.active
  <2>1. a = h
    BY <1>4, <1>7 DEF SetAck
  <2>2. k = h
    BY <1>4, <1>7, <2>1 DEF HarqNewTti, HasPendingRetx
  <2>3. Block(p)' = Block(p)
    BY <1>2, <2>2 DEF Block, h, k
  <2> QED
    BY <2>3 DEF BlockStep
<1>8. CASE ~ (pushes[p] > 0) /\ h.active
  <2>1. Block(p) = [state |-> "busy", tries |-> h.nRtx + 1]
    BY <1>8 DEF Block, h
  <2>2. a \in HarqType /\ a.nRtx = h.nRtx /\ a.age = h.age
        /\ (a.active \/ a.ack) /\ (a.active => ~ a.ack)
    <3>1. CASE a = h
      BY <1>3, <1>5, <1>8, <3>1
    <3>2. CASE a = SetAck(h, ok)
      <4>1. a = [h EXCEPT !.ack = ok, !.active = ~ ok]
        BY <1>8, <3>2 DEF SetAck
      <4>2. a.ack = ok /\ a.active = ~ ok /\ a.nRtx = h.nRtx /\ a.age = h.age
        BY <1>3, <4>1 DEF HarqType
      <4>3. a \in HarqType
        BY <1>3, <3>2, MethodTypes
      <4> QED
        BY <4>2, <4>3
    <3> QED
      BY <1>4, <3>1, <3>2
  <2>3. CASE ~ a.active
    <3>1. k = a
      BY <1>4, <2>3 DEF HarqNewTti, HasPendingRetx
    <3>2. k.ack /\ ~ k.active /\ k.age # NoAge
      BY <1>5, <1>8, <2>2, <2>3, <3>1
    <3>3. Block(p)' = [state |-> "lost", tries |-> 0]
      BY <1>2, <1>8, <3>2 DEF Block, k
    <3>4. p \in lossy
      <4>1. ~ prevSeen[p]
        BY <1>2, <1>8, <3>2 DEF AnswerInv, k
      <4> QED
        BY <4>1 DEF LinkInv, LossyInv
    <3> QED
      BY <2>1, <3>3, <3>4 DEF BlockStep
  <2>4. CASE a.active /\ k = a
    <3>1. Block(p)' = Block(p)
      BY <1>2, <1>8, <2>1, <2>2, <2>4 DEF Block, k
    <3> QED
      BY <3>1 DEF BlockStep
  <2>5. CASE a.active /\ k # a
    <3>1. LastTry(a) /\ k = [a EXCEPT !.active = FALSE]
      BY <1>4, <2>5 DEF HarqNewTti
    <3>2. ~ k.active /\ ~ k.ack /\ k.age # NoAge
      BY <1>5, <1>8, <2>2, <2>5, <3>1 DEF HarqType
    <3>3. Block(p)' = [state |-> "given_up", tries |-> 0]
      BY <1>2, <1>8, <3>2 DEF Block, k
    <3>4. h.nRtx + 1 = MaxRetx
      <4>1. h.nRtx \in 0 .. MaxRetx - 1 /\ MaxRetx \in Nat
        BY <1>3, Constants DEF HarqType
      <4>2. h.nRtx + 1 >= MaxRetx
        BY <2>2, <3>1 DEF LastTry
      <4> QED
        BY <4>1, <4>2
    <3> QED
      BY <2>1, <3>3, <3>4 DEF BlockStep
  <2> QED
    BY <2>3, <2>4, <2>5
<1> QED
  BY <1>6, <1>7, <1>8

LEMMA BlockMoves ==
  ASSUME Undisturbed, LinkInv, [Next]_vars, NEW p \in Pid
  PROVE  BlockStep(p)
<1>t. /\ harq \in [Pid -> HarqType] /\ pushes \in [Pid -> Nat]
      /\ harq[p] \in HarqType /\ pushes[p] \in Nat /\ TypeInv
  BY TimedOfInv DEF Timed, LinkInv, TypeInv, TypeOK
<1>k. Block(p)' = Block(p) => BlockStep(p)
  BY DEF BlockStep
<1>n. NextTti => harq'[p] = Older(harq[p])
  BY DEF NextTti
<1>1. CASE BeginTti
  <2>1. AnswerInv'
    BY LinkStep DEF LinkInv
  <2> QED
    BY <1>1, <2>1, BlockEnds
<1>2. CASE AllocRetx
  <2> DEFINE q == GetOldest(harq)
  <2>1. q \in Pid /\ HasPendingRetx(harq[q])
    BY <1>2, OldestWaits DEF AllocRetx, RetxDue, Candidates
  <2>2. harq' = [harq EXCEPT ![q] = NewRetx(harq[q])] /\ pushes' = pushes
    BY <1>2 DEF AllocRetx, history
  <2>3. ~ LastTry(harq[q]) /\ harq[q].active
    BY <1>t, <1>2, <2>1 DEF AllocRetx, TriesInv, TypeInv, HasPendingRetx
  <2> HIDE DEF q
  <2>4. CASE p # q
    <3>1. harq'[p] = harq[p] /\ pushes'[p] = pushes[p]
      BY <1>t, <2>2, <2>4
    <3> QED
      BY <1>t, <1>k, <3>1, BlockKept
  <2>5. CASE p = q /\ pushes[p] > 0
    <3>1. Block(p)' = Block(p)
      BY <2>2, <2>5 DEF Block
    <3> QED
      BY <1>k, <3>1
  <2>6. CASE p = q /\ ~ (pushes[p] > 0)
    <3>1. harq'[p] = NewRetx(harq[p])
      BY <1>t, <2>2, <2>6
    <3>2. harq'[p].active /\ harq'[p].nRtx = harq[p].nRtx + 1
      BY <1>t, <2>3, <2>6, <3>1 DEF NewRetx, HarqType
    <3>3. harq[p].nRtx + 1 < MaxRetx
      BY <1>t, <2>3, <2>6, Constants DEF LastTry, HarqType
    <3>4. /\ Block(p) = [state |-> "busy", tries |-> harq[p].nRtx + 1]
          /\ Block(p)' = [state |-> "busy", tries |-> (harq[p].nRtx + 1) + 1]
      BY <2>2, <2>3, <2>6, <3>2 DEF Block
    <3> QED
      BY <3>3, <3>4 DEF BlockStep
  <2> QED
    BY <2>4, <2>5, <2>6
<1>3. CASE AllocNewTx
  <2> DEFINE q == GetEmpty(harq)
  <2>1. q \in Pid /\ ~ harq[q].active
    BY <1>3, EmptyIsEmpty DEF AllocNewTx
  <2>2. PICK size \in Sizes : harq' = [harq EXCEPT ![q] = NewTx(harq[q], size)]
    BY <1>3 DEF AllocNewTx
  <2>3. pushes' = [pushes EXCEPT ![q] = 0]
    BY <1>3 DEF AllocNewTx
  <2> HIDE DEF q
  <2>4. CASE p # q
    <3>1. harq'[p] = harq[p] /\ pushes'[p] = pushes[p]
      BY <1>t, <2>2, <2>3, <2>4
    <3> QED
      BY <1>t, <1>k, <3>1, BlockKept
  <2>5. CASE p = q
    <3>1. harq'[p] = NewTx(harq[p], size) /\ pushes'[p] = 0
      BY <1>t, <2>2, <2>3, <2>5
    <3>2. harq'[p].active /\ harq'[p].nRtx = 0
      BY <3>1 DEF NewTx
    <3>3. Block(p)' = [state |-> "busy", tries |-> 1]
      BY <3>1, <3>2 DEF Block
    <3>4. Block(p).state # "busy"
      BY <2>1, <2>5 DEF Block
    <3> QED
      BY <3>3, <3>4 DEF BlockStep
  <2> QED
    BY <2>4, <2>5
<1>4. CASE AllocNothing \/ UNCHANGED vars
  <2>1. harq' = harq /\ pushes' = pushes
    BY <1>4 DEF AllocNothing, vars, history
  <2> QED
    BY <1>t, <1>k, <2>1, BlockKept
<1>5. CASE Receive
  <2> DEFINE q == air.pid
  <2>1. PICK good \in BOOLEAN :
          pushes' = [pushes EXCEPT ![q] = IF React(ue[q], air, good).push
                                          THEN pushes[q] + 1 ELSE pushes[q]]
    BY <1>5 DEF Receive
  <2>2. /\ air # NoDci /\ harq'[p] = Older(harq[p])
    BY <1>n, <1>5 DEF Receive
  <2>3. harq[q].active
    BY <2>2 DEF LinkInv, TimeInv, AwaitedInv
  <2>4. CASE pushes'[p] = pushes[p]
    BY <1>t, <1>k, <2>2, <2>4, BlockKept
  <2>5. CASE pushes'[p] # pushes[p]
    <3>1. p = q /\ pushes'[p] = pushes[p] + 1
      BY <1>t, <2>1, <2>5
    <3>2. pushes'[p] > 0
      BY <1>t, <3>1
    <3>3. Block(p)' = [state |-> "delivered", tries |-> 0]
      BY <3>2 DEF Block
    <3>4. Block(p).state = "busy" \/ Block(p) = [state |-> "delivered", tries |-> 0]
      BY <2>3, <3>1 DEF Block
    <3> QED
      BY <3>3, <3>4 DEF BlockStep
  <2> QED
    BY <2>4, <2>5
<1>6. CASE Miss \/ Idle
  <2>1. harq'[p] = Older(harq[p]) /\ pushes' = pushes
    BY <1>n, <1>6 DEF Miss, Idle, history
  <2> QED
    BY <1>t, <1>k, <2>1, BlockKept
<1> QED
  BY <1>1, <1>2, <1>3, <1>4, <1>5, <1>6 DEF Next

\* Undisturbed, the two ends carry one block after the other through each
\* process as TbTransfer says: each gets at most MaxRetx opportunities, is
\* delivered once or given up after the last, and is lost only on a lossy link.
THEOREM DlImplementsTbTransfer ==
  ASSUME Undisturbed
  PROVE  Spec => /\ Transfer!Init
                 /\ [][Transfer!Next]_<<[p \in Pid |-> Block(p)], lossy>>
<1>1. Init => Transfer!Init
  <2> SUFFICES ASSUME Init PROVE Transfer!Init
    OBVIOUS
  <2>1. lossy \in SUBSET Pid
    BY LossyAssumption DEF Init
  <2>2. ASSUME NEW p \in Pid
        PROVE  Block(p) = [state |-> "none", tries |-> 0]
    BY DEF Init, Block, EmptyProc
  <2> QED
    BY <2>1, <2>2 DEF Transfer!Init, Transfer!Ended
<1>2. ASSUME LinkInv, [Next]_vars
      PROVE  [Transfer!Next]_<<[p \in Pid |-> Block(p)], lossy>>
  <2>1. lossy' = lossy
    BY <1>2 DEF Next, BeginTti, AllocRetx, AllocNewTx, AllocNothing, Receive, Miss,
       Idle, NextTti, vars
  <2>2. ASSUME NEW p \in Pid
        PROVE  \/ [q \in Pid |-> Block(q)]'[p] = [q \in Pid |-> Block(q)][p]
               \/ Transfer!Begin(p) \/ Transfer!Retry(p) \/ Transfer!Deliver(p)
               \/ Transfer!GiveUp(p) \/ Transfer!Lose(p)
    <3>1. BlockStep(p)
      BY <1>2, BlockMoves
    <3>2. /\ [q \in Pid |-> Block(q)][p] = Block(p)
          /\ [q \in Pid |-> Block(q)]'[p] = Block(p)'
      OBVIOUS
    <3> QED
      BY <3>1, <3>2 DEF BlockStep, Transfer!Begin, Transfer!Retry, Transfer!Deliver,
         Transfer!GiveUp, Transfer!Lose, Transfer!Busy, Transfer!Ended, Transfer!IsBusy
  <2> QED
    BY <2>1, <2>2 DEF Transfer!Next
<1>3. LinkInv /\ [Next]_vars => LinkInv'
  BY LinkStep
<1> QED
  BY <1>1, <1>2, <1>3, LinkInit, PTL DEF Spec
=============================================================================
