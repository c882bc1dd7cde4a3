-------------------------- MODULE RbgAllocProofs --------------------------
(*************************************************************************)
(* What RbgAlloc promises for every number of RBGs, UEs and HARQ         *)
(* processes: the grid is never inconsistent, retransmissions keep their *)
(* size, and, on type correctness, no new transmission exceeds its UE's  *)
(* cap. Types rest on the two lists that the code fills by position (the *)
(* policy and ue_rntis) being lists of the right things. Last, the       *)
(* default weights share out all RBGs, and UEs get what they have.       *)
(*************************************************************************)
EXTENDS RbgAlloc, FiniteSetTheorems, NaturalsInduction, WellFoundedInduction, TLAPS

\* The grid covers what it has given away, and between two loops over the
\* queue nothing is given away; with that NoRbgTwice is inductive.
GridInv ==
  /\ grant = [u \in Rnti |-> grant[u]]
  /\ ctrl \subseteq dlMask
  /\ \A u \in Rnti : grant[u] \subseteq dlMask
  /\ phase # "alloc" => \A u \in Rnti : grant[u] = {}
  /\ NoRbgTwice

\* A mask that is granted to a retransmission is free: alloc_dl did not see it
\* collide, or it was made of free RBGs.
LEMMA RetxMasksAreFree ==
  ASSUME NEW u, NEW mask \in RetxMasks(u)
  PROVE  mask \cap dlMask = {}
<1>1. CASE ~ Collides(harq[u][retx[u]])
  BY <1>1 DEF RetxMasks, Collides
<1>2. CASE Collides(harq[u][retx[u]])
  <2>1. mask = SameSizeMask(Cardinality(harq[u][retx[u]]))
    BY <1>2 DEF RetxMasks
  <2>2. QED BY <2>1 DEF SameSizeMask, Lowest, free
<1>3. QED BY <1>1, <1>2

\* So is a mask that is granted to a new transmission: try_dl_newtx_alloc_greedy
\* would have been refused.
LEMMA NewTxMaskIsFree ==
  ASSUME NEW u, NewTxRefusal(u) = "none"
  PROVE  NewTxMask(u) \cap dlMask = {}
<1>1. ~ Collides(NewTxMask(u))
  BY DEF NewTxRefusal
<1>2. QED BY <1>1 DEF Collides

\* A grant of free RBGs keeps the invariant.
LEMMA GrantKeepsGrid ==
  ASSUME GridInv, NEW u \in Rnti, NEW p, NEW mask,
         mask \cap dlMask = {}, Grant(u, p, mask), Pop(u)
  PROVE  GridInv'
<1>1. dlMask' = dlMask \cup mask /\ ctrl' = ctrl /\ phase' = "alloc"
  BY DEF Grant, Pop
<1>2. grant' = [v \in Rnti |-> IF v = u THEN mask ELSE grant[v]]
  BY DEF Grant, GridInv
<1>3. \A v \in Rnti : grant'[v] = IF v = u THEN mask ELSE grant[v]
  BY <1>2
<1>4. grant' = [v \in Rnti |-> grant'[v]]
  BY <1>2
<1>5. ctrl' \subseteq dlMask'
  BY <1>1 DEF GridInv
<1>6. \A v \in Rnti : grant'[v] \subseteq dlMask'
  BY <1>1, <1>3 DEF GridInv
<1>7. NoRbgTwice'
  <2>1. SUFFICES ASSUME NEW v \in Rnti
                 PROVE  /\ grant'[v] \cap ctrl' = {}
                        /\ \A w \in Rnti \ {v} : grant'[v] \cap grant'[w] = {}
    BY DEF NoRbgTwice
  <2>2. grant'[v] \cap ctrl' = {}
    BY <1>1, <1>3 DEF GridInv, NoRbgTwice
  <2>3. ASSUME NEW w \in Rnti \ {v}
        PROVE  grant'[v] \cap grant'[w] = {}
    <3>1. CASE v = u
      BY <3>1, <1>3 DEF GridInv
    <3>2. CASE w = u
      BY <3>2, <1>3 DEF GridInv
    <3>3. CASE v # u /\ w # u
      BY <3>3, <1>3 DEF GridInv, NoRbgTwice
    <3>4. QED BY <3>1, <3>2, <3>3
  <2>4. QED BY <2>2, <2>3
<1>8. QED BY <1>1, <1>4, <1>5, <1>6, <1>7 DEF GridInv

\* A step that leaves the grid alone keeps the invariant, unless it ends the
\* loop.
LEMMA GridUnchanged ==
  ASSUME GridInv, UNCHANGED <<ctrl, dlMask, grant>>,
         phase' # "alloc" => phase # "alloc"
  PROVE  GridInv'
BY DEF GridInv, NoRbgTwice

LEMMA GridInvInit ==
  ASSUME Init
  PROVE  GridInv
BY DEF Init, FreshSubframe, GridInv, NoRbgTwice

LEMMA GridInvInductive ==
  ASSUME GridInv, [Next]_vars
  PROVE  GridInv'
<1>1. CASE StartSubframe
  <2>1. /\ grant' = grant /\ dlMask' = ctrl' /\ phase = "idle" /\ phase' = "caps"
    BY <1>1 DEF StartSubframe
  <2>2. \A u \in Rnti : grant'[u] = {}
    BY <2>1 DEF GridInv
  <2>3. NoRbgTwice'
    BY <2>2 DEF NoRbgTwice
  <2>4. QED BY <2>1, <2>2, <2>3 DEF GridInv
<1>2. CASE UplinkSubframe
  BY <1>2, GridUnchanged DEF UplinkSubframe, subframe
<1>3. CASE SchedDlUsers
  BY <1>3, GridUnchanged DEF SchedDlUsers
<1>4. ASSUME NEW u \in Rnti, Retransmit(u)
      PROVE  GridInv'
  <2>1. Pop(u)
    BY <1>4 DEF Retransmit
  <2>2. CASE \E mask \in RetxMasks(u) : Grant(u, retx[u], mask)
    <3>1. PICK mask \in RetxMasks(u) : Grant(u, retx[u], mask)
      BY <2>2
    <3>2. mask \cap dlMask = {}
      BY RetxMasksAreFree
    <3>3. QED BY <2>1, <3>1, <3>2, GrantKeepsGrid
  <2>3. CASE Refuse(u, "no_cch_space")
    BY <2>1, <2>3, GridUnchanged DEF Refuse, Pop
  <2>4. QED BY <1>4, <2>2, <2>3 DEF Retransmit
<1>5. ASSUME NEW u \in Rnti, NewTransmission(u)
      PROVE  GridInv'
  <2>1. Pop(u)
    BY <1>5 DEF NewTransmission
  <2>2. CASE /\ NewTxRefusal(u) = "none"
             /\ Grant(u, Min(EmptyPids(u)), NewTxMask(u))
    <3>1. NewTxMask(u) \cap dlMask = {}
      BY <2>2, NewTxMaskIsFree
    <3>2. QED BY <2>1, <2>2, <3>1, GrantKeepsGrid
  <2>3. CASE Refuse(u, "no_cch_space")
    BY <2>1, <2>3, GridUnchanged DEF Refuse, Pop
  <2>4. CASE Refuse(u, NewTxRefusal(u))
    BY <2>1, <2>4, GridUnchanged DEF Refuse, Pop
  <2>5. QED BY <1>5, <2>2, <2>3, <2>4 DEF NewTransmission
<1>6. ASSUME NEW u \in Rnti, GiveUp(u)
      PROVE  GridInv'
  BY <1>6, GridUnchanged DEF GiveUp, Refuse, Pop
<1>7. CASE EndSubframe
  <2>1. /\ grant' = [u \in Rnti |-> {}] /\ ctrl' = {} /\ dlMask' = {}
    BY <1>7 DEF EndSubframe
  <2>2. QED BY <2>1 DEF GridInv, NoRbgTwice
<1>8. ASSUME NEW u \in Rnti, AddUe(u) \/ RemUe(u)
      PROVE  GridInv'
  BY <1>8, GridUnchanged DEF AddUe, RemUe, subframe
<1>9. CASE ReceivePolicy \/ ClearPolicy
  BY <1>9, GridUnchanged DEF ReceivePolicy, ClearPolicy, subframe
<1>10. ASSUME NEW u \in Rnti, NEW p \in Pid, EmptyHarq(u, p)
       PROVE  GridInv'
  BY <1>10, GridUnchanged DEF EmptyHarq, subframe
<1>11. CASE UNCHANGED vars
  BY <1>11, GridUnchanged DEF vars, subframe
<1>12. QED
  BY <1>1, <1>2, <1>3, <1>4, <1>5, <1>6, <1>7, <1>8, <1>9, <1>10, <1>11
     DEF Next, Scheduler, Environment

\* No RBG is given twice in a subframe, for every number of UEs, RBGs and HARQ
\* processes, whatever caps the policies and the default weights produce, and
\* although the masks of find_optimal_rbgmask overlap what is taken.
THEOREM NoDoubleAllocation == Spec => []NoRbgTwice
<1>1. Init => GridInv
  BY GridInvInit
<1>2. GridInv /\ [Next]_vars => GridInv'
  BY GridInvInductive
<1>3. GridInv => NoRbgTwice
  BY DEF GridInv
<1>4. QED BY <1>1, <1>2, <1>3, PTL DEF Spec

-----------------------------------------------------------------------------
(* Least and greatest elements, and the RBGs of a mask                     *)

LEMMA LeastExists ==
  ASSUME NEW S \in SUBSET Nat, S # {}
  PROVE  Min(S) \in S /\ \A x \in S : Min(S) <= x
<1> DEFINE Less == OpToRel(<, Nat)
<1>1. PICK m \in S : \A x \in S : ~ (<<x, m>> \in Less)
  BY NatLessThanWellFounded, WFMin
<1>2. \A x \in S : x < m => <<x, m>> \in Less
  BY DEF OpToRel
<1> HIDE DEF Less
<1>3. ASSUME NEW x \in S PROVE m <= x
  <2>1. ~ (x < m)
    BY <1>1, <1>2
  <2>2. x \in Nat /\ m \in Nat
    OBVIOUS
  <2> QED
    BY <2>1, <2>2
<1> QED
  BY <1>3 DEF Min

LEMMA GreatestExists ==
  ASSUME NEW n \in Nat, NEW S \in SUBSET (0 .. n), S # {}
  PROVE  Max(S) \in S /\ \A x \in S : x <= Max(S)
<1> DEFINE T == {n - x : x \in S}
<1>1. T \in SUBSET Nat /\ T # {}
  OBVIOUS
<1>2. PICK y \in T : \A z \in T : y <= z
  BY <1>1, LeastExists
<1>3. PICK m \in S : y = n - m
  OBVIOUS
<1>4. \A x \in S : m >= x
  BY <1>2, <1>3
<1> QED
  BY <1>4 DEF Max

\* Lowest never takes more RBGs than it is asked for.
LEMMA LowestBounded ==
  ASSUME NEW mask \in SUBSET Rbg, NEW cap \in Nat
  PROVE  Cardinality(Lowest(mask, cap)) <= cap
<1> DEFINE low == Lowest(mask, cap)
<1>r. NofRbgs - 1 \in Nat /\ Rbg = 0 .. NofRbgs - 1 /\ IsFiniteSet(Rbg)
  BY SizesAssumption, FS_Interval DEF Rbg
<1>1. low \in SUBSET Rbg /\ IsFiniteSet(low) /\ IsFiniteSet(mask)
  BY <1>r, FS_Subset DEF Lowest
<1>2. CASE low = {}
  BY <1>2, FS_EmptySet
<1>3. CASE low # {}
  <2> DEFINE m == Max(low)
             below == {q \in mask : q < m}
  <2>1. m \in low /\ \A x \in low : x <= m
    BY <1>1, <1>3, <1>r, GreatestExists
  <2>2. Cardinality(below) < cap
    BY <2>1 DEF Lowest
  <2>3. low \ {m} \in SUBSET below
    <3> HIDE DEF m
    <3>1. ASSUME NEW x \in low \ {m} PROVE x \in mask /\ x < m
      <4>1. x \in mask /\ x \in Int /\ m \in Int
        BY <1>1, <1>r, <2>1 DEF Lowest
      <4>2. x <= m
        BY <2>1
      <4> QED
        BY <4>1, <4>2
    <3> QED
      BY <3>1
  <2>4. IsFiniteSet(below)
    BY <1>1, FS_Subset
  <2>5. Cardinality(low \ {m}) <= Cardinality(below) /\ Cardinality(below) \in Nat
    BY <2>3, <2>4, FS_Subset, FS_CardinalityType
  <2>6. Cardinality(low \ {m}) = Cardinality(low) - 1 /\ Cardinality(low) \in Nat
    BY <1>1, <2>1, FS_RemoveElement, FS_CardinalityType
  <2> HIDE DEF m, below
  <2> QED
    BY <2>2, <2>5, <2>6
<1> QED
  BY <1>2, <1>3

\* Whatever find_optimal_rbgmask skips, its mask is one of the carrier.
LEMMA OptMaskType ==
  ASSUME NEW need \in Nat \ {0}
  PROVE  OptMask(need) \in SUBSET Rbg
<1> DEFINE skip == Cardinality(free) - need
           skipped == Lowest(free \ {0}, skip)
<1>r. NofRbgs - 1 \in Nat /\ Rbg = 0 .. NofRbgs - 1 /\ IsFiniteSet(Rbg)
  BY SizesAssumption, FS_Interval DEF Rbg
<1>1. /\ free \in SUBSET Rbg /\ IsFiniteSet(free) /\ IsFiniteSet(free \ {0})
      /\ free \ {0} \in SUBSET Nat
      /\ Cardinality(free) \in Nat /\ skip \in Int
  BY <1>r, FS_Subset, FS_CardinalityType DEF free
<1>2. CASE skip < 0
  BY <1>1, <1>2 DEF OptMask
<1>3. CASE skip = 0
  BY <1>3, <1>r DEF OptMask
<1>4. CASE skip > 0
  <2>1. free \ {0} # {}
    <3>1. CASE free \ {0} = {}
      <4>1. free \subseteq {0}
        BY <3>1
      <4>2. IsFiniteSet({0}) /\ Cardinality({0}) = 1
        BY FS_Singleton
      <4>3. Cardinality(free) <= Cardinality({0})
        BY <4>1, <4>2, FS_Subset
      <4> QED
        BY <1>1, <1>4, <4>2, <4>3
    <3> QED
      BY <3>1
  <2> DEFINE m == Min(free \ {0})
  <2>2. m \in free \ {0} /\ \A x \in free \ {0} : m <= x
    BY <1>1, <2>1, LeastExists
  <2>3. {q \in free \ {0} : q < m} = {}
    BY <1>1, <2>2
  <2>4. m \in skipped
    BY <1>4, <2>2, <2>3, FS_EmptySet DEF Lowest
  <2>5. skipped \in SUBSET (0 .. NofRbgs - 1)
    BY <1>1, <1>r DEF Lowest
  <2>6. Max(skipped) \in 0 .. NofRbgs - 1
    BY <1>r, <2>4, <2>5, GreatestExists
  <2>7. OptMask(need) = 0 .. NofRbgs - 1 - Max(skipped)
    BY <1>4, <1>1 DEF OptMask
  <2> HIDE DEF skipped
  <2> QED
    BY <1>r, <2>6, <2>7
<1> HIDE DEF skip, skipped
<1> QED
  BY <1>1, <1>2, <1>3, <1>4

LEMMA NewTxMaskBounded ==
  ASSUME NEW u, demand[u] \in Nat \ {0}, rbgAlloc[u] \in Nat
  PROVE  /\ NewTxMask(u) \in SUBSET Rbg
         /\ rbgAlloc[u] > 0 => Cardinality(NewTxMask(u)) <= rbgAlloc[u]
<1>1. OptMask(demand[u]) \in SUBSET Rbg
  BY OptMaskType
<1> QED
  BY <1>1, LowestBounded DEF NewTxMask, Capped, Lowest

-----------------------------------------------------------------------------
(* Masks, retransmissions and caps                                         *)

\* The part of TypeOK that the loop over the queue works on
MasksOK ==
  /\ harq \in [Rnti -> [Pid -> SUBSET Rbg]]
  /\ retx \in [Rnti -> Pid \cup {NoPid}]
  /\ demand \in [Rnti -> 0 .. NofRbgs + 1]
  /\ grant \in [Rnti -> SUBSET Rbg]
  /\ dlMask \in SUBSET Rbg
  /\ queue \in SUBSET Rnti
  /\ ueDb \in SUBSET Rnti /\ enabled \in SUBSET Rnti

\* What is shown below of the caps
CapsAreNumbers == rbgAlloc \in [Rnti -> Nat]

LEMMA MasksInit == Init => MasksOK
BY SizesAssumption DEF Init, FreshSubframe, MasksOK

\* A mask for a retransmission is as large as that of the process.
LEMMA RetxMasksSize ==
  ASSUME MasksOK, NEW u \in Rnti, retx[u] # NoPid, NEW mask \in RetxMasks(u)
  PROVE  /\ retx[u] \in Pid
         /\ mask \in SUBSET Rbg
         /\ Cardinality(mask) = Cardinality(harq[u][retx[u]])
<1>1. retx[u] \in Pid /\ harq[u][retx[u]] \in SUBSET Rbg
  BY DEF MasksOK
<1>2. SameSizeMask(Cardinality(harq[u][retx[u]])) \in SUBSET Rbg
  BY DEF SameSizeMask, Lowest, free
<1> QED
  BY <1>1, <1>2 DEF RetxMasks

\* A new transmission takes an empty process, and at most the RBGs of the cap.
LEMMA NewTxGrant ==
  ASSUME MasksOK, NEW u \in Rnti, NewTransmission(u)
  PROVE  LET p == Min(EmptyPids(u))
         IN /\ p \in Pid /\ harq[u][p] = {}
            /\ NewTxRefusal(u) = "none" =>
                 /\ NewTxMask(u) \in SUBSET Rbg /\ NewTxMask(u) # {}
                 /\ rbgAlloc[u] \in Nat /\ rbgAlloc[u] > 0 =>
                      Cardinality(NewTxMask(u)) <= rbgAlloc[u]
<1>1. EmptyPids(u) \in SUBSET Nat /\ EmptyPids(u) # {}
  BY PidAssumption DEF NewTransmission, EmptyPids
<1>2. Min(EmptyPids(u)) \in EmptyPids(u)
  BY <1>1, LeastExists
<1>3. Min(EmptyPids(u)) \in Pid /\ harq[u][Min(EmptyPids(u))] = {}
  BY <1>2 DEF EmptyPids
<1>4. ASSUME NewTxRefusal(u) = "none"
      PROVE  /\ NewTxMask(u) \in SUBSET Rbg /\ NewTxMask(u) # {}
             /\ rbgAlloc[u] \in Nat /\ rbgAlloc[u] > 0 =>
                  Cardinality(NewTxMask(u)) <= rbgAlloc[u]
  <2>1. demand[u] # 0 /\ ~ (Cardinality(NewTxMask(u)) < MinRbgs)
    BY <1>4 DEF NewTxRefusal
  <2>2. demand[u] \in Nat \ {0}
    BY <2>1, SizesAssumption DEF MasksOK
  <2>3. NewTxMask(u) # {}
    BY <2>1, FS_EmptySet, SizesAssumption
  <2>4. NewTxMask(u) \in SUBSET Rbg
    BY <2>2, OptMaskType DEF NewTxMask, Capped, Lowest
  <2> QED
    BY <2>2, <2>3, <2>4, NewTxMaskBounded
<1> QED
  BY <1>3, <1>4

\* What one turn of the loop does to the processes and the grants
LEMMA LoopTurn ==
  ASSUME MasksOK, NEW u \in Rnti,
         Retransmit(u) \/ NewTransmission(u) \/ GiveUp(u)
  PROVE  /\ Pop(u)
         /\ \/ UNCHANGED <<harq, grant, dlMask, newTx>>
            \/ \E p \in Pid, mask \in SUBSET Rbg :
                 /\ Grant(u, p, mask)
                 /\ harq[u][p] # {} => Cardinality(mask) = Cardinality(harq[u][p])
                 /\ \/ newTx' = newTx
                    \/ /\ newTx' = newTx \cup {u} /\ mask # {}
                       /\ rbgAlloc[u] \in Nat /\ rbgAlloc[u] > 0 =>
                            Cardinality(mask) <= rbgAlloc[u]
<1>1. CASE Retransmit(u)
  <2>1. Pop(u) /\ retx[u] # NoPid /\ newTx' = newTx
    BY <1>1 DEF Retransmit
  <2>2. CASE \E mask \in RetxMasks(u) : Grant(u, retx[u], mask)
    BY <2>1, <2>2, RetxMasksSize
  <2>3. CASE Refuse(u, "no_cch_space")
    BY <2>1, <2>3 DEF Refuse
  <2> QED
    BY <1>1, <2>2, <2>3 DEF Retransmit
<1>2. CASE NewTransmission(u)
  <2> DEFINE p == Min(EmptyPids(u))
  <2>1. Pop(u) /\ p \in Pid /\ harq[u][p] = {}
    BY <1>2, NewTxGrant DEF NewTransmission
  <2>2. CASE /\ NewTxRefusal(u) = "none" /\ Grant(u, p, NewTxMask(u))
             /\ newTx' = newTx \cup {u}
    BY <1>2, <2>1, <2>2, NewTxGrant
  <2>3. CASE \E why : Refuse(u, why) /\ newTx' = newTx
    BY <2>1, <2>3 DEF Refuse
  <2> QED
    BY <1>2, <2>2, <2>3 DEF NewTransmission
<1>3. CASE GiveUp(u)
  BY <1>3 DEF GiveUp, Refuse
<1> QED
  BY <1>1, <1>2, <1>3

LEMMA MasksStep == MasksOK /\ [Next]_vars => MasksOK'
<1> SUFFICES ASSUME MasksOK, [Next]_vars PROVE MasksOK'
  OBVIOUS
<1> USE DEF MasksOK
<1>1. ASSUME NEW u \in Rnti, Retransmit(u) \/ NewTransmission(u) \/ GiveUp(u)
      PROVE  MasksOK'
  <2>1. Pop(u)
    BY <1>1, LoopTurn
  <2>2. UNCHANGED <<retx, demand, ueDb, enabled>> /\ queue' \in SUBSET Rnti
    BY <2>1 DEF Pop
  <2>3. CASE UNCHANGED <<harq, grant, dlMask, newTx>>
    BY <2>2, <2>3
  <2>4. CASE \E p \in Pid, mask \in SUBSET Rbg : Grant(u, p, mask)
    BY <2>2, <2>4 DEF Grant
  <2> QED
    BY <1>1, <2>3, <2>4, LoopTurn
<1>2. CASE StartSubframe
  <2>1. PICK en \in SUBSET ueDb, c \in CtrlSizes :
          /\ enabled' = en /\ dlMask' = 0 .. c - 1
          /\ retx' \in DueRetx(en) /\ demand' \in NewDemands(en)
    BY <1>2 DEF StartSubframe
  <2>2. dlMask' \in SUBSET Rbg
    BY <2>1, InputsAssumption, SizesAssumption DEF Rbg
  <2>3. /\ retx' \in [Rnti -> Pid \cup {NoPid}]
        /\ demand' \in [Rnti -> 0 .. NofRbgs + 1]
    <3>1. Demands \cup {0} \subseteq 0 .. NofRbgs + 1
      BY InputsAssumption, SizesAssumption
    <3> QED
      BY <2>1, <3>1 DEF DueRetx, NewDemands
  <2>4. queue' \in SUBSET Rnti
    BY <1>2, <2>1 DEF StartSubframe, Listed
  <2> QED
    BY <1>2, <2>1, <2>2, <2>3, <2>4 DEF StartSubframe
<1>3. CASE SchedDlUsers
  BY <1>3 DEF SchedDlUsers, Listed
<1>4. CASE EndSubframe
  BY <1>4, SizesAssumption DEF EndSubframe
<1>5. ASSUME NEW u \in Rnti, AddUe(u) \/ RemUe(u)
      PROVE  MasksOK'
  BY <1>5 DEF AddUe, RemUe, subframe
<1>6. ASSUME NEW u \in Rnti, NEW p \in Pid, EmptyHarq(u, p)
      PROVE  MasksOK'
  BY <1>6 DEF EmptyHarq, subframe
<1>7. CASE UplinkSubframe \/ ReceivePolicy \/ ClearPolicy \/ UNCHANGED vars
  BY <1>7 DEF UplinkSubframe, ReceivePolicy, ClearPolicy, subframe, persistent, vars
<1> QED
  BY <1>1, <1>2, <1>3, <1>4, <1>5, <1>6, <1>7 DEF Next, Scheduler, Environment

\* A retransmission always has as many RBGs as the first transmission of its
\* transport block, also when alloc_dl moves it.
THEOREM RetransmissionsKeepTheirSize == Spec => RetxKeepsSize
<1> DEFINE Kept == \A u \in Rnti, p \in Pid :
                     harq[u][p] # {} /\ harq'[u][p] # {} =>
                       Cardinality(harq'[u][p]) = Cardinality(harq[u][p])
<1>1. MasksOK /\ [Next]_vars => [Kept]_vars
  <2> SUFFICES ASSUME MasksOK, Next PROVE Kept
    OBVIOUS
  <2>1. ASSUME NEW u \in Rnti, Retransmit(u) \/ NewTransmission(u) \/ GiveUp(u)
        PROVE  Kept
    <3>1. CASE UNCHANGED <<harq, grant, dlMask, newTx>>
      BY <3>1
    <3>2. CASE \E p \in Pid, mask \in SUBSET Rbg :
                 /\ Grant(u, p, mask)
                 /\ harq[u][p] # {} => Cardinality(mask) = Cardinality(harq[u][p])
      BY <3>2 DEF Grant, MasksOK
    <3> QED
      BY <2>1, <3>1, <3>2, LoopTurn
  <2>2. ASSUME NEW u \in Rnti, RemUe(u)
        PROVE  Kept
    BY <2>2 DEF RemUe, MasksOK
  <2>3. ASSUME NEW u \in Rnti, NEW p \in Pid, EmptyHarq(u, p)
        PROVE  Kept
    BY <2>3 DEF EmptyHarq, MasksOK
  <2>4. ASSUME harq' = harq PROVE Kept
    BY <2>4
  <2> HIDE DEF Kept
  <2> QED
    BY <2>1, <2>2, <2>3, <2>4
       DEF Next, Scheduler, Environment, StartSubframe, UplinkSubframe, SchedDlUsers,
           EndSubframe, AddUe, ReceivePolicy, ClearPolicy
<1>2. Spec => []MasksOK
  BY MasksInit, MasksStep, PTL DEF Spec
<1> QED
  BY <1>1, <1>2, PTL DEF Spec, RetxKeepsSize

\* A UE whose new transmission is allocated leaves the queue, and caps change only
\* between two loops.
CapInv ==
  /\ newTx \in SUBSET Rnti /\ newTx \cap queue = {}
  /\ phase # "alloc" => newTx = {}
  /\ NewTxWithinCap

LEMMA CapStep ==
  MasksOK /\ CapInv /\ CapsAreNumbers /\ [Next]_vars => CapInv'
<1> SUFFICES ASSUME MasksOK, CapInv, CapsAreNumbers, [Next]_vars
             PROVE  CapInv'
  OBVIOUS
<1>1. ASSUME NEW u \in Rnti, Retransmit(u) \/ NewTransmission(u) \/ GiveUp(u)
      PROVE  CapInv'
  <2>1. /\ phase' = "alloc" /\ rbgAlloc' = rbgAlloc
        /\ u \in queue /\ queue' = queue \ {u} /\ u \notin newTx
    BY <1>1, LoopTurn DEF Pop, IsTop, CapInv
  <2>2. CASE UNCHANGED <<harq, grant, dlMask, newTx>>
    BY <2>1, <2>2 DEF CapInv, NewTxWithinCap
  <2>3. ASSUME NEW p \in Pid, NEW mask \in SUBSET Rbg, Grant(u, p, mask),
               \/ newTx' = newTx
               \/ /\ newTx' = newTx \cup {u} /\ mask # {}
                  /\ rbgAlloc[u] \in Nat /\ rbgAlloc[u] > 0 =>
                       Cardinality(mask) <= rbgAlloc[u]
        PROVE  CapInv'
    <3>1. /\ \A v \in Rnti \ {u} : grant'[v] = grant[v]
          /\ grant'[u] = mask
      BY <2>3 DEF Grant, MasksOK
    <3>2. rbgAlloc[u] \in Nat
      BY DEF CapsAreNumbers
    <3>3. NewTxWithinCap'
      BY <2>1, <2>3, <3>1, <3>2 DEF CapInv, NewTxWithinCap
    <3> QED
      BY <2>1, <2>3, <3>3 DEF CapInv
  <2> QED
    BY <1>1, <2>2, <2>3, LoopTurn
<1>2. CASE StartSubframe \/ SchedDlUsers
  <2>1. phase # "alloc" /\ newTx' = newTx
    BY <1>2 DEF StartSubframe, SchedDlUsers
  <2> QED
    BY <2>1 DEF CapInv, NewTxWithinCap
<1>3. CASE EndSubframe
  BY <1>3 DEF EndSubframe, CapInv, NewTxWithinCap
<1>4. ASSUME UNCHANGED <<phase, subframe, rbgAlloc>> PROVE CapInv'
  BY <1>4 DEF subframe, CapInv, NewTxWithinCap
<1> QED
  BY <1>1, <1>2, <1>3, <1>4
     DEF Next, Scheduler, Environment, UplinkSubframe, AddUe, RemUe, ReceivePolicy,
         ClearPolicy, EmptyHarq, vars, persistent

---------------------------------------------------------------------------
(* Ranks: the n-th element of a finite set, in the order of a key          *)

\* A finite set has an element with the greatest key.
LEMMA GreatestKeyExists ==
  ASSUME NEW S, IsFiniteSet(S), S # {}, NEW key \in [S -> Nat]
  PROVE  \E m \in S : \A x \in S : key[x] <= key[m]
<1> DEFINE above(x) == {y \in S : key[y] > key[x]}
           counts   == {Cardinality(above(x)) : x \in S}
<1>1. \A x \in S : IsFiniteSet(above(x)) /\ Cardinality(above(x)) \in Nat
  BY FS_Subset, FS_CardinalityType
<1>2. counts \in SUBSET Nat /\ counts # {}
  BY <1>1
<1>3. Min(counts) \in counts /\ \A c \in counts : Min(counts) <= c
  BY <1>2, LeastExists
<1>4. PICK m \in S : \A x \in S : Cardinality(above(m)) <= Cardinality(above(x))
  <2>1. PICK m \in S : Min(counts) = Cardinality(above(m))
    BY <1>3
  <2>2. \A x \in S : Min(counts) <= Cardinality(above(x))
    BY <1>3
  <2> QED
    BY <2>1, <2>2
<1>5. ASSUME NEW w \in above(m) PROVE FALSE
  <2>1. above(w) \subseteq above(m) \ {w}
    BY <1>5
  <2>2. /\ IsFiniteSet(above(m) \ {w})
        /\ Cardinality(above(m) \ {w}) = Cardinality(above(m)) - 1
    BY <1>1, <1>4, <1>5, FS_RemoveElement
  <2>3. Cardinality(above(w)) <= Cardinality(above(m)) - 1
    BY <2>1, <2>2, FS_Subset
  <2>4. w \in S
    BY <1>5
  <2> HIDE DEF above
  <2> QED
    BY <1>1, <1>4, <2>3, <2>4
<1>6. \A x \in S : ~ (key[x] > key[m])
  BY <1>5
<1> QED
  BY <1>6

Below(S, key, x) == {y \in S : key[y] < key[x]}

\* So, when keys are distinct, every rank below the size of the set is taken.
LEMMA RankExists ==
  ASSUME NEW S, IsFiniteSet(S), NEW key \in [S -> Nat],
         \A x, y \in S : key[x] = key[y] => x = y,
         NEW k \in Nat, k < Cardinality(S)
  PROVE  \E u \in S : Cardinality(Below(S, key, u)) = k
<1> DEFINE below(x) == {y \in S : key[y] < key[x]}
           high     == {x \in S : Cardinality(below(x)) >= k}
           keys     == {key[x] : x \in high}
<1>0. Cardinality(S) \in Nat
  BY FS_CardinalityType
<1>1. \A x \in S : IsFiniteSet(below(x)) /\ Cardinality(below(x)) \in Nat
  BY FS_Subset, FS_CardinalityType
<1>2. high # {}
  <2>1. S # {}
    BY <1>0, FS_EmptySet
  <2>2. PICK g \in S : \A x \in S : key[x] <= key[g]
    BY <2>1, GreatestKeyExists
  <2>3. below(g) = S \ {g}
    <3>1. \A x \in S : x # g => key[x] # key[g] /\ key[x] <= key[g]
      BY <2>2
    <3>2. \A x \in S : x # g <=> key[x] < key[g]
      BY <3>1
    <3> QED
      BY <3>2
  <2>4. Cardinality(S \ {g}) = Cardinality(S) - 1
    BY FS_RemoveElement
  <2>5. Cardinality(below(g)) >= k
    BY <1>0, <2>3, <2>4
  <2> QED
    BY <2>5
<1>3. PICK m \in high : \A x \in high : key[m] <= key[x]
  <2>1. keys \in SUBSET Nat /\ keys # {}
    BY ZenonT(40), <1>2
  <2>2. Min(keys) \in keys /\ \A x \in keys : Min(keys) <= x
    BY <2>1, LeastExists
  <2>3. PICK m \in high : Min(keys) = key[m]
    BY <2>2
  <2>4. \A x \in high : Min(keys) <= key[x]
    <3>1. \A x \in high : key[x] \in keys
      OBVIOUS
    <3> HIDE DEF keys, high
    <3> QED
      BY <2>2, <3>1
  <2> QED
    BY <2>3, <2>4
<1>4. m \in S /\ Cardinality(below(m)) >= k
  OBVIOUS
<1>5. ASSUME Cardinality(below(m)) > k PROVE FALSE
  <2>1. below(m) # {}
    BY <1>5, FS_EmptySet
  <2> DEFINE keyBelow == [x \in below(m) |-> key[x]]
  <2>2. keyBelow \in [below(m) -> Nat]
    OBVIOUS
  <2>3. PICK w \in below(m) : \A x \in below(m) : keyBelow[x] <= keyBelow[w]
    BY <1>1, <1>4, <2>1, <2>2, GreatestKeyExists
  <2>4. w \in S /\ key[w] < key[m]
    OBVIOUS
  <2>5. \A x \in below(m) : x # w => key[x] < key[w]
    <3>1. ASSUME NEW x \in below(m), x # w PROVE key[x] < key[w]
      <4>1. keyBelow[x] <= keyBelow[w]
        BY <2>3
      <4>2. keyBelow[x] = key[x] /\ keyBelow[w] = key[w]
        OBVIOUS
      <4>3. key[x] # key[w] /\ key[x] \in Nat /\ key[w] \in Nat
        BY <3>1, <2>4
      <4> HIDE DEF keyBelow
      <4> QED
        BY <4>1, <4>2, <4>3
    <3> QED
      BY <3>1
  <2>6. below(w) = below(m) \ {w}
    <3>1. \A x \in S : key[x] < key[w] => key[x] < key[m] /\ x # w
      BY <2>4, <1>4
    <3> QED
      BY <2>5, <3>1
  <2>7. Cardinality(below(m) \ {w}) = Cardinality(below(m)) - 1
    BY <1>1, <1>4, FS_RemoveElement
  <2>8. Cardinality(below(w)) >= k
    <3> HIDE DEF below
    <3> QED
      BY <1>1, <1>4, <1>5, <2>6, <2>7
  <2>9. w \in high
    BY <2>4, <2>8
  <2>10. key[m] <= key[w] /\ key[m] \in Nat /\ key[w] \in Nat
    BY <1>3, <1>4, <2>4, <2>9
  <2> QED
    BY <2>4, <2>10
<1>6. Cardinality(below(m)) = k
  <2> HIDE DEF below, high
  <2> QED
    BY <1>1, <1>4, <1>5
<1> QED
  BY <1>4, <1>6 DEF Below

-----------------------------------------------------------------------------
(* The lists that are filled by position                                   *)

\* The muApp's list names the UEs it has a share for, each once.
LEMMA ByRntiType ==
  ASSUME NEW S \in SUBSET Rnti
  PROVE  /\ ByRnti(S) \in Seq(S)
         /\ Len(ByRnti(S)) \in Nat
         /\ ByRnti(S) = [i \in 1 .. Len(ByRnti(S)) |-> ByRnti(S)[i]]
<1> DEFINE n == Cardinality(S)
           rnti == [u \in S |-> u]
<1>1. IsFiniteSet(S) /\ n \in Nat /\ S \subseteq Nat
  BY RntiAssumption, FS_Subset, FS_CardinalityType
<1>2. rnti \in [S -> Nat] /\ \A x, y \in S : rnti[x] = rnti[y] => x = y
  BY <1>1
<1>3. ASSUME NEW i \in 1 .. n PROVE ByRnti(S)[i] \in S
  <2>1. i - 1 \in Nat /\ i - 1 < n
    BY <1>1
  <2>2. PICK u \in S : Cardinality(Below(S, rnti, u)) = i - 1
    <3> HIDE DEF rnti
    <3> QED
      BY <1>1, <1>2, <2>1, RankExists
  <2>3. Below(S, rnti, u) = {v \in S : v < u}
    BY DEF Below
  <2>4. \E w \in S : Cardinality({v \in S : v < w}) = i - 1
    BY <2>2, <2>3
  <2>5. ByRnti(S)[i] = CHOOSE w \in S : Cardinality({v \in S : v < w}) = i - 1
    BY DEF ByRnti
  <2> QED
    BY <2>4, <2>5
<1>4. ByRnti(S) = [i \in 1 .. n |-> ByRnti(S)[i]]
  BY SMTT(30) DEF ByRnti
<1> HIDE DEF n
<1>5. ByRnti(S) \in [1 .. n -> S]
  BY <1>3, <1>4
<1>6. ByRnti(S) \in Seq(S)
  BY <1>1, <1>5
<1>7. Len(ByRnti(S)) = n
  BY <1>1, <1>5
<1> QED
  BY <1>1, <1>4, <1>6, <1>7

LEMMA PolicyListType ==
  ASSUME NEW S \in SUBSET Rnti, NEW us \in Seq(S), NEW share \in [S -> Shares]
  PROVE  PolicyList(us, share) \in Seq(Nat)
<1> DEFINE n == Len(us)
<1>1. n \in Nat /\ \A k \in 1 .. n : us[k] \in S
  OBVIOUS
<1>2. S \subseteq Nat /\ WeightDen \in Nat /\ Shares \subseteq Nat
  BY RntiAssumption, SizesAssumption, WeightAssumption
<1>3. PolicyList(us, share) =
        [i \in 1 .. 2 * n |-> IF i % 2 = 1 THEN us[(i + 1) \div 2] * WeightDen
                              ELSE share[us[i \div 2]]]
  BY DEF PolicyList
<1> HIDE DEF n
<1>4. ASSUME NEW i \in 1 .. 2 * n
      PROVE  (IF i % 2 = 1 THEN us[(i + 1) \div 2] * WeightDen
              ELSE share[us[i \div 2]]) \in Nat
  <2>1. CASE i % 2 = 1
    <3>1. (i + 1) \div 2 \in 1 .. n
      BY <1>1, <2>1
    <3>2. us[(i + 1) \div 2] \in Nat
      BY <1>1, <1>2, <3>1
    <3> QED
      BY <1>2, <2>1, <3>2
  <2>2. CASE i % 2 # 1
    <3>1. i \div 2 \in 1 .. n
      BY <1>1, <2>2
    <3> QED
      BY <1>1, <1>2, <2>2, <3>1
  <2> QED
    BY <2>1, <2>2
<1>5. PolicyList(us, share) \in [1 .. 2 * n -> Nat]
  BY <1>3, <1>4
<1> QED
  BY <1>1, <1>5

LEMMA GreaterOfTwo ==
  ASSUME NEW a \in Nat, NEW b \in Nat
  PROVE  Max({a, b}) \in {a, b}
<1>1. \E x \in {a, b} : \A y \in {a, b} : x >= y
  OBVIOUS
<1> QED
  BY <1>1 DEF Max

LEMMA OverlayType ==
  ASSUME NEW p \in Seq(Nat), NEW old \in Seq(Nat)
  PROVE  Overlay(p, old) \in Seq(Nat)
<1> DEFINE m == Max({Len(p), Len(old)})
<1>1. m \in {Len(p), Len(old)}
  <2>1. Len(p) \in Nat /\ Len(old) \in Nat
    OBVIOUS
  <2> QED
    BY <2>1, GreaterOfTwo
<1>2. Overlay(p, old) = [i \in 1 .. m |-> IF i <= Len(p) THEN p[i] ELSE old[i]]
  BY DEF Overlay
<1> HIDE DEF m
<1>3. ASSUME NEW i \in 1 .. m
      PROVE  (IF i <= Len(p) THEN p[i] ELSE old[i]) \in Nat
  BY <1>1
<1> QED
  BY SMTT(30), <1>1, <1>2, <1>3

\* No two UEs of the database have the same slot: allocate_ue saw to it.
SlotsOK ==
  /\ ueDb \subseteq Rnti
  /\ \A u, v \in ueDb : Slot(u) = Slot(v) => u = v

\* new_tti fills ue_rntis with RNTIs.
LEMMA NewUeRntisType ==
  ASSUME SlotsOK, NEW listed \in SUBSET ueDb,
         ueRntis \in [0 .. NofEntries - 1 -> Rnti \cup UninitRntis]
  PROVE  NewUeRntis(listed) \in [0 .. NofEntries - 1 -> Rnti \cup UninitRntis]
<1> DEFINE slot == [u \in listed |-> Slot(u)]
<1>1. IsFiniteSet(listed) /\ Cardinality(listed) \in Nat /\ listed \subseteq Nat
  BY RntiAssumption, FS_Subset, FS_CardinalityType DEF SlotsOK
<1>2. slot \in [listed -> Nat] /\ \A x, y \in listed : slot[x] = slot[y] => x = y
  <2>1. \A x \in listed : Slot(x) \in Nat
    BY <1>1, SizesAssumption DEF Slot
  <2> QED
    BY <2>1 DEF SlotsOK
<1>3. ASSUME NEW i \in 0 .. NofEntries - 1, i < Cardinality(listed)
      PROVE  (CHOOSE u \in listed :
                Cardinality({v \in listed : Slot(v) < Slot(u)}) = i) \in Rnti
  <2>1. i \in Nat
    BY SizesAssumption
  <2>2. PICK u \in listed : Cardinality(Below(listed, slot, u)) = i
    <3> HIDE DEF slot
    <3> QED
      BY <1>1, <1>2, <1>3, <2>1, RankExists
  <2>3. Below(listed, slot, u) = {v \in listed : Slot(v) < Slot(u)}
    BY DEF Below
  <2>4. \E w \in listed : Cardinality({v \in listed : Slot(v) < Slot(w)}) = i
    BY <2>2, <2>3
  <2> QED
    BY <2>4 DEF SlotsOK
<1>4. ASSUME NEW i \in 0 .. NofEntries - 1
      PROVE  (IF i < Cardinality(listed)
              THEN CHOOSE u \in listed :
                     Cardinality({v \in listed : Slot(v) < Slot(u)}) = i
              ELSE ueRntis[i]) \in Rnti \cup UninitRntis
  BY <1>3
<1> QED
  BY <1>4 DEF NewUeRntis

-----------------------------------------------------------------------------
(* The caps                                                                *)

NumbersOK ==
  /\ MasksOK /\ SlotsOK
  /\ Cardinality(ueDb) <= MaxUeDb
  /\ weights \in Seq(Nat)
  /\ ueRntis \in [0 .. NofEntries - 1 -> Rnti \cup UninitRntis]
  /\ rbgAlloc \in [Rnti -> 0 .. CapMod - 1]

LEMMA UesCounted ==
  ASSUME MasksOK
  PROVE  /\ IsFiniteSet(ueDb) /\ numUes \in Nat
         /\ available \in Int
<1>1. IsFiniteSet(ueDb) /\ numUes \in Nat
  BY RntiAssumption, FS_Subset, FS_CardinalityType DEF MasksOK, numUes
<1>2. NofRbgs - 1 \in Nat /\ IsFiniteSet(Rbg)
  BY SizesAssumption, FS_Interval DEF Rbg
<1>3. IsFiniteSet(dlMask) /\ Cardinality(dlMask) \in Nat
  BY <1>2, FS_Subset, FS_CardinalityType DEF MasksOK
<1> QED
  BY <1>1, <1>3, SizesAssumption DEF available

\* Products, quotients and remainders of integers
LEMMA ShareType ==
  ASSUME NEW w \in Nat, NEW a \in Int, NEW d \in Nat \ {0}, NEW m \in Nat \ {0}
  PROVE  ((w * a) \div d) % m \in Nat
<1> DEFINE p == w * a
<1>1. p \in Int
  OBVIOUS
<1> HIDE DEF p
<1>2. p \div d \in Int
  BY <1>1
<1> DEFINE q == p \div d
<1> HIDE DEF q
<1>3. q % m \in Nat
  BY <1>2 DEF q
<1> QED
  BY <1>3 DEF p, q

\* A cap computed from a weight, a default or fresh memory is a number.
LEMMA RbgsOfType ==
  ASSUME NumbersOK, NEW fresh \in [NofWeights .. numUes - 1 -> UninitWeights],
         NEW j \in 0 .. numUes - 1
  PROVE  RbgsOf(j, fresh) \in Nat
<1>1. numUes \in Nat /\ available \in Int /\ j \in Nat
  BY UesCounted DEF NumbersOK
<1>2. WeightDen \in Nat \ {0} /\ CapMod \in Nat \ {0} /\ UninitWeights \subseteq Nat
  BY SizesAssumption, WeightAssumption
<1>3. NofWeights \in Nat
  <2>1. CASE weights = << >>
    <3> DEFINE named == {ueRntis[i] : i \in 0 .. numUes - 1}
    <3>1. IsFiniteSet(0 .. numUes - 1)
      BY <1>1, FS_Interval
    <3>2. IsFiniteSet(named)
      <4> DEFINE name == [i \in 0 .. numUes - 1 |-> ueRntis[i]]
      <4>1. name \in Surjection(0 .. numUes - 1, named)
        BY DEF Surjection
      <4> QED
        BY <3>1, <4>1, FS_Surjection
    <3>3. Cardinality(named) \in Nat
      BY <3>2, FS_CardinalityType
    <3> QED
      BY <2>1, <3>3 DEF NofWeights
  <2>2. CASE weights # << >>
    <3>1. Len(weights) \in Nat
      BY DEF NumbersOK
    <3> QED
      BY <2>2, <3>1 DEF NofWeights
  <2> QED
    BY <2>1, <2>2
<1>4. CASE j >= NofWeights
  <2>1. j \in NofWeights .. numUes - 1
    BY <1>1, <1>3, <1>4
  <2>2. fresh[j] \in Nat
    BY <1>2, <2>1
  <2>3. RbgsOf(j, fresh) = ((fresh[j] * available) \div WeightDen) % CapMod
    BY <1>4 DEF RbgsOf
  <2> QED
    BY <1>1, <1>2, <2>2, <2>3, ShareType
<1>5. CASE ~ (j >= NofWeights) /\ weights = << >>
  <2>1. RbgsOf(j, fresh) = (available \div numUes) % CapMod
    BY <1>5 DEF RbgsOf
  <2>2. numUes \in Nat \ {0}
    BY <1>1
  <2>3. available \div numUes \in Int
    BY <1>1, <2>2
  <2> DEFINE q == available \div numUes
  <2> HIDE DEF q
  <2>4. q % CapMod \in Nat
    BY <1>2, <2>3 DEF q
  <2> QED
    BY <2>1, <2>4 DEF q
<1>6. CASE ~ (j >= NofWeights) /\ weights # << >>
  <2>1. NofWeights = Len(weights)
    BY <1>6 DEF NofWeights
  <2>2. j + 1 \in 1 .. Len(weights)
    BY <1>1, <1>3, <1>6, <2>1
  <2>3. weights[j + 1] \in Nat
    BY <2>2 DEF NumbersOK
  <2>4. RbgsOf(j, fresh) = ((weights[j + 1] * available) \div WeightDen) % CapMod
    BY <1>6 DEF RbgsOf
  <2> QED
    BY <1>1, <1>2, <2>3, <2>4, ShareType
<1> QED
  BY <1>4, <1>5, <1>6

\* So rbg_alloc stays a table of caps, whatever the remainder added.
LEMMA NewRbgAllocType ==
  ASSUME NumbersOK, NEW rbgs \in [0 .. numUes - 1 -> Nat]
  PROVE  NewRbgAlloc(rbgs) \in [Rnti -> 0 .. CapMod - 1]
<1> DEFINE entries(u, n) == {j \in 0 .. NofEntries - 1 : j < n /\ ueRntis[j] = u}
           base(u) == IF entries(u, numUes) = {} THEN rbgAlloc[u]
                                                 ELSE rbgs[Max(entries(u, numUes))]
           extra(u) == Cardinality(entries(u, RemainRbgs(rbgs)))
<1>1. numUes \in Nat /\ CapMod \in Nat \ {0} /\ NofEntries \in Nat
  BY UesCounted, SizesAssumption DEF NumbersOK
<1>2. ASSUME NEW u \in Rnti PROVE base(u) \in Nat
  <2>1. CASE entries(u, numUes) = {}
    BY <1>1, <2>1 DEF NumbersOK
  <2>2. CASE entries(u, numUes) # {}
    <3>1. entries(u, numUes) \in SUBSET (0 .. numUes)
      BY <1>1
    <3>2. Max(entries(u, numUes)) \in entries(u, numUes)
      BY <1>1, <2>2, <3>1, GreatestExists
    <3>3. Max(entries(u, numUes)) \in 0 .. numUes - 1
      BY <1>1, <3>2
    <3> HIDE DEF entries
    <3> QED
      BY <2>2, <3>3
  <2> HIDE DEF entries
  <2> QED
    BY <2>1, <2>2
<1>3. ASSUME NEW u \in Rnti PROVE extra(u) \in Nat
  <2>1. IsFiniteSet(0 .. NofEntries - 1)
    BY <1>1, FS_Interval
  <2>2. IsFiniteSet(entries(u, RemainRbgs(rbgs)))
    BY <2>1, FS_Subset
  <2> QED
    BY <2>2, FS_CardinalityType
<1>4. NewRbgAlloc(rbgs) = [u \in Rnti |-> (base(u) + extra(u)) % CapMod]
  BY DEF NewRbgAlloc
<1> HIDE DEF base, extra
<1>5. \A u \in Rnti : (base(u) + extra(u)) % CapMod \in 0 .. CapMod - 1
  BY <1>1, <1>2, <1>3
<1> QED
  BY <1>4, <1>5

-----------------------------------------------------------------------------
(* Type correctness                                                        *)

\* The rest of TypeOK; a UE is removed between subframes, when none is enabled.
RestOK ==
  /\ tti \in {0, 1}
  /\ phase \in {"idle", "caps", "alloc"}
  /\ enabled \subseteq ueDb
  /\ phase = "idle" => enabled = {}
  /\ ctrl \subseteq Rbg
  /\ newTx \subseteq Rnti
  /\ code \in [Rnti -> Codes]
  /\ settled \in BOOLEAN

TypeInv == NumbersOK /\ RestOK

LEMMA TypeInit == Init => TypeInv
<1> SUFFICES ASSUME Init PROVE TypeInv
  OBVIOUS
<1>1. NumbersOK
  BY MasksInit, SizesAssumption, FS_EmptySet
     DEF Init, NumbersOK, SlotsOK
<1>2. RestOK
  BY DEF Init, FreshSubframe, RestOK, Codes
<1> QED
  BY <1>1, <1>2 DEF TypeInv

LEMMA NumbersUnchanged ==
  ASSUME NumbersOK, MasksOK', UNCHANGED <<ueDb, weights, ueRntis, rbgAlloc>>
  PROVE  NumbersOK'
BY DEF NumbersOK, SlotsOK, Slot

LEMMA NumbersStep == TypeInv /\ [Next]_vars => NumbersOK'
<1> SUFFICES ASSUME TypeInv, [Next]_vars PROVE NumbersOK'
  OBVIOUS
<1>0. NumbersOK /\ RestOK /\ MasksOK /\ SlotsOK
  BY DEF TypeInv, NumbersOK
<1>m. MasksOK'
  BY <1>0, MasksStep
<1>1. ASSUME NEW u \in Rnti, AddUe(u) PROVE NumbersOK'
  <2>1. SlotsOK'
    BY <1>0, <1>1 DEF AddUe, SlotsOK, Slot
  <2>2. Cardinality(ueDb') = Cardinality(ueDb) + 1
    BY <1>0, <1>1, UesCounted, FS_AddElement DEF AddUe
  <2>3. Cardinality(ueDb') <= MaxUeDb
    BY <1>0, <1>1, <2>2, UesCounted, SizesAssumption DEF AddUe, numUes
  <2> QED
    BY <1>0, <1>1, <1>m, <2>1, <2>3 DEF AddUe, NumbersOK
<1>2. ASSUME NEW u \in Rnti, RemUe(u) PROVE NumbersOK'
  <2>1. SlotsOK'
    BY <1>0, <1>2 DEF RemUe, SlotsOK, Slot
  <2>2. Cardinality(ueDb') = Cardinality(ueDb) - 1
    BY <1>0, <1>2, UesCounted, FS_RemoveElement DEF RemUe
  <2>3. Cardinality(ueDb') <= MaxUeDb
    BY <1>0, <2>2, UesCounted, SizesAssumption DEF NumbersOK, numUes
  <2> QED
    BY <1>0, <1>2, <1>m, <2>1, <2>3 DEF RemUe, NumbersOK
<1>3. CASE ReceivePolicy
  <2>0. PICK S \in (SUBSET ueDb) \ {{}} : \E share \in [S -> Shares] :
          weights' = Overlay(PolicyList(ByRnti(S), share), weights)
    BY <1>3 DEF ReceivePolicy
  <2>1. PICK share \in [S -> Shares] :
          weights' = Overlay(PolicyList(ByRnti(S), share), weights)
    BY <2>0
  <2>2. S \in SUBSET Rnti
    BY <1>0 DEF SlotsOK
  <2>3. PolicyList(ByRnti(S), share) \in Seq(Nat)
    BY <2>2, ByRntiType, PolicyListType
  <2>4. weights' \in Seq(Nat)
    BY <1>0, <2>1, <2>3, OverlayType DEF NumbersOK
  <2> QED
    BY <1>0, <1>3, <1>m, <2>4 DEF ReceivePolicy, NumbersOK, SlotsOK, Slot
<1>4. CASE ClearPolicy
  BY <1>0, <1>4, <1>m DEF ClearPolicy, NumbersOK, SlotsOK, Slot
<1>5. ASSUME ueRntis' = ueRntis \/ \E listed \in SUBSET ueDb : ueRntis' = NewUeRntis(listed)
      PROVE  ueRntis' \in [0 .. NofEntries - 1 -> Rnti \cup UninitRntis]
  BY <1>0, <1>5, NewUeRntisType DEF NumbersOK
<1>6. CASE StartSubframe
  <2>1. PICK en \in SUBSET ueDb, c \in CtrlSizes :
          /\ enabled' = en /\ retx' \in DueRetx(en)
    BY <1>6 DEF StartSubframe
  <2>2. Listed(enabled', retx') \in SUBSET ueDb
    BY <2>1 DEF Listed
  <2>3. ueRntis' \in [0 .. NofEntries - 1 -> Rnti \cup UninitRntis]
    BY <1>5, <1>6, <2>2 DEF StartSubframe
  <2> QED
    BY <1>0, <1>6, <1>m, <2>3 DEF StartSubframe, NumbersOK, SlotsOK, Slot
<1>7. CASE UplinkSubframe
  <2>1. PICK en \in SUBSET ueDb, due \in [Rnti -> Pid \cup {NoPid}] :
          ueRntis' = NewUeRntis(Listed(en, due))
    BY <1>7 DEF UplinkSubframe, DueRetx
  <2>2. Listed(en, due) \in SUBSET ueDb
    BY DEF Listed
  <2>3. ueRntis' \in [0 .. NofEntries - 1 -> Rnti \cup UninitRntis]
    BY <1>5, <2>1, <2>2
  <2> QED
    BY <1>0, <1>7, <1>m, <2>3 DEF UplinkSubframe, NumbersOK, SlotsOK, Slot
<1>8. CASE SchedDlUsers
  <2>1. PICK fresh \in [NofWeights .. numUes - 1 -> UninitWeights] :
          rbgAlloc' = NewRbgAlloc([j \in 0 .. numUes - 1 |-> RbgsOf(j, fresh)])
    BY <1>8 DEF SchedDlUsers
  <2>2. [j \in 0 .. numUes - 1 |-> RbgsOf(j, fresh)] \in [0 .. numUes - 1 -> Nat]
    BY <1>0, RbgsOfType
  <2>3. rbgAlloc' \in [Rnti -> 0 .. CapMod - 1]
    BY <1>0, <2>1, <2>2, NewRbgAllocType
  <2>4. Listed(enabled, retx) \in SUBSET ueDb
    BY <1>0 DEF Listed, RestOK
  <2>5. ueRntis' \in [0 .. NofEntries - 1 -> Rnti \cup UninitRntis]
    BY <1>5, <1>8, <2>4 DEF SchedDlUsers
  <2> QED
    BY <1>0, <1>8, <1>m, <2>3, <2>5 DEF SchedDlUsers, NumbersOK, SlotsOK, Slot
<1>9. ASSUME NEW u \in Rnti, Retransmit(u) \/ NewTransmission(u) \/ GiveUp(u)
      PROVE  NumbersOK'
  BY <1>0, <1>9, <1>m, LoopTurn, NumbersUnchanged DEF Pop
<1>10. CASE EndSubframe
  BY <1>0, <1>10, <1>m, NumbersUnchanged DEF EndSubframe
<1>11. ASSUME NEW u \in Rnti, NEW p \in Pid, EmptyHarq(u, p) PROVE NumbersOK'
  BY <1>0, <1>11, <1>m, NumbersUnchanged DEF EmptyHarq
<1>12. CASE UNCHANGED vars
  BY <1>0, <1>12, <1>m, NumbersUnchanged DEF vars, persistent
<1> QED
  BY <1>1, <1>2, <1>3, <1>4, <1>6, <1>7, <1>8, <1>9, <1>10, <1>11, <1>12
     DEF Next, Scheduler, Environment

LEMMA RestStep == TypeInv /\ [Next]_vars => RestOK'
<1> SUFFICES ASSUME TypeInv, [Next]_vars PROVE RestOK'
  OBVIOUS
<1>0. MasksOK /\ RestOK
  BY DEF TypeInv, NumbersOK
<1>1. ASSUME NEW u \in Rnti, Retransmit(u) \/ NewTransmission(u) \/ GiveUp(u)
      PROVE  RestOK'
  <2>1. Pop(u)
    BY <1>0, <1>1, LoopTurn
  <2>2. newTx' \subseteq Rnti
    BY <1>0, <1>1 DEF Retransmit, NewTransmission, GiveUp, RestOK
  <2>3. \E why \in Codes : code' = [code EXCEPT ![u] = why]
    <3>1. CASE Retransmit(u)
      BY <3>1 DEF Retransmit, Grant, Refuse, Codes
    <3>2. CASE NewTransmission(u)
      BY <3>2 DEF NewTransmission, Grant, Refuse, Codes, NewTxRefusal
    <3>3. CASE GiveUp(u)
      BY <3>3 DEF GiveUp, Refuse, Codes
    <3> QED
      BY <1>1, <3>1, <3>2, <3>3
  <2>4. code' \in [Rnti -> Codes]
    BY <1>0, <2>3 DEF RestOK
  <2> QED
    BY <1>0, <2>1, <2>2, <2>4 DEF Pop, RestOK
<1>2. CASE StartSubframe
  <2>1. PICK en \in SUBSET ueDb, c \in CtrlSizes :
          enabled' = en /\ ctrl' = 0 .. c - 1
    BY <1>2 DEF StartSubframe
  <2>2. ctrl' \subseteq Rbg
    BY <2>1, InputsAssumption, SizesAssumption DEF Rbg
  <2> QED
    BY <1>0, <1>2, <2>1, <2>2 DEF StartSubframe, RestOK
<1>3. CASE SchedDlUsers
  BY <1>0, <1>3 DEF SchedDlUsers, IsSettled, RestOK
<1>4. CASE UplinkSubframe
  BY <1>0, <1>4 DEF UplinkSubframe, subframe, RestOK
<1>5. CASE EndSubframe
  <2>1. code' \in [Rnti -> Codes]
    BY <1>5 DEF EndSubframe, Codes
  <2>2. tti' \in {0, 1}
    BY <1>0, <1>5 DEF EndSubframe, RestOK
  <2> QED
    BY <1>5, <2>1, <2>2 DEF EndSubframe, RestOK
<1>6. ASSUME NEW u \in Rnti, AddUe(u) PROVE RestOK'
  BY <1>0, <1>6 DEF AddUe, subframe, RestOK
<1>7. ASSUME NEW u \in Rnti, RemUe(u) PROVE RestOK'
  BY <1>0, <1>7 DEF RemUe, subframe, RestOK
<1>8. CASE ReceivePolicy \/ ClearPolicy
  BY <1>0, <1>8 DEF ReceivePolicy, ClearPolicy, subframe, RestOK
<1>9. ASSUME NEW u \in Rnti, NEW p \in Pid, EmptyHarq(u, p) PROVE RestOK'
  BY <1>0, <1>9 DEF EmptyHarq, subframe, RestOK
<1>10. CASE UNCHANGED vars
  BY <1>0, <1>10 DEF vars, persistent, subframe, RestOK
<1> QED
  BY <1>1, <1>2, <1>3, <1>4, <1>5, <1>6, <1>7, <1>8, <1>9, <1>10
     DEF Next, Scheduler, Environment

\* Weights, caps, lists and masks stay what they are, whatever UEs come and go,
\* whatever policies name, and whatever fresh memory holds.
THEOREM TypeCorrect == Spec => []TypeOK
<1>1. TypeInv /\ [Next]_vars => TypeInv'
  BY NumbersStep, RestStep DEF TypeInv
<1>2. TypeInv => TypeOK
  BY DEF TypeInv, NumbersOK, MasksOK, SlotsOK, RestOK, TypeOK
<1> QED
  BY TypeInit, <1>1, <1>2, PTL DEF Spec

\* A new transmission keeps to the cap of its UE, although find_optimal_rbgmask
\* may ask for more.
THEOREM NewTransmissionsWithinCap == Spec => []NewTxWithinCap
<1>1. Init => CapInv
  BY DEF Init, FreshSubframe, CapInv, NewTxWithinCap
<1>2. TypeInv => MasksOK /\ CapsAreNumbers
  BY SizesAssumption DEF TypeInv, NumbersOK, CapsAreNumbers
<1>3. TypeInv /\ CapInv /\ [Next]_vars => TypeInv' /\ CapInv'
  BY <1>2, NumbersStep, RestStep, CapStep DEF TypeInv
<1>4. CapInv => NewTxWithinCap
  BY DEF CapInv
<1> QED
  BY TypeInit, <1>1, <1>3, <1>4, PTL DEF Spec
-----------------------------------------------------------------------------
(* Sums: the fold of MapThenSumSet is the value of a recursive function.   *)
(* What it amounts to on every finite set is shown from a smallest set on  *)
(* which it would be something else.                                       *)

OneOf(s) == CHOOSE x \in s : TRUE

\* g sums f over the finite subsets of S, one element after the other.
IsSum(g, f, S) ==
  g = [s \in SUBSET S |-> IF s = {} THEN 0 ELSE f[OneOf(s)] + g[s \ {OneOf(s)}]]

SumOver(f, S) == (CHOOSE g : IsSum(g, f, S))[S]

\* The elements at which f is one more than q
Extra(f, q, s) == {x \in s : f[x] = q + 1}

LEMMA OneMoreTime ==
  ASSUME NEW q \in Nat, NEW n \in Nat
  PROVE  q * (n + 1) = q * n + q
OBVIOUS

LEMMA ExtraWithout ==
  ASSUME NEW f, NEW q \in Nat, NEW s, IsFiniteSet(s), NEW x \in s,
         f[x] \in {q, q + 1}
  PROVE  /\ IsFiniteSet(s \ {x}) /\ Cardinality(s \ {x}) \in Nat
         /\ Cardinality(Extra(f, q, s \ {x})) \in Nat
         /\ f[x] + (q * Cardinality(s \ {x}) + Cardinality(Extra(f, q, s \ {x})))
              = q * Cardinality(s) + Cardinality(Extra(f, q, s))
<1> DEFINE t == s \ {x}
           n == Cardinality(t)
           k == Cardinality(Extra(f, q, t))
<1>1. IsFiniteSet(t) /\ n \in Nat /\ Cardinality(s) = n + 1
  <2>1. IsFiniteSet(t) /\ n = Cardinality(s) - 1
    BY FS_RemoveElement
  <2>2. n \in Nat /\ Cardinality(s) \in Nat
    BY <2>1, FS_CardinalityType
  <2> HIDE DEF t, n
  <2> QED
    BY <2>1, <2>2
<1>2. IsFiniteSet(Extra(f, q, t)) /\ k \in Nat
  BY <1>1, FS_Subset, FS_CardinalityType DEF Extra
<1>3. CASE f[x] = q
  <2>1. Extra(f, q, s) = Extra(f, q, t)
    BY <1>3 DEF Extra
  <2> HIDE DEF t, n, k
  <2>2. q + (q * n + k) = q * (n + 1) + k
    BY <1>1, <1>2, OneMoreTime
  <2> QED
    BY <1>1, <1>2, <1>3, <2>1, <2>2 DEF t, n, k
<1>4. CASE f[x] = q + 1
  <2>1. Extra(f, q, s) = Extra(f, q, t) \cup {x} /\ x \notin Extra(f, q, t)
    BY <1>4 DEF Extra
  <2>2. Cardinality(Extra(f, q, s)) = k + 1
    BY <1>2, <2>1, FS_AddElement
  <2> HIDE DEF t, n, k
  <2>3. q + 1 + (q * n + k) = q * (n + 1) + (k + 1)
    BY <1>1, <1>2, OneMoreTime
  <2> QED
    BY <1>1, <1>2, <1>4, <2>2, <2>3 DEF t, n, k
<1> QED
  BY <1>3, <1>4

\* The closed form of the sum satisfies the equation, so the function exists.
LEMMA SumExists ==
  ASSUME NEW S, IsFiniteSet(S), NEW f, NEW q \in Nat,
         \A x \in S : f[x] \in {q, q + 1}
  PROVE  IsSum([s \in SUBSET S |-> q * Cardinality(s) + Cardinality(Extra(f, q, s))], f, S)
<1> DEFINE G == [s \in SUBSET S |-> q * Cardinality(s) + Cardinality(Extra(f, q, s))]
           H == [s \in SUBSET S |-> IF s = {} THEN 0
                                    ELSE f[OneOf(s)] + G[s \ {OneOf(s)}]]
<1>1. ASSUME NEW s \in SUBSET S PROVE G[s] = H[s]
  <2>1. CASE s = {}
    <3>1. Cardinality(s) = 0 /\ Cardinality(Extra(f, q, s)) = 0
      BY <2>1, FS_EmptySet DEF Extra
    <3>2. G[s] = q * 0 + 0
      BY <3>1
    <3> QED
      BY <2>1, <3>2
  <2>2. CASE s # {}
    <3> DEFINE x == OneOf(s)
               t == s \ {x}
    <3>1. x \in s /\ t \in SUBSET S /\ IsFiniteSet(s)
      BY <2>2, FS_Subset DEF OneOf
    <3>2. f[x] \in {q, q + 1}
      BY <3>1
    <3>3. f[x] + (q * Cardinality(t) + Cardinality(Extra(f, q, t)))
            = q * Cardinality(s) + Cardinality(Extra(f, q, s))
      BY <3>1, <3>2, ExtraWithout
    <3>4. G[t] = q * Cardinality(t) + Cardinality(Extra(f, q, t))
      BY <3>1
    <3>5. H[s] = f[x] + G[t]
      BY <2>2
    <3> QED
      BY <3>3, <3>4, <3>5
  <2> QED
    BY <2>1, <2>2
<1>2. G = H
  BY <1>1
<1> QED
  BY <1>2 DEF IsSum

\* A sum of numbers that are q or q + 1
LEMMA SumOfNearlyEqual ==
  ASSUME NEW S, IsFiniteSet(S), NEW f, NEW q \in Nat,
         \A x \in S : f[x] \in {q, q + 1}
  PROVE  SumOver(f, S) = q * Cardinality(S) + Cardinality(Extra(f, q, S))
<1> DEFINE G == [s \in SUBSET S |-> q * Cardinality(s) + Cardinality(Extra(f, q, s))]
           g == CHOOSE h : IsSum(h, f, S)
           differ == {s \in SUBSET S : g[s] # G[s]}
           sizes == {Cardinality(s) : s \in differ}
<1>1. IsSum(g, f, S)
  BY SumExists
<1>2. ASSUME differ # {} PROVE FALSE
  <2>1. \A s \in SUBSET S : IsFiniteSet(s) /\ Cardinality(s) \in Nat
    BY FS_Subset, FS_CardinalityType
  <2>2. sizes \in SUBSET Nat /\ sizes # {}
    BY <1>2, <2>1
  <2>3. Min(sizes) \in sizes /\ \A n \in sizes : Min(sizes) <= n
    BY <2>2, LeastExists
  <2>4. PICK s \in differ : Min(sizes) = Cardinality(s)
    BY <2>3
  <2>5. \A t \in differ : Cardinality(s) <= Cardinality(t)
    BY <2>3, <2>4
  <2>6. s \in SUBSET S /\ g[s] # G[s]
    BY <2>4
  <2>7. g[s] = IF s = {} THEN 0 ELSE f[OneOf(s)] + g[s \ {OneOf(s)}]
    <3> HIDE DEF g
    <3> QED
      BY <1>1, <2>6 DEF IsSum
  <2>8. G[s] = IF s = {} THEN 0 ELSE f[OneOf(s)] + G[s \ {OneOf(s)}]
    <3>1. IsSum(G, f, S)
      BY SumExists
    <3> HIDE DEF G
    <3> QED
      BY <3>1, <2>6 DEF IsSum
  <2>9. s # {}
    BY <2>6, <2>7, <2>8
  <2>10. OneOf(s) \in s
    BY <2>9 DEF OneOf
  <2>11. s \ {OneOf(s)} \in SUBSET S
    BY <2>6
  <2>12. Cardinality(s \ {OneOf(s)}) = Cardinality(s) - 1
    BY <2>1, <2>6, <2>10, FS_RemoveElement
  <2>13. s \ {OneOf(s)} \notin differ
    <3>1. Cardinality(s) \in Nat
      BY <2>1, <2>6
    <3> HIDE DEF differ
    <3> QED
      BY <2>5, <2>12, <3>1
  <2>14. g[s \ {OneOf(s)}] = G[s \ {OneOf(s)}]
    BY <2>11, <2>13
  <2> HIDE DEF g, G
  <2> QED
    BY <2>6, <2>7, <2>8, <2>14
<1>3. g[S] = G[S]
  BY <1>2
<1> QED
  BY <1>3 DEF SumOver

LEMMA TotalIsSum ==
  \A rbgs : TotalRbgs(rbgs) = SumOver(rbgs, 0 .. numUes - 1) % ByteMod
BY DEF TotalRbgs, MapThenSumSet, MapThenFoldSet, SumOver, IsSum, OneOf

-----------------------------------------------------------------------------
(* The default weights                                                     *)

\* What a UE gets when the RBGs that are left by SIB, paging and RAR are shared
\* out evenly, what is then left over, and what the UEs of a set get together.
Shared == NofRbgs - Cardinality(ctrl)
Share == Shared \div numUes
Rest == Shared - Share * numUes
SharesOf(S) == Share * Cardinality(S) + Cardinality(Extra(rbgAlloc, Share, S))

LEMMA ShareAndRest ==
  ASSUME NEW a \in Nat, NEW n \in Nat \ {0}
  PROVE  LET q == a \div n
             r == a - q * n
         IN  /\ q \in Nat /\ r \in 0 .. n - 1 /\ q * n \in Nat
             /\ q * n <= a /\ q <= a
             /\ r > 0 => q + 1 <= a
<1> DEFINE q == a \div n
           m == a % n
<1>1. q \in Int /\ m \in 0 .. n - 1 /\ a = n * q + m
  OBVIOUS
<1> HIDE DEF q, m
<1>2. q >= 0
  <2>1. CASE q <= -1
    <3>1. n * q <= n * (-1)
      BY <1>1, <2>1
    <3> QED
      BY <1>1, <3>1
  <2> QED
    BY <1>1, <2>1
<1>3. n * q >= q
  BY <1>1, <1>2
<1>4. q * n = n * q
  BY <1>1
<1> DEFINE p == n * q
<1>5. p \in Int
  BY <1>1
<1> HIDE DEF p
<1>6. q \in Nat /\ q * n = p /\ p >= q /\ a = p + m
  BY <1>1, <1>2, <1>3, <1>4 DEF p
<1>7. q \in Nat /\ p \in Nat /\ p <= a /\ q <= a /\ a - p \in 0 .. n - 1
      /\ (a - p > 0 => q + 1 <= a)
  BY <1>1, <1>5, <1>6
<1> QED
  BY <1>6, <1>7 DEF q

LEMMA RemainderOfSmall ==
  ASSUME NEW m \in Nat \ {0}, NEW x \in 0 .. m - 1
  PROVE  x % m = x
OBVIOUS

\* What is shared out is a number of RBGs.
LEMMA SharedType ==
  ASSUME NEW c \in SUBSET Rbg
  PROVE  /\ IsFiniteSet(c) /\ Cardinality(c) \in Nat
         /\ NofRbgs - Cardinality(c) \in 0 .. NofRbgs
<1>1. IsFiniteSet(Rbg) /\ Cardinality(Rbg) = NofRbgs /\ NofRbgs \in Nat
  BY SizesAssumption, FS_Interval DEF Rbg
<1>2. IsFiniteSet(c) /\ Cardinality(c) <= Cardinality(Rbg) /\ Cardinality(c) \in Nat
  BY <1>1, FS_Subset, FS_CardinalityType
<1> QED
  BY <1>1, <1>2

\* When the list held the UEs of the database, it names each of them once.
LEMMA SettledOnce ==
  ASSUME NumbersOK, IsSettled
  PROVE  /\ \A i, j \in 0 .. numUes - 1 : ueRntis[i] = ueRntis[j] => i = j
         /\ weights = << >> => NofWeights = numUes
<1> DEFINE T == 0 .. numUes - 1
           name == [j \in T |-> ueRntis[j]]
<1>1. IsFiniteSet(T) /\ Cardinality(T) = numUes
  <2>1. numUes \in Nat
    BY UesCounted DEF NumbersOK
  <2> QED
    BY <2>1, FS_Interval
<1>2. name \in Surjection(T, ueDb)
  BY DEF IsSettled, Surjection
<1>3. Cardinality(T) = Cardinality(ueDb)
  BY <1>1 DEF numUes
<1>4. name \in Injection(T, ueDb)
  <2> HIDE DEF T, name
  <2> QED
    BY <1>1, <1>2, <1>3, FS_SurjSameCardinalityImpliesInj
<1>5. \A i, j \in T : name[i] = name[j] => i = j
  <2> HIDE DEF T, name
  <2> QED
    BY <1>4 DEF Injection, IsInjective
<1>6. weights = << >> => NofWeights = numUes
  BY DEF NofWeights, IsSettled, numUes
<1> QED
  BY <1>5, <1>6

\* So each gets its share, and the first Rest of the list one more.
LEMMA DefaultCaps ==
  ASSUME NumbersOK, IsSettled, weights = << >>, ueDb # {}, dlMask = ctrl,
         NEW fresh \in [NofWeights .. numUes - 1 -> UninitWeights],
         NEW u \in ueDb
  PROVE  LET caps == NewRbgAlloc([j \in 0 .. numUes - 1 |-> RbgsOf(j, fresh)])
         IN  \E j \in 0 .. numUes - 1 :
               /\ ueRntis[j] = u
               /\ caps[u] = IF j < Rest THEN Share + 1 ELSE Share
<1> DEFINE rbgs == [j \in 0 .. numUes - 1 |-> RbgsOf(j, fresh)]
           caps == NewRbgAlloc(rbgs)
           n == numUes
           q == Share
           r == Rest
           a == Shared
<1>1. n \in Nat \ {0} /\ IsFiniteSet(ueDb) /\ MasksOK /\ n <= NofEntries
  BY UesCounted, FS_EmptySet, EntriesAssumption, SizesAssumption DEF NumbersOK, numUes
<1>2. a \in 0 .. NofRbgs /\ available = a
  BY <1>1, SharedType DEF MasksOK, Shared, available
<1>3. /\ q \in Nat /\ r \in 0 .. n - 1 /\ q * n \in Nat /\ q * n <= a /\ q <= a
      /\ r > 0 => q + 1 <= a
      /\ r = a - q * n
  <2> HIDE DEF a, n
  <2>1. a \in Nat
    BY <1>2, SizesAssumption
  <2> QED
    BY <1>1, <2>1, ShareAndRest DEF Share, Rest, a, n
<1>4. /\ ByteMod \in Nat \ {0} /\ CapMod \in Nat \ {0} /\ NofRbgs \in Nat
      /\ NofRbgs < ByteMod /\ NofRbgs < CapMod /\ NofEntries \in Nat
  BY SizesAssumption, WidthAssumption
<1> HIDE DEF a
<1>5. ASSUME NEW j \in 0 .. n - 1 PROVE rbgs[j] = q
  <2>1. ~ (j >= NofWeights)
    BY <1>1, SettledOnce
  <2>2. rbgs[j] = q % CapMod
    BY <1>2, <2>1 DEF RbgsOf, Share, a
  <2>3. q \in 0 .. CapMod - 1
    <3> HIDE DEF q
    <3> QED
      BY <1>2, <1>3, <1>4
  <2> QED
    BY <1>4, <2>2, <2>3, RemainderOfSmall
<1> HIDE DEF rbgs
<1>6. TotalRbgs(rbgs) = q * n
  <2>1. IsFiniteSet(0 .. n - 1) /\ Cardinality(0 .. n - 1) = n
    BY <1>1, FS_Interval
  <2>2. \A j \in 0 .. n - 1 : rbgs[j] \in {q, q + 1}
    BY <1>5
  <2>3. SumOver(rbgs, 0 .. n - 1)
          = q * Cardinality(0 .. n - 1) + Cardinality(Extra(rbgs, q, 0 .. n - 1))
    BY <1>3, <2>1, <2>2, SumOfNearlyEqual
  <2>4. Extra(rbgs, q, 0 .. n - 1) = {}
    <3> HIDE DEF q, n
    <3> QED
      BY <1>3, <1>5 DEF Extra
  <2>5. SumOver(rbgs, 0 .. n - 1) = q * n
    <3>1. SumOver(rbgs, 0 .. n - 1) = q * n + 0
      BY <2>1, <2>3, <2>4, FS_EmptySet
    <3> DEFINE p == q * n
    <3> HIDE DEF p, q, n
    <3> QED
      BY <1>3, <3>1 DEF p
  <2>6. q * n \in 0 .. ByteMod - 1
    <3> DEFINE p == q * n
    <3>1. p \in Nat /\ p <= a
      BY <1>3
    <3> HIDE DEF p
    <3> QED
      BY <1>2, <1>4, <3>1 DEF p
  <2>7. TotalRbgs(rbgs) = (q * n) % ByteMod
    BY <2>5, TotalIsSum
  <2> HIDE DEF q, n
  <2> QED
    BY <1>4, <2>6, <2>7, RemainderOfSmall
<1>7. RemainRbgs(rbgs) = r
  <2>1. RemainRbgs(rbgs) = r % ByteMod
    BY <1>2, <1>3, <1>6 DEF RemainRbgs
  <2>2. r \in 0 .. ByteMod - 1
    <3>1. CASE r = 0
      BY <1>4, <3>1
    <3>2. CASE r > 0
      <4> DEFINE p == q * n
      <4>1. p \in Nat /\ r = a - p /\ r \in Nat
        BY <1>3
      <4> HIDE DEF p, r
      <4> QED
        BY <1>2, <1>4, <4>1, <3>2
    <3> HIDE DEF r
    <3> QED
      BY <1>1, <1>3, <3>1, <3>2
  <2> QED
    BY <1>4, <2>1, <2>2, RemainderOfSmall
<1>8. PICK j \in 0 .. n - 1 : ueRntis[j] = u
  BY DEF IsSettled
<1>9. \A i \in 0 .. n - 1 : ueRntis[i] = u => i = j
  BY <1>8, SettledOnce
<1> DEFINE entries(k) == {i \in 0 .. NofEntries - 1 : i < k /\ ueRntis[i] = u}
<1> HIDE DEF n, q, r
<1>10. entries(n) = {j}
  BY <1>1, <1>4, <1>8, <1>9
<1>11. entries(r) = IF j < r THEN {j} ELSE {}
  BY <1>1, <1>3, <1>4, <1>8, <1>9
<1>12. Max(entries(n)) = j
  <2>1. entries(n) \in SUBSET (0 .. n)
    BY <1>1, <1>4
  <2>2. Max(entries(n)) \in entries(n)
    BY <1>1, <1>10, <2>1, GreatestExists
  <2> QED
    BY <1>10, <2>2
<1>13. Cardinality(entries(r)) = IF j < r THEN 1 ELSE 0
  BY <1>11, FS_Singleton, FS_EmptySet
<1>14. caps[u] = (rbgs[j] + Cardinality(entries(r))) % CapMod
  <2>1. u \in Rnti
    BY DEF NumbersOK, SlotsOK
  <2>2. caps[u] = ((IF entries(n) = {} THEN rbgAlloc[u] ELSE rbgs[Max(entries(n))])
                     + Cardinality(entries(r))) % CapMod
    BY <1>7, <2>1 DEF NewRbgAlloc, n
  <2>3. entries(n) # {}
    BY <1>10
  <2> HIDE DEF caps, entries
  <2> QED
    BY <1>12, <2>2, <2>3
<1>15. caps[u] = IF j < r THEN q + 1 ELSE q
  <2> HIDE DEF caps
  <2>1. CASE j < r
    <3>1. q + 1 \in 0 .. CapMod - 1
      BY <1>1, <1>2, <1>3, <1>4, <2>1
    <3>2. caps[u] = (q + 1) % CapMod
      BY <1>5, <1>13, <1>14, <2>1
    <3> QED
      BY <1>4, <2>1, <3>1, <3>2, RemainderOfSmall
  <2>2. CASE ~ (j < r)
    <3>1. q \in 0 .. CapMod - 1
      BY <1>2, <1>3, <1>4
    <3>2. caps[u] = q % CapMod
      BY <1>3, <1>5, <1>13, <1>14, <2>2
    <3> QED
      BY <1>4, <2>2, <3>1, <3>2, RemainderOfSmall
  <2> QED
    BY <2>1, <2>2
<1> QED
  BY <1>8, <1>15 DEF n, q, r, rbgs

LEMMA DefaultCapsFair ==
  ASSUME NumbersOK, IsSettled, weights = << >>, ueDb # {}, dlMask = ctrl,
         NEW fresh \in [NofWeights .. numUes - 1 -> UninitWeights],
         NEW caps, caps = NewRbgAlloc([j \in 0 .. numUes - 1 |-> RbgsOf(j, fresh)])
  PROVE  /\ \A u \in ueDb : caps[u] \in {Share, Share + 1}
         /\ Cardinality(Extra(caps, Share, ueDb)) = Rest
<1> DEFINE first == 0 .. Rest - 1
           more == Extra(caps, Share, ueDb)
           name == [j \in first |-> ueRntis[j]]
<1>1. \A u \in ueDb : \E j \in 0 .. numUes - 1 :
        ueRntis[j] = u /\ caps[u] = IF j < Rest THEN Share + 1 ELSE Share
  BY DefaultCaps
<1>2. Share \in Nat /\ Rest \in 0 .. numUes - 1 /\ numUes \in Nat
  <2>1. numUes \in Nat \ {0} /\ Shared \in Nat
    BY UesCounted, FS_EmptySet, SharedType, SizesAssumption
       DEF NumbersOK, MasksOK, numUes, Shared
  <2> QED
    BY <2>1, ShareAndRest DEF Share, Rest
<1>3. \A j \in first : j \in 0 .. numUes - 1 /\ ueRntis[j] \in ueDb
  BY <1>2 DEF IsSettled
<1>4. \A j \in first : ueRntis[j] \in more
  <2> SUFFICES ASSUME NEW j \in first PROVE caps[ueRntis[j]] = Share + 1
    BY <1>3 DEF Extra
  <2>1. PICK i \in 0 .. numUes - 1 :
          /\ ueRntis[i] = ueRntis[j]
          /\ caps[ueRntis[j]] = IF i < Rest THEN Share + 1 ELSE Share
    BY <1>1, <1>3
  <2>2. i = j
    BY <1>3, <2>1, SettledOnce
  <2> QED
    BY <1>2, <2>1, <2>2
<1>5. \A u \in more : \E j \in first : ueRntis[j] = u
  <2> SUFFICES ASSUME NEW u \in more PROVE \E j \in first : ueRntis[j] = u
    OBVIOUS
  <2>1. u \in ueDb /\ caps[u] = Share + 1
    BY DEF Extra
  <2>2. PICK j \in 0 .. numUes - 1 :
          ueRntis[j] = u /\ caps[u] = IF j < Rest THEN Share + 1 ELSE Share
    BY <1>1, <2>1
  <2> QED
    BY <1>2, <2>1, <2>2
<1>6. name \in Surjection(first, more)
  <2>1. name \in [first -> more]
    BY <1>4
  <2>2. \A u \in more : \E j \in first : name[j] = u
    BY <1>5
  <2> QED
    BY <2>1, <2>2 DEF Surjection
<1>7. name \in Injection(first, more)
  <2>1. name \in [first -> more]
    BY <1>4
  <2>2. \A i, j \in first : name[i] = name[j] => i = j
    BY <1>3, SettledOnce
  <2> QED
    BY <2>1, <2>2 DEF Injection, IsInjective
<1>8. IsFiniteSet(first) /\ Cardinality(first) = Rest
  <2>1. Rest \in Nat /\ 0 \in Int /\ Rest - 1 \in Int
    BY <1>2
  <2> QED
    BY <2>1, FS_Interval
<1>9. Cardinality(more) = Rest
  <2> HIDE DEF name, first, more
  <2>1. IsFiniteSet(first)
    BY <1>8
  <2>2. Cardinality(more) = Cardinality(first) <=> name \in Injection(first, more)
    BY <1>6, <2>1, FS_Surjection
  <2> QED
    BY <1>7, <1>8, <2>2
<1> QED
  BY <1>1, <1>9

\* The caps of the subframe were made by the default weights.
Even == phase = "alloc" /\ settled /\ weights = << >> /\ ueDb # {}

\* Caps that the default weights made stay what DefaultCapsFair says to the end
\* of the subframe, of which no part was given away before.
FairInv ==
  /\ phase = "caps" => dlMask = ctrl
  /\ Even => /\ \A u \in ueDb : rbgAlloc[u] \in {Share, Share + 1}
             /\ Cardinality(Extra(rbgAlloc, Share, ueDb)) = Rest

LEMMA FairUnchanged ==
  ASSUME FairInv, UNCHANGED <<phase, settled, weights, ueDb, ctrl, rbgAlloc>>,
         phase # "caps"
  PROVE  FairInv'
BY DEF FairInv, Even, Share, Rest, Shared, numUes, Extra

LEMMA FairStep == TypeInv /\ FairInv /\ [Next]_vars => FairInv'
<1> SUFFICES ASSUME TypeInv, FairInv, [Next]_vars PROVE FairInv'
  OBVIOUS
<1>0. NumbersOK /\ MasksOK
  BY DEF TypeInv, NumbersOK
<1>1. CASE SchedDlUsers
  <2>1. /\ phase = "caps" /\ phase' = "alloc" /\ settled' = IsSettled
        /\ UNCHANGED <<ueDb, weights, ctrl>>
    BY <1>1 DEF SchedDlUsers
  <2>2. PICK fresh \in [NofWeights .. numUes - 1 -> UninitWeights] :
          rbgAlloc' = NewRbgAlloc([j \in 0 .. numUes - 1 |-> RbgsOf(j, fresh)])
    BY <1>1 DEF SchedDlUsers
  <2>3. ASSUME Even'
        PROVE  /\ \A u \in ueDb : rbgAlloc'[u] \in {Share, Share + 1}
               /\ Cardinality(Extra(rbgAlloc', Share, ueDb)) = Rest
    <3>1. IsSettled /\ weights = << >> /\ ueDb # {} /\ dlMask = ctrl
      BY <2>1, <2>3 DEF Even, FairInv
    <3> QED
      BY <1>0, <2>2, <3>1, DefaultCapsFair
  <2>4. Share' = Share /\ Rest' = Rest
    BY <2>1 DEF Share, Rest, Shared, numUes
  <2>5. Extra(rbgAlloc, Share, ueDb)' = Extra(rbgAlloc', Share, ueDb)
    BY <2>1, <2>4 DEF Extra
  <2> QED
    BY <2>1, <2>3, <2>4, <2>5 DEF FairInv
<1>2. ASSUME NEW u \in Rnti, Retransmit(u) \/ NewTransmission(u) \/ GiveUp(u)
      PROVE  FairInv'
  BY <1>0, <1>2, LoopTurn, FairUnchanged DEF Pop
<1>3. CASE StartSubframe \/ EndSubframe
  BY <1>3 DEF StartSubframe, EndSubframe, FairInv, Even
<1>4. CASE UplinkSubframe \/ ReceivePolicy \/ ClearPolicy
  BY <1>4 DEF UplinkSubframe, ReceivePolicy, ClearPolicy, FairInv, Even
<1>5. ASSUME NEW u \in Rnti, AddUe(u) \/ RemUe(u) PROVE FairInv'
  BY <1>5 DEF AddUe, RemUe, FairInv, Even
<1>6. ASSUME NEW u \in Rnti, NEW p \in Pid, EmptyHarq(u, p) PROVE FairInv'
  BY <1>6 DEF EmptyHarq, FairInv, Even
<1>7. CASE UNCHANGED vars
  BY <1>7 DEF vars, persistent, subframe, FairInv, Even, Share, Rest, Shared,
              numUes, Extra
<1> QED
  BY <1>1, <1>2, <1>3, <1>4, <1>5, <1>6, <1>7 DEF Next, Scheduler, Environment

LEMMA FairInit == Init => FairInv
BY DEF Init, FairInv, Even

\* Caps that differ by one, of which Rest are the greater, use up the RBGs.
LEMMA FairSum ==
  ASSUME TypeInv, FairInv, Even
  PROVE  /\ Share \in Nat /\ SharesOf(ueDb) = Shared
         /\ SumOver(rbgAlloc, ueDb) = Shared
<1>1. /\ numUes \in Nat \ {0} /\ Shared \in Nat /\ IsFiniteSet(ueDb)
  BY UesCounted, FS_EmptySet, SharedType, SizesAssumption
     DEF TypeInv, NumbersOK, MasksOK, RestOK, Even, numUes, Shared
<1>2. Share \in Nat /\ Rest \in Nat /\ Share * numUes \in Nat
  BY <1>1, ShareAndRest DEF Share, Rest
<1>3. SumOver(rbgAlloc, ueDb) = SharesOf(ueDb)
  BY <1>1, <1>2, SumOfNearlyEqual DEF FairInv, SharesOf
<1>4. SharesOf(ueDb) = Share * numUes + Rest
  BY DEF FairInv, SharesOf, numUes
<1>5. Share * numUes + Rest = Shared
  <2> DEFINE p == Share * numUes
  <2>1. p \in Nat /\ Rest = Shared - p
    BY <1>2 DEF Rest
  <2> HIDE DEF p
  <2> QED
    BY <1>1, <2>1 DEF p
<1> QED
  BY <1>2, <1>3, <1>4, <1>5

\* Without a policy the caps of the UEs add up to what SIB, paging and RAR leave
\* and differ by one at most, for every number of RBGs, UEs and entries of
\* ue_rntis, whatever earlier policies and UEs have left behind.
THEOREM DefaultsAreFair == Spec => []FairDefaults
<1>1. TypeInv /\ FairInv /\ [Next]_vars => TypeInv' /\ FairInv'
  BY NumbersStep, RestStep, FairStep DEF TypeInv
<1>2. TypeInv /\ FairInv => FairDefaults
  <2> SUFFICES ASSUME TypeInv, FairInv, Even
               PROVE  /\ MapThenSumSet(LAMBDA u : rbgAlloc[u], ueDb)
                           = NofRbgs - Cardinality(ctrl)
                      /\ \A u, v \in ueDb : rbgAlloc[u] <= rbgAlloc[v] + 1
    BY DEF FairDefaults, Even
  <2>1. MapThenSumSet(LAMBDA u : rbgAlloc[u], ueDb) = NofRbgs - Cardinality(ctrl)
    BY FairSum DEF MapThenSumSet, MapThenFoldSet, SumOver, IsSum, OneOf, Shared
  <2>2. \A u, v \in ueDb : rbgAlloc[u] <= rbgAlloc[v] + 1
    <3>1. Share \in Nat /\ \A u \in ueDb : rbgAlloc[u] \in {Share, Share + 1}
      BY FairSum DEF FairInv
    <3> QED
      BY <3>1
  <2> QED
    BY <2>1, <2>2
<1> QED
  BY TypeInit, FairInit, <1>1, <1>2, PTL DEF Spec

-----------------------------------------------------------------------------
(* What the caps leave to the UEs that come after                          *)

\* Lowest takes as many RBGs as it is asked for when there are as many.
LEMMA LowestExact ==
  ASSUME NEW mask \in SUBSET Rbg, NEW cap \in Nat, cap <= Cardinality(mask)
  PROVE  Cardinality(Lowest(mask, cap)) = cap
<1> DEFINE low == Lowest(mask, cap)
           key == [r \in mask |-> r]
           below(r) == {q \in mask : q < r}
<1>1. IsFiniteSet(mask) /\ IsFiniteSet(low) /\ mask \subseteq Nat
  <2>1. IsFiniteSet(Rbg) /\ Rbg \subseteq Nat
    BY SizesAssumption, FS_Interval DEF Rbg
  <2> QED
    BY <2>1, FS_Subset DEF Lowest
<1>2. Cardinality(low) <= cap /\ Cardinality(low) \in Nat
  BY <1>1, LowestBounded, FS_CardinalityType
<1>3. CASE cap = 0
  BY <1>2, <1>3
<1>4. CASE cap > 0
  <2>1. cap - 1 \in Nat /\ cap - 1 < Cardinality(mask)
    BY <1>1, <1>4, FS_CardinalityType
  <2>2. key \in [mask -> Nat] /\ \A x, y \in mask : key[x] = key[y] => x = y
    BY <1>1
  <2>3. PICK u \in mask : Cardinality(Below(mask, key, u)) = cap - 1
    <3> HIDE DEF key
    <3> QED
      BY <1>1, <2>1, <2>2, RankExists
  <2>4. Cardinality(below(u)) = cap - 1 /\ IsFiniteSet(below(u))
    <3>1. Below(mask, key, u) = below(u)
      BY DEF Below
    <3> QED
      BY <1>1, <2>3, <3>1, FS_Subset
  <2>5. ASSUME NEW r \in below(u) \cup {u} PROVE r \in low
    <3>1. r \in mask /\ r <= u
      BY <1>1
    <3>2. below(r) \in SUBSET below(u)
      <4>1. \A q \in mask : q < r => q < u
        BY <1>1, <3>1
      <4> QED
        BY <4>1
    <3>3. Cardinality(below(r)) <= cap - 1 /\ Cardinality(below(r)) \in Nat
      BY <2>4, <3>2, FS_Subset, FS_CardinalityType
    <3> HIDE DEF below
    <3>4. Cardinality(below(r)) < cap
      BY <3>3
    <3> QED
      BY <3>1, <3>4 DEF Lowest, below
  <2>6. u \notin below(u)
    BY <1>1
  <2>7. Cardinality(below(u) \cup {u}) = cap
    <3> HIDE DEF below
    <3>1. Cardinality(below(u) \cup {u}) = Cardinality(below(u)) + 1
      BY <2>4, <2>6, FS_AddElement
    <3> QED
      BY <2>4, <3>1
  <2>8. below(u) \cup {u} \in SUBSET low
    BY <2>5
  <2>9. cap <= Cardinality(low)
    <3> HIDE DEF below, low
    <3> QED
      BY <1>1, <2>7, <2>8, FS_Subset
  <2> QED
    BY <1>2, <2>9
<1> QED
  BY <1>3, <1>4

\* m times n RBGs give each of n UEs at least m.
LEMMA ShareAtLeast ==
  ASSUME NEW a \in Nat, NEW n \in Nat \ {0}, NEW m \in Nat, m * n <= a
  PROVE  m <= a \div n
<1> DEFINE q == a \div n
           r == a - q * n
<1>1. q \in Nat /\ r \in 0 .. n - 1
  BY ShareAndRest
<1>2. a = q * n + r
  BY <1>1
<1> HIDE DEF q
<1>3. CASE m >= q + 1
  <2>1. m * n >= (q + 1) * n
    BY <1>1, <1>3
  <2>2. (q + 1) * n = q * n + n
    BY <1>1
  <2> QED
    BY <1>1, <1>2, <2>1, <2>2
<1> QED
  BY <1>1, <1>3 DEF q

\* Every UE could fill the carrier, there is room for all, and nothing is
\* retransmitted.
Filling ==
  /\ Even
  /\ MinRbgs * numUes + Cardinality(ctrl) <= NofRbgs
  /\ \A u \in enabled : retx[u] = NoPid /\ demand[u] > NofRbgs

\* The RBGs that are free suffice for the shares of the UEs that still wait.
ShareInv ==
  /\ queue \subseteq enabled
  /\ phase # "alloc" => newTx = {} /\ code = [u \in Rnti |-> "none"]
  /\ Filling => SharesOf(queue) <= Cardinality(free)
  /\ FairShareDelivered

LEMMA FreeType ==
  ASSUME NEW mask \in SUBSET Rbg
  PROVE  /\ IsFiniteSet(Rbg \ mask) /\ Cardinality(Rbg \ mask) \in 0 .. NofRbgs
         /\ Cardinality(Rbg \ mask) = NofRbgs - Cardinality(mask)
<1>1. IsFiniteSet(Rbg) /\ Cardinality(Rbg) = NofRbgs
  BY SizesAssumption, FS_Interval DEF Rbg
<1>2. IsFiniteSet(Rbg \ mask) /\ Cardinality(Rbg \ mask) = Cardinality(Rbg) - Cardinality(Rbg \cap mask)
  BY <1>1, FS_Difference
<1>3. Rbg \cap mask = mask
  OBVIOUS
<1>4. Cardinality(Rbg \ mask) = NofRbgs - Cardinality(mask)
  BY <1>1, <1>2, <1>3
<1> QED
  BY <1>2, <1>4, SharedType

\* The share of a UE that waits is free, with those of all that come after it.
LEMMA SharesLeft ==
  ASSUME TypeInv, FairInv, ShareInv, Filling, NEW u \in queue
  PROVE  /\ rbgAlloc[u] \in Nat /\ rbgAlloc[u] >= MinRbgs
         /\ SharesOf(queue \ {u}) \in Nat
         /\ rbgAlloc[u] + SharesOf(queue \ {u}) <= Cardinality(free)
<1>1. IsFiniteSet(ueDb) /\ numUes \in Nat \ {0} /\ Shared \in Nat
  <2>1. MasksOK /\ ueDb # {} /\ ctrl \in SUBSET Rbg
    BY DEF TypeInv, NumbersOK, RestOK, Filling, Even
  <2>2. IsFiniteSet(ueDb) /\ numUes \in Nat \ {0}
    BY <2>1, UesCounted, FS_EmptySet DEF numUes
  <2>3. Shared \in Nat
    BY <2>1, SharedType, SizesAssumption DEF Shared
  <2> QED
    BY <2>2, <2>3
<1>2. u \in ueDb /\ IsFiniteSet(queue)
  BY <1>1, FS_Subset DEF TypeInv, RestOK, ShareInv
<1>3. Share \in Nat /\ rbgAlloc[u] \in {Share, Share + 1}
  BY <1>2, FairSum DEF FairInv, Filling
<1>4. MinRbgs <= Share
  <2>1. MinRbgs \in Nat /\ NofRbgs \in Nat /\ Cardinality(ctrl) \in Nat
    BY SizesAssumption, SharedType DEF TypeInv, RestOK
  <2> DEFINE p == MinRbgs * numUes
  <2>2. p \in Nat /\ p + Cardinality(ctrl) <= NofRbgs
    BY <1>1, <2>1 DEF Filling
  <2>3. p <= Shared
    <3> HIDE DEF p
    <3> QED
      BY <2>1, <2>2 DEF Shared
  <2> QED
    BY <1>1, <2>1, <2>3, ShareAtLeast DEF Share
<1> DEFINE n == Cardinality(queue \ {u})
           k == Cardinality(Extra(rbgAlloc, Share, queue \ {u}))
<1>5. /\ n \in Nat /\ k \in Nat
      /\ rbgAlloc[u] + (Share * n + k) = SharesOf(queue)
  BY <1>2, <1>3, ExtraWithout DEF SharesOf
<1>6. SharesOf(queue \ {u}) = Share * n + k
  BY DEF SharesOf
<1> HIDE DEF n, k
<1>7. Share * n + k \in Nat
  BY <1>3, <1>5
<1>8. SharesOf(queue) <= Cardinality(free)
  BY DEF ShareInv
<1> QED
  BY <1>3, <1>4, <1>5, <1>6, <1>7, <1>8, SizesAssumption

\* A UE that could fill the carrier is granted its cap.
LEMMA ShareGranted ==
  ASSUME TypeInv, FairInv, ShareInv, Filling, NEW u \in queue
  PROVE  /\ NewTxRefusal(u) = "none"
         /\ NewTxMask(u) \in SUBSET free
         /\ Cardinality(NewTxMask(u)) = rbgAlloc[u]
<1>1. u \in enabled /\ demand[u] > NofRbgs /\ u \in Rnti
  BY DEF ShareInv, Filling, TypeInv, NumbersOK, MasksOK
<1>2. demand[u] \in Nat /\ NofRbgs \in Nat \ {0} /\ MinRbgs \in Nat \ {0}
  BY <1>1, SizesAssumption DEF TypeInv, NumbersOK, MasksOK
<1>3. /\ IsFiniteSet(free) /\ Cardinality(free) \in 0 .. NofRbgs
      /\ free \in SUBSET Rbg
  BY FreeType DEF free, TypeInv, NumbersOK, MasksOK
<1>4. /\ rbgAlloc[u] \in Nat /\ rbgAlloc[u] >= MinRbgs
      /\ rbgAlloc[u] <= Cardinality(free)
  <2> DEFINE after == SharesOf(queue \ {u})
             c == Cardinality(free)
  <2>1. /\ rbgAlloc[u] \in Nat /\ rbgAlloc[u] >= MinRbgs
        /\ after \in Nat /\ rbgAlloc[u] + after <= c /\ c \in Nat
    BY <1>3, SharesLeft
  <2> HIDE DEF after, c
  <2> QED
    BY <2>1 DEF c
<1>5. OptMask(demand[u]) = free
  <2>1. Cardinality(free) - demand[u] < 0
    BY <1>1, <1>2, <1>3
  <2> QED
    BY <2>1 DEF OptMask
<1>6. NewTxMask(u) = Lowest(free, rbgAlloc[u])
  BY <1>2, <1>4, <1>5 DEF NewTxMask, Capped
<1>7. Cardinality(NewTxMask(u)) = rbgAlloc[u] /\ NewTxMask(u) \in SUBSET free
  BY <1>3, <1>4, <1>6, LowestExact DEF Lowest
<1>8. ~ Collides(NewTxMask(u))
  BY <1>7 DEF Collides, free
<1>9. free # {} /\ demand[u] # 0 /\ ~ (Cardinality(free) < MinRbgs)
  BY <1>1, <1>2, <1>3, <1>4, FS_EmptySet
<1>10. ~ (Cardinality(NewTxMask(u)) < MinRbgs)
  BY <1>2, <1>4, <1>7
<1> QED
  BY <1>7, <1>8, <1>9, <1>10 DEF NewTxRefusal

\* So a turn of the loop grants a UE its cap, or the PDCCH has no room.
LEMMA FillingTurn ==
  ASSUME TypeInv, FairInv, ShareInv, Filling, NEW u \in Rnti,
         Retransmit(u) \/ NewTransmission(u) \/ GiveUp(u)
  PROVE  /\ u \in queue
         /\ \/ \E p : Grant(u, p, NewTxMask(u)) /\ newTx' = newTx \cup {u}
            \/ Refuse(u, "no_cch_space") /\ newTx' = newTx
<1>1. u \in queue
  BY DEF Retransmit, NewTransmission, GiveUp, Pop, IsTop
<1>2. retx[u] = NoPid
  BY <1>1 DEF ShareInv, Filling
<1>3. NewTransmission(u)
  BY <1>2 DEF Retransmit, GiveUp
<1>4. NewTxRefusal(u) = "none"
  BY <1>1, ShareGranted
<1> QED
  BY <1>1, <1>3, <1>4 DEF NewTransmission

\* Without UEs in the database none is enabled, so Filling may ask for some.
LEMMA DeliveredUnlessFilling ==
  ASSUME enabled \subseteq ueDb,
         Filling => \A u \in enabled :
           /\ code[u] \notin {"no_sch_space", "sch_collision"}
           /\ u \in newTx => Cardinality(grant[u]) = rbgAlloc[u]
  PROVE  FairShareDelivered
BY DEF FairShareDelivered, Filling, Even

LEMMA ShareTurn ==
  ASSUME TypeInv, FairInv, ShareInv, NEW u \in Rnti,
         Retransmit(u) \/ NewTransmission(u) \/ GiveUp(u)
  PROVE  ShareInv'
<1>1. Pop(u)
  BY LoopTurn DEF TypeInv, NumbersOK
<1>2. /\ u \in queue /\ queue' = queue \ {u} /\ phase' = "alloc"
      /\ UNCHANGED <<phase, ueDb, weights, rbgAlloc, enabled, retx, demand, ctrl, settled>>
  BY <1>1 DEF Pop, IsTop
<1>3. Filling' <=> Filling
  BY <1>2 DEF Filling, Even, numUes
<1>4. SharesOf(queue)' = SharesOf(queue \ {u})
  BY <1>2 DEF SharesOf, Share, Shared, numUes, Extra
<1>5. \A v \in enabled : v \in Rnti
  BY DEF TypeInv, NumbersOK, MasksOK
<1>6. /\ grant \in [Rnti -> SUBSET Rbg] /\ code \in [Rnti -> Codes]
      /\ IsFiniteSet(free) /\ Cardinality(free) \in Nat
  <2>1. /\ grant \in [Rnti -> SUBSET Rbg] /\ code \in [Rnti -> Codes]
        /\ dlMask \in SUBSET Rbg
    BY DEF TypeInv, NumbersOK, MasksOK, RestOK
  <2>2. IsFiniteSet(free) /\ Cardinality(free) \in 0 .. NofRbgs
    BY <2>1, FreeType DEF free
  <2> QED
    BY <2>1, <2>2
<1>7. ASSUME Filling
      PROVE  /\ SharesOf(queue \ {u}) <= Cardinality(free')
             /\ \A v \in enabled :
                  /\ code'[v] \notin {"no_sch_space", "sch_collision"}
                  /\ v \in newTx' => Cardinality(grant'[v]) = rbgAlloc[v]
  <2> DEFINE mask == NewTxMask(u)
             after == SharesOf(queue \ {u})
  <2>1. /\ rbgAlloc[u] \in Nat /\ after \in Nat
        /\ rbgAlloc[u] + after <= Cardinality(free)
    BY <1>2, <1>7, SharesLeft
  <2>2. mask \in SUBSET free /\ Cardinality(mask) = rbgAlloc[u]
    BY <1>2, <1>7, ShareGranted
  <2>3. \A v \in enabled :
          /\ code[v] \notin {"no_sch_space", "sch_collision"}
          /\ v \in newTx => Cardinality(grant[v]) = rbgAlloc[v]
    BY <1>7 DEF ShareInv, FairShareDelivered, Filling, Even
  <2>t. \/ \E p : Grant(u, p, mask) /\ newTx' = newTx \cup {u}
        \/ Refuse(u, "no_cch_space") /\ newTx' = newTx
    BY <1>7, FillingTurn
  <2> HIDE DEF mask, after
  <2>4. CASE \E p : Grant(u, p, mask) /\ newTx' = newTx \cup {u}
    <3>1. /\ dlMask' = dlMask \cup mask
          /\ grant' = [grant EXCEPT ![u] = mask]
          /\ code' = [code EXCEPT ![u] = "success"]
          /\ newTx' = newTx \cup {u}
      BY <2>4 DEF Grant
    <3>2. free' = free \ mask
      BY <3>1 DEF free
    <3>3. Cardinality(free') = Cardinality(free) - rbgAlloc[u]
      <4>1. Cardinality(free \ mask) = Cardinality(free) - Cardinality(free \cap mask)
        BY <1>6, FS_Difference
      <4>2. free \cap mask = mask
        BY <2>2
      <4> QED
        BY <2>2, <3>2, <4>1, <4>2
    <3>4. after <= Cardinality(free')
      BY <1>6, <2>1, <3>3
    <3>5. ASSUME NEW v \in enabled
          PROVE  /\ code'[v] \notin {"no_sch_space", "sch_collision"}
                 /\ v \in newTx' => Cardinality(grant'[v]) = rbgAlloc[v]
      <4>1. CASE v = u
        BY <1>5, <1>6, <2>2, <3>1, <4>1
      <4>2. CASE v # u
        BY <1>5, <1>6, <2>3, <3>1, <4>2
      <4> QED
        BY <4>1, <4>2
    <3> QED
      BY <3>4, <3>5 DEF after
  <2>5. CASE Refuse(u, "no_cch_space") /\ newTx' = newTx
    <3>1. /\ dlMask' = dlMask /\ grant' = grant /\ newTx' = newTx
          /\ code' = [code EXCEPT ![u] = "no_cch_space"]
      BY <2>5 DEF Refuse
    <3>2. free' = free
      BY <3>1 DEF free
    <3>3. after <= Cardinality(free')
      BY <1>6, <2>1, <3>2
    <3>4. \A v \in enabled :
            /\ code'[v] \notin {"no_sch_space", "sch_collision"}
            /\ v \in newTx' => Cardinality(grant'[v]) = rbgAlloc[v]
      BY <1>5, <1>6, <2>3, <3>1
    <3> QED
      BY <3>3, <3>4 DEF after
  <2> QED
    BY <2>t, <2>4, <2>5
<1>8. queue' \subseteq enabled'
  BY <1>2 DEF ShareInv
<1>9. FairShareDelivered'
  <2>1. enabled' \subseteq ueDb'
    BY <1>2 DEF TypeInv, RestOK
  <2>2. Filling' => \A v \in enabled' :
           /\ code'[v] \notin {"no_sch_space", "sch_collision"}
           /\ v \in newTx' => Cardinality(grant'[v]) = rbgAlloc'[v]
    BY <1>2, <1>3, <1>7
  <2> QED
    BY <2>1, <2>2 DEF FairShareDelivered, Filling, Even
<1>10. Filling' => SharesOf(queue)' <= Cardinality(free')
  BY <1>3, <1>4, <1>7
<1> QED
  BY <1>2, <1>8, <1>9, <1>10 DEF ShareInv

LEMMA SharesAddUp == TypeInv /\ FairInv /\ Even => Share \in Nat /\ SharesOf(ueDb) = Shared
BY FairSum

LEMMA SharesAddUpNext ==
  (TypeInv /\ FairInv /\ Even => Share \in Nat /\ SharesOf(ueDb) = Shared)'
BY SharesAddUp, PTL

LEMMA MoreShares ==
  ASSUME NEW q \in Nat, NEW n \in Nat, NEW m \in Nat, m <= n
  PROVE  q * m <= q * n
OBVIOUS

\* Before the first turn all that SIB, paging and RAR leave is free, which is
\* what the shares of all UEs add up to.
LEMMA ShareBegins ==
  ASSUME TypeInv, FairInv, ShareInv, TypeInv', FairInv', SchedDlUsers
  PROVE  ShareInv'
<1>1. /\ phase = "caps" /\ phase' = "alloc"
      /\ UNCHANGED <<ueDb, enabled, ctrl, dlMask, code, newTx>>
      /\ queue' = queue \/ queue' = Listed(enabled, retx)
  BY DEF SchedDlUsers
<1>2. newTx' = {} /\ code' = [v \in Rnti |-> "none"]
  BY <1>1 DEF ShareInv
<1>3. queue' \subseteq enabled'
  BY <1>1 DEF ShareInv, Listed
<1>4. ASSUME Filling'
      PROVE  SharesOf(queue)' <= Cardinality(free')
  <2>1. Even' /\ Share' \in Nat /\ SharesOf(ueDb)' = Shared'
    BY <1>4, SharesAddUpNext DEF Filling
  <2> DEFINE q == Share'
             all == Extra(rbgAlloc', q, ueDb)
             some == Extra(rbgAlloc', q, queue')
             n == Cardinality(ueDb)
             m == Cardinality(queue')
  <2>2. /\ SharesOf(queue)' = q * m + Cardinality(some)
        /\ Shared' = q * n + Cardinality(all)
    BY <1>1, <2>1 DEF SharesOf
  <2>3. IsFiniteSet(ueDb) /\ queue' \in SUBSET ueDb /\ n \in Nat
    BY <1>1, <1>3, UesCounted, FS_CardinalityType DEF TypeInv, NumbersOK, RestOK
  <2>4. m \in Nat /\ m <= n
    BY <2>3, FS_Subset, FS_CardinalityType
  <2>5. IsFiniteSet(all) /\ some \in SUBSET all
    BY <2>3, FS_Subset DEF Extra
  <2>6. /\ Cardinality(some) <= Cardinality(all)
        /\ Cardinality(some) \in Nat /\ Cardinality(all) \in Nat
    BY <2>5, FS_Subset, FS_CardinalityType
  <2>7. q * m <= q * n
    <3> HIDE DEF q, n, m
    <3> QED
      BY <2>1, <2>3, <2>4, MoreShares DEF q
  <2>8. Cardinality(free') = Shared'
    <3>1. dlMask' = ctrl' /\ ctrl' \in SUBSET Rbg
      BY <1>1 DEF FairInv, TypeInv, RestOK
    <3> QED
      BY <3>1, FreeType DEF free, Shared
  <2> DEFINE x == q * m
             y == q * n
  <2>9. x \in Nat /\ y \in Nat /\ x <= y
    <3>1. q \in Nat
      BY <2>1
    <3> HIDE DEF q, n, m
    <3> QED
      BY <2>3, <2>4, <2>7, <3>1
  <2> DEFINE i == Cardinality(some)
             j == Cardinality(all)
  <2>10. x + i <= y + j
    <3>1. i \in Nat /\ j \in Nat /\ i <= j
      BY <2>6
    <3> HIDE DEF x, y, i, j
    <3> QED
      BY <2>9, <3>1
  <2> QED
    BY <2>2, <2>8, <2>10
<1>5. FairShareDelivered'
  <2>1. \A v \in enabled' : v \notin newTx' /\ v \in Rnti
    BY <1>1, <1>2 DEF TypeInv, NumbersOK, MasksOK
  <2> QED
    BY <1>2, <2>1 DEF FairShareDelivered
<1> QED
  BY <1>1, <1>2, <1>3, <1>4, <1>5 DEF ShareInv

LEMMA ShareStep ==
  ASSUME TypeInv, FairInv, ShareInv, TypeInv', FairInv', [Next]_vars
  PROVE  ShareInv'
<1>1. ASSUME NEW u \in Rnti, Retransmit(u) \/ NewTransmission(u) \/ GiveUp(u)
      PROVE  ShareInv'
  BY <1>1, ShareTurn
<1>2. CASE SchedDlUsers
  BY <1>2, ShareBegins
<1>3. CASE StartSubframe
  <2>1. /\ phase = "idle" /\ phase' = "caps" /\ code' = code /\ newTx' = newTx
        /\ queue' = queue \/ queue' = Listed(enabled', retx')
    BY <1>3 DEF StartSubframe
  <2>2. queue' \subseteq enabled'
    BY <2>1 DEF ShareInv, TypeInv, RestOK, Listed
  <2> QED
    BY <2>1, <2>2 DEF ShareInv, Filling, Even, FairShareDelivered
<1>4. CASE EndSubframe
  BY <1>4 DEF EndSubframe, ShareInv, Filling, Even, FairShareDelivered
<1>5. ASSUME phase = "idle", UNCHANGED <<phase, queue, enabled, newTx, code>>
      PROVE  ShareInv'
  BY <1>5 DEF ShareInv, Filling, Even, FairShareDelivered
<1>6. CASE UplinkSubframe \/ ReceivePolicy \/ ClearPolicy
  BY <1>5, <1>6 DEF UplinkSubframe, ReceivePolicy, ClearPolicy, subframe
<1>7. ASSUME NEW u \in Rnti, AddUe(u) \/ RemUe(u) PROVE ShareInv'
  BY <1>5, <1>7 DEF AddUe, RemUe, subframe
<1>8. ASSUME NEW u \in Rnti, NEW p \in Pid, EmptyHarq(u, p) PROVE ShareInv'
  BY <1>5, <1>8 DEF EmptyHarq, subframe
<1>9. CASE UNCHANGED vars
  BY <1>9 DEF vars, persistent, subframe, ShareInv, Filling, Even, FairShareDelivered,
              SharesOf, Share, Shared, numUes, free, Extra
<1> QED
  BY <1>1, <1>2, <1>3, <1>4, <1>6, <1>7, <1>8, <1>9 DEF Next, Scheduler, Environment

LEMMA ShareInit == Init => ShareInv
BY DEF Init, FreshSubframe, ShareInv, Filling, Even, FairShareDelivered

\* Without a policy, when every UE could fill the carrier and nothing is
\* retransmitted, no UE is refused for want of RBGs, and one that is served gets
\* its cap to the last RBG, for every number of UEs and RBGs and in every order.
THEOREM SharesAreDelivered == Spec => []FairShareDelivered
<1>1. Init => TypeInv /\ FairInv /\ ShareInv
  BY TypeInit, FairInit, ShareInit
<1>2. TypeInv /\ FairInv /\ ShareInv /\ [Next]_vars =>
        TypeInv' /\ FairInv' /\ ShareInv'
  BY NumbersStep, RestStep, FairStep, ShareStep DEF TypeInv
<1>3. ShareInv => FairShareDelivered
  BY DEF ShareInv
<1> QED
  BY <1>1, <1>2, <1>3, PTL DEF Spec
=============================================================================
