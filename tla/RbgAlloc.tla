----------------------------- MODULE RbgAlloc -----------------------------
(***************************************************************************)
(* The weighted downlink scheduler of one carrier: sched_time_pf (with the *)
(* helpers of sched_base.cc) turning the weights of the RT agent into one  *)
(* RBG cap per UE and allocating RBGs of one subframe, as                  *)
(* generate_tti_result drives it (sched_carrier.cc).                       *)
(*                                                                         *)
(* The whole subframe runs under the scheduler's mutex, so UEs and weights *)
(* change between subframes only. A UE is known by its RNTI, a natural,    *)
(* because the code multiplies RNTIs that reach it as weights; a mask is a *)
(* set of RBGs; a weight is a numerator over WeightDen. UEs use DCI format *)
(* 1 and wideband CQI. PF priorities, TBS tables and the PDCCH search are  *)
(* abstracted to nondeterministic choices.                                 *)
(***************************************************************************)
EXTENDS Integers, FiniteSets, FiniteSetsExt, Sequences

CONSTANTS
  Rnti,           \* the RNTIs that UEs may have
  NofSlots,       \* the UE database orders UEs by rnti % NofSlots (64)
  NofRbgs,        \* RBGs of the carrier
  Pid,            \* DL HARQ processes of a UE
  NofEntries,     \* length of the array ue_rntis (10)
  ByteMod,        \* total_rbgs and remain_rbgs are uint8_t (2^8)
  CapMod,         \* rbgs[j] and rbg_alloc are uint16_t (2^16)
  WeightDen,      \* denominator of the weights
  Shares,         \* numerators of the shares a policy gives to a UE
  UninitWeights,  \* numerators that fresh memory may hold
  UninitRntis,    \* values that fresh memory may hold in ue_rntis
  MinRbgs,        \* RBGs that fit the headers (req_bytes.start())
  Demands,        \* values of demand
  CtrlSizes,      \* numbers of RBGs that SIB, paging and RAR take
  MaxUeDb         \* bound on the UEs in the database

ASSUME SizesAssumption ==
  /\ NofSlots \in Nat \ {0} /\ NofRbgs \in Nat \ {0} /\ WeightDen \in Nat \ {0}
  /\ ByteMod \in Nat \ {0} /\ CapMod \in Nat \ {0}
  /\ MinRbgs \in Nat \ {0} /\ MaxUeDb \in Nat /\ NofEntries \in Nat

\* new_tti and sched_dl_users index ue_rntis up to the number of UEs.
ASSUME EntriesAssumption == MaxUeDb <= NofEntries

\* A carrier has at most 25 RBGs: neither uint8_t nor uint16_t wraps on them.
ASSUME WidthAssumption == NofRbgs < ByteMod /\ NofRbgs < CapMod

ASSUME RntiAssumption ==
  /\ Rnti \subseteq Nat /\ IsFiniteSet(Rnti)
  /\ UninitRntis \subseteq Nat /\ UninitRntis # {}
ASSUME WeightAssumption ==
  /\ Shares \subseteq Nat
  /\ UninitWeights \subseteq Nat /\ UninitWeights # {}
ASSUME InputsAssumption ==
  Demands \subseteq 0 .. NofRbgs + 1 /\ CtrlSizes \subseteq 0 .. NofRbgs
ASSUME PidAssumption == Pid \subseteq Nat /\ IsFiniteSet(Pid)

Rbg == 0 .. NofRbgs - 1
NoPid == -1
Codes == {"none", "success", "sch_collision", "no_cch_space", "no_sch_space",
          "no_rnti_opportunity", "invalid_grant_params"}

VARIABLES
  ueDb,      \* sched::ue_db
  weights,   \* edgeric::weights_recved, as the list of its values
  ueRntis,   \* ue_rntis
  rbgAlloc,  \* rbg_alloc; a key that is absent reads as 0
  harq,      \* harq[u][p]: mask of the process, {} when it is empty
  tti,       \* parity of tti_rx
  phase,     \* "idle": between subframes; "caps": sched_dl_users is next;
             \*   "alloc": its loop over dl_queue
  enabled,   \* UEs with PDSCH enabled and the carrier active this subframe
  retx,      \* process whose retransmission is due this subframe, or NoPid
  demand,    \* least number of RBGs that carry the bytes of the UE
  queue,     \* dl_queue
  ctrl,      \* RBGs taken by SIB, paging and RAR
  dlMask,    \* sf_grid_t::dl_mask
  grant,     \* masks of data_allocs of this subframe, {} for none
  newTx,     \* UEs whose grant is a new transmission
  code,      \* result of try_dl_alloc for each UE
  settled    \* the caps were computed from a list of exactly the UEs of ueDb

persistent == <<ueDb, weights, ueRntis, rbgAlloc, harq, tti>>
subframe == <<enabled, retx, demand, queue, ctrl, dlMask, grant, newTx, code,
              settled>>
vars == <<persistent, phase, subframe>>

TypeOK ==
  /\ ueDb \subseteq Rnti
  /\ Cardinality(ueDb) <= MaxUeDb
  /\ weights \in Seq(Nat)
  /\ ueRntis \in [0 .. NofEntries - 1 -> Rnti \cup UninitRntis]
  /\ rbgAlloc \in [Rnti -> 0 .. CapMod - 1]
  /\ harq \in [Rnti -> [Pid -> SUBSET Rbg]]
  /\ tti \in {0, 1}
  /\ phase \in {"idle", "caps", "alloc"}
  /\ enabled \subseteq ueDb
  /\ retx \in [Rnti -> Pid \cup {NoPid}]
  /\ demand \in [Rnti -> 0 .. NofRbgs + 1]
  /\ queue \subseteq Rnti
  /\ ctrl \subseteq Rbg
  /\ dlMask \subseteq Rbg
  /\ grant \in [Rnti -> SUBSET Rbg]
  /\ newTx \subseteq Rnti
  /\ code \in [Rnti -> Codes]
  /\ settled \in BOOLEAN

FreshSubframe ==
  /\ enabled = {}
  /\ retx = [u \in Rnti |-> NoPid]
  /\ demand = [u \in Rnti |-> 0]
  /\ queue = {}
  /\ ctrl = {}
  /\ dlMask = {}
  /\ grant = [u \in Rnti |-> {}]
  /\ newTx = {}
  /\ code = [u \in Rnti |-> "none"]
  /\ settled = FALSE

Init ==
  /\ ueDb = {}
  /\ weights = << >>
  /\ ueRntis \in [0 .. NofEntries - 1 -> UninitRntis]
  /\ rbgAlloc = [u \in Rnti |-> 0]
  /\ harq = [u \in Rnti |-> [p \in Pid |-> {}]]
  /\ tti = 0
  /\ phase = "idle"
  /\ FreshSubframe
-----------------------------------------------------------------------------
(* Between subframes: UEs, policies and HARQ feedback                      *)

Slot(u) == u % NofSlots

\* ue_cfg of a new RNTI; allocate_ue leaves out an RNTI whose slot is taken.
AddUe(u) ==
  /\ phase = "idle"
  /\ u \notin ueDb
  /\ Cardinality(ueDb) < MaxUeDb
  /\ \A v \in ueDb : Slot(v) # Slot(u)
  /\ ueDb' = ueDb \cup {u}
  /\ UNCHANGED <<weights, ueRntis, rbgAlloc, harq, tti, phase, subframe>>

\* ue_rem: the HARQs go with the UE, ue_rntis and rbg_alloc do not.
RemUe(u) ==
  /\ phase = "idle"
  /\ u \in ueDb
  /\ ueDb' = ueDb \ {u}
  /\ harq' = [harq EXCEPT ![u] = [p \in Pid |-> {}]]
  /\ UNCHANGED <<weights, ueRntis, rbgAlloc, tti, phase, subframe>>

\* The list a muApp sends: the RNTI and the share of each UE in turn.
PolicyList(us, share) ==
  [i \in 1 .. 2 * Len(us) |->
     IF i % 2 = 1 THEN us[(i + 1) \div 2] * WeightDen ELSE share[us[i \div 2]]]

Overlay(p, old) ==
  [i \in 1 .. Max({Len(p), Len(old)}) |-> IF i <= Len(p) THEN p[i] ELSE old[i]]

\* The UEs of a set in the order of their RNTIs, the order of the keys of the
\* map of reports the muApp reads.
ByRnti(S) == [i \in 1 .. Cardinality(S) |->
                CHOOSE u \in S : Cardinality({v \in S : v < u}) = i - 1]

ReceivePolicy ==
  /\ phase = "idle"
  /\ \E S \in (SUBSET ueDb) \ {{}} : \E share \in [S -> Shares] :
       weights' = Overlay(PolicyList(ByRnti(S), share), weights)
  /\ UNCHANGED <<ueDb, ueRntis, rbgAlloc, harq, tti, phase, subframe>>

ClearPolicy ==
  /\ phase = "idle"
  /\ weights # << >>
  /\ weights' = << >>
  /\ UNCHANGED <<ueDb, ueRntis, rbgAlloc, harq, tti, phase, subframe>>

\* An ACK, or the last retransmission is over.
EmptyHarq(u, p) ==
  /\ phase = "idle"
  /\ harq[u][p] # {}
  /\ harq' = [harq EXCEPT ![u][p] = {}]
  /\ UNCHANGED <<ueDb, weights, ueRntis, rbgAlloc, tti, phase, subframe>>

-----------------------------------------------------------------------------
(* new_tti: the UEs with a DL HARQ to use, in the order of the database    *)

EmptyPids(u) == {p \in Pid : harq[u][p] = {}}

Listed(en, due) == {u \in en : due[u] # NoPid \/ EmptyPids(u) # {}}

\* Entries beyond the UEs listed keep what they hold.
NewUeRntis(listed) ==
  [i \in 0 .. NofEntries - 1 |->
     IF i < Cardinality(listed)
     THEN CHOOSE u \in listed :
            Cardinality({v \in listed : Slot(v) < Slot(u)}) = i
     ELSE ueRntis[i]]

\* What a subframe finds: retransmissions that are due for the UEs it may
\* schedule, and the demands of those that have a HARQ for new data.
DueRetx(en) ==
  {due \in [Rnti -> Pid \cup {NoPid}] :
     \A u \in Rnti : due[u] # NoPid => u \in en /\ harq[u][due[u]] # {}}

NewDemands(en) ==
  {d \in [Rnti -> Demands \cup {0}] :
     \A u \in Rnti : u \notin en \/ EmptyPids(u) = {} => d[u] = 0}

\* In even subframes the uplink goes first, and its call of new_tti fills
\* the lists before sched_dl_users reads them.
StartSubframe ==
  /\ phase = "idle"
  /\ phase' = "caps"
  /\ \E en \in SUBSET ueDb, c \in CtrlSizes :
       /\ enabled' = en
       /\ ctrl' = 0 .. c - 1
       /\ dlMask' = ctrl'
       /\ retx' \in DueRetx(en)
       /\ demand' \in NewDemands(en)
  /\ IF tti = 0
     THEN /\ queue' = Listed(enabled', retx')
          /\ ueRntis' = NewUeRntis(queue')
     ELSE UNCHANGED <<queue, ueRntis>>
  /\ UNCHANGED <<ueDb, weights, rbgAlloc, harq, tti, grant, newTx, code,
                 settled>>

\* A subframe without downlink (sf_dl_mask): only sched_ul_users runs.
UplinkSubframe ==
  /\ phase = "idle"
  /\ tti' = 1 - tti
  /\ \E en \in SUBSET ueDb : \E due \in DueRetx(en) :
       ueRntis' = NewUeRntis(Listed(en, due))
  /\ UNCHANGED <<ueDb, weights, rbgAlloc, harq, phase, subframe>>

-----------------------------------------------------------------------------
(* sched_dl_users: the caps                                                *)

available == NofRbgs - Cardinality(dlMask)
numUes == Cardinality(ueDb)

\* weights[j] for j below this was written; the rest of the array was not.
NofWeights ==
  IF weights = << >> THEN Cardinality({ueRntis[j] : j \in 0 .. numUes - 1})
                     ELSE Len(weights)

\* rbgs[j], the array weights being "fresh" where it was not written.
RbgsOf(j, fresh) ==
  IF j >= NofWeights THEN ((fresh[j] * available) \div WeightDen) % CapMod
  ELSE IF weights = << >> THEN (available \div numUes) % CapMod
  ELSE ((weights[j + 1] * available) \div WeightDen) % CapMod

TotalRbgs(rbgs) ==
  MapThenSumSet(LAMBDA j : rbgs[j], 0 .. numUes - 1) % ByteMod

\* Mutation: the RBGs of SIB and RAR are shared out as well.
RemainOfCarrier(rbgs) == (NofRbgs - TotalRbgs(rbgs)) % ByteMod

RemainRbgs(rbgs) == (available - TotalRbgs(rbgs)) % ByteMod

\* Mutations of the caps: they add to those of the subframe before, or do not
\* wrap as uint16_t.
NewRbgAllocAdding(rbgs) ==
  [u \in Rnti |->
     (rbgAlloc[u] + MapThenSumSet(LAMBDA j : rbgs[j],
                      {j \in 0 .. numUes - 1 : ueRntis[j] = u})) % CapMod]

NewRbgAllocWide(rbgs) ==
  [u \in Rnti |-> rbgAlloc[u] +
     Cardinality({j \in 0 .. Min({RemainRbgs(rbgs), NofEntries}) - 1 :
                    ueRntis[j] = u})]

\* A UE listed twice keeps its last entry. The loop over the remainder reads
\* on beyond the UEs, and beyond the array, where it meets no UE of Rnti.
NewRbgAlloc(rbgs) ==
  LET entries(u, n) == {j \in 0 .. NofEntries - 1 : j < n /\ ueRntis[j] = u}
      base(u) == IF entries(u, numUes) = {} THEN rbgAlloc[u]
                                            ELSE rbgs[Max(entries(u, numUes))]
  IN [u \in Rnti |->
        (base(u) + Cardinality(entries(u, RemainRbgs(rbgs)))) % CapMod]

IsSettled == {ueRntis[j] : j \in 0 .. numUes - 1} = ueDb

\* In odd subframes the caps come first, from the list of the subframe before.
SchedDlUsers ==
  /\ phase = "caps"
  /\ phase' = "alloc"
  /\ \E fresh \in [NofWeights .. numUes - 1 -> UninitWeights] :
       rbgAlloc' = NewRbgAlloc([j \in 0 .. numUes - 1 |-> RbgsOf(j, fresh)])
  /\ settled' = IsSettled
  /\ IF tti = 1
     THEN /\ queue' = Listed(enabled, retx)
          /\ ueRntis' = NewUeRntis(queue')
     ELSE UNCHANGED <<queue, ueRntis>>
  /\ UNCHANGED <<ueDb, weights, harq, tti, enabled, retx, demand, ctrl, dlMask,
                 grant, newTx, code>>
-----------------------------------------------------------------------------
(* sched_dl_users: the loop over dl_queue                                  *)

free == Rbg \ dlMask

\* The n lowest RBGs of a mask.
Lowest(mask, n) == {r \in mask : Cardinality({q \in mask : q < r}) < n}

\* Mutation: alloc_dl looks at the RBGs of SIB, paging and RAR only.
CollidesWithCtrl(mask) == mask \cap ctrl # {}

\* alloc_dl refuses a mask that overlaps dl_mask.
Collides(mask) == mask \cap dlMask # {}

\* Retransmissions go before new ones; PF orders the rest.
IsTop(u) ==
  /\ u \in queue
  /\ (\E v \in queue : retx[v] # NoPid) => retx[u] # NoPid

\* try_dl_retx_alloc: the mask of the first transmission, or when that
\* collides the lowest free mask of the same size.
SameSizeMask(n) == Lowest(free, n)

\* Mutation: the size of the other mask is not compared.
RetxMasksAnySize(u) ==
  LET mask == harq[u][retx[u]]
  IN IF ~ Collides(mask) THEN {mask}
     ELSE {m \in {SameSizeMask(Cardinality(mask))} : m # {}}

RetxMasks(u) ==
  LET mask  == harq[u][retx[u]]
      other == SameSizeMask(Cardinality(mask))
  IN IF ~ Collides(mask) THEN {mask}
     ELSE {m \in {other} : Cardinality(m) = Cardinality(mask)}

Grant(u, p, mask) ==
  /\ dlMask' = dlMask \cup mask
  /\ grant' = [grant EXCEPT ![u] = mask]
  /\ harq' = [harq EXCEPT ![u][p] = mask]
  /\ code' = [code EXCEPT ![u] = "success"]

Refuse(u, why) ==
  /\ code' = [code EXCEPT ![u] = why]
  /\ UNCHANGED <<harq, dlMask, grant>>

Pop(u) ==
  /\ phase = "alloc"
  /\ IsTop(u)
  /\ queue' = queue \ {u}
  /\ UNCHANGED <<ueDb, weights, ueRntis, rbgAlloc, tti, phase, enabled, retx,
                 demand, ctrl, settled>>

\* The PDCCH has room for the DCI, or not; in that case a new transmission is
\* not tried.
Retransmit(u) ==
  /\ Pop(u)
  /\ retx[u] # NoPid
  /\ RetxMasks(u) # {}
  /\ \/ \E mask \in RetxMasks(u) : Grant(u, retx[u], mask)
     \/ Refuse(u, "no_cch_space")
  /\ UNCHANGED newTx

\* find_optimal_rbgmask: all the free RBGs, unless fewer will do. It then
\* skips the lowest ones until the mask has the size it needs, at position
\* pos, and turns the bits from pos up into a mask whose bit order is
\* reversed: the mask is the RBGs 0 .. NofRbgs - 1 - pos, free or not.
OptMask(need) ==
  LET skip == Cardinality(free) - need
      pos  == IF skip = 0 THEN 0
              ELSE Max(Lowest(free \ {0}, skip))
  IN IF skip < 0 THEN free ELSE 0 .. NofRbgs - 1 - pos

\* Mutation: one RBG too many.
CappedOneMore(mask, cap) == IF cap > 0 THEN Lowest(mask, cap + 1) ELSE mask

\* A cap of 0 is no cap.
Capped(mask, cap) == IF cap > 0 THEN Lowest(mask, cap) ELSE mask

NewTxMask(u) == Capped(OptMask(demand[u]), rbgAlloc[u])

\* try_dl_newtx_alloc_greedy and alloc_dl_user, up to the grid.
NewTxRefusal(u) ==
  IF free = {} THEN "no_sch_space"
  ELSE IF demand[u] = 0 THEN "no_rnti_opportunity"
  ELSE IF Cardinality(free) < MinRbgs THEN "no_sch_space"
  ELSE IF Cardinality(NewTxMask(u)) < MinRbgs THEN "invalid_grant_params"
  ELSE IF Collides(NewTxMask(u)) THEN "sch_collision"
  ELSE "none"

NewTransmission(u) ==
  /\ Pop(u)
  /\ retx[u] # NoPid => RetxMasks(u) = {}
  /\ EmptyPids(u) # {}
  /\ \/ /\ NewTxRefusal(u) = "none"
        /\ \/ /\ Grant(u, Min(EmptyPids(u)), NewTxMask(u))
              /\ newTx' = newTx \cup {u}
           \/ /\ Refuse(u, "no_cch_space")
              /\ UNCHANGED newTx
     \/ /\ NewTxRefusal(u) # "none"
        /\ Refuse(u, NewTxRefusal(u))
        /\ UNCHANGED newTx

\* The retransmission fits nowhere and no HARQ is empty.
GiveUp(u) ==
  /\ Pop(u)
  /\ retx[u] # NoPid
  /\ RetxMasks(u) = {}
  /\ EmptyPids(u) = {}
  /\ Refuse(u, "sch_collision")
  /\ UNCHANGED newTx

EndSubframe ==
  /\ phase = "alloc"
  /\ queue = {}
  /\ phase' = "idle"
  /\ tti' = 1 - tti
  /\ enabled' = {} /\ queue' = {} /\ ctrl' = {} /\ dlMask' = {} /\ newTx' = {}
  /\ retx' = [u \in Rnti |-> NoPid]
  /\ demand' = [u \in Rnti |-> 0]
  /\ grant' = [u \in Rnti |-> {}]
  /\ code' = [u \in Rnti |-> "none"]
  /\ settled' = FALSE
  /\ UNCHANGED <<ueDb, weights, ueRntis, rbgAlloc, harq>>

-----------------------------------------------------------------------------

Scheduler ==
  \/ StartSubframe
  \/ UplinkSubframe
  \/ SchedDlUsers
  \/ \E u \in Rnti : Retransmit(u) \/ NewTransmission(u) \/ GiveUp(u)
  \/ EndSubframe

Environment ==
  \/ \E u \in Rnti : AddUe(u) \/ RemUe(u)
  \/ ReceivePolicy
  \/ ClearPolicy
  \/ \E u \in Rnti, p \in Pid : EmptyHarq(u, p)

Next == Scheduler \/ Environment

Spec == Init /\ [][Next]_vars
-----------------------------------------------------------------------------
(* Properties                                                              *)

\* No RBG is given twice in a subframe: not to two UEs, and not to a UE when
\* SIB, paging or a RAR have it. The masks find_optimal_rbgmask proposes do
\* overlap; that they are never granted is the work of alloc_dl.
NoRbgTwice ==
  \A u \in Rnti :
    /\ grant[u] \cap ctrl = {}
    /\ \A v \in Rnti \ {u} : grant[u] \cap grant[v] = {}

\* A new transmission never takes more RBGs than the cap of its UE, a retx
\* may, and a cap of 0 caps nothing.
NewTxWithinCap ==
  \A u \in newTx :
    /\ grant[u] # {}
    /\ rbgAlloc[u] > 0 => Cardinality(grant[u]) <= rbgAlloc[u]

\* A retransmission carries its transport block in as many RBGs as the first
\* transmission did, wherever it is moved: a process in use changes its mask
\* for one of the same size or becomes empty.
RetxKeepsSize ==
  [][\A u \in Rnti, p \in Pid :
       harq[u][p] # {} /\ harq'[u][p] # {} =>
         Cardinality(harq'[u][p]) = Cardinality(harq[u][p])]_vars

\* Without a policy the default weights share the RBGs out exactly: when the
\* list of RNTIs held the UEs of the database, their caps differ by one at
\* most and add up to the RBGs that are available. Neither the rounding of the
\* weights, nor the loop over the remainder, nor the uint8_t sums spoil it, and
\* nor does what earlier policies and UEs left in rbg_alloc and ue_rntis.
FairDefaults ==
  phase = "alloc" /\ settled /\ weights = << >> /\ ueDb # {} =>
    /\ MapThenSumSet(LAMBDA u : rbgAlloc[u], ueDb) = NofRbgs - Cardinality(ctrl)
    /\ \A u, v \in ueDb : rbgAlloc[u] <= rbgAlloc[v] + 1

\* So, when every UE could fill the carrier and nothing is retransmitted, no
\* UE is refused for want of RBGs, whatever order PF puts them in, and one
\* that is served gets its cap to the last RBG: each leaves the RBGs of the
\* UEs that come after.
FairShareDelivered ==
  (/\ phase = "alloc" /\ settled /\ weights = << >>
   /\ MinRbgs * numUes + Cardinality(ctrl) <= NofRbgs
   /\ \A u \in enabled : retx[u] = NoPid /\ demand[u] > NofRbgs)
  => \A u \in enabled :
       /\ code[u] \notin {"no_sch_space", "sch_collision"}
       /\ u \in newTx => Cardinality(grant[u]) = rbgAlloc[u]

\* What edgeric/readme.md says of a policy: the share w_i of UE i allocates it
\* floor(w_i * available) RBGs, to which the loop over the remainder may add
\* one. The scheduler reads the list by position instead of by RNTI.
SharesHonoured ==
  phase = "alloc" /\ settled =>
    \A i \in 1 .. Len(weights) \div 2 :
      LET u    == weights[2 * i - 1] \div WeightDen
          rbgs == (weights[2 * i] * (NofRbgs - Cardinality(ctrl))) \div WeightDen
      IN u \in ueDb => rbgAlloc[u] \in {rbgs, rbgs + 1}

=============================================================================
