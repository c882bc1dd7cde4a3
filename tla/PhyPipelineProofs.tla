------------------------- MODULE PhyPipelineProofs -------------------------
(***************************************************************************)
(* Theorems about the threads of the eNB, for every number of UEs and of   *)
(* PHY workers: the TTIs are transmitted in order, the uplink grants of a  *)
(* TTI are saved before its worker reads them, and they find their UEs     *)
(* there although the stack removes UEs meanwhile.                         *)
(*                                                                         *)
(* Everything is counted from the TTI sent last. The workers between       *)
(* "begin" and "end" are those of the tti_semaphore, and the i-th of them  *)
(* works on the i-th TTI from there (FifoInv). No worker is in it twice,   *)
(* so it is never longer than the pool (FifoFits), which is no longer than *)
(* Delay: a worker that reads the grants of its TTI is too close behind    *)
(* the transmission for the worker that saved them to be still at work     *)
(* (SavedInv).                                                             *)
(*                                                                         *)
(* For the removal the stack's clock is counted from there too (Ahead). A  *)
(* UE that is not in late has no grant further ahead of the clock than its *)
(* timer runs (ScheduledFor, Within). When the timer expires, the workers  *)
(* that made its grants have transmitted, and those that are to decode     *)
(* them have begun, so that they are busy and rem_rnti waits for them.     *)
(***************************************************************************)
EXTENDS PhyPipeline, FiniteSetTheorems, SequenceTheorems, TLAPS

AtWork == {"begin", "decode", "dl_sched", "ul_sched", "save", "end"}

GrantList == Seq(Ues \cup {0})

TypeInv ==
  /\ tti \in Tti /\ sentTti \in Tti
  /\ txrx \in {"claim", "start", "tick"}
  /\ mine \in Worker \cup {NoWorker}
  /\ status \in [Worker -> {"idle", "ready", "work"}]
  /\ pc \in [Worker -> AtWork \cup {"wait", "finish"}]
  /\ wTti \in [Worker -> Tti]
  /\ fifo \in Seq(Worker)
  /\ rx \in [Worker -> GrantList \cup {NotSaved}]
  /\ tx \in [Worker -> Seq(Ues)]
  /\ ulGrants \in [Tti -> GrantList \cup {NotSaved}]
  /\ schedDb \subseteq Ues /\ macDb \subseteq Ues
  /\ rem \in [ue : Ues \cup {0}, w : Int]
  /\ stack \in {"idle", "timers", "claim", "rem", "clear", "erase", "rrc"}

\* A worker that someone has claimed waits, and has one owner.
OwnerInv ==
  /\ \A w \in Worker : pc[w] # "wait" => status[w] = "work"
  /\ txrx = "start" => mine \in Worker /\ status[mine] = "ready"
  /\ stack \in {"claim", "rem"} => rem \in [ue : Ues, w : Worker]
  /\ stack = "rem" => status[rem.w] = "ready" /\ (txrx = "start" => rem.w # mine)
  /\ stack \in {"clear", "erase"} => rem.ue \in Ues

FifoInv ==
  /\ \A i, j \in 1 .. Len(fifo) : fifo[i] = fifo[j] => i = j
  /\ \A i \in 1 .. Len(fifo) : pc[fifo[i]] \in AtWork
  /\ \A w \in Worker : pc[w] \in AtWork => \E i \in 1 .. Len(fifo) : fifo[i] = w
  /\ \A i \in 1 .. Len(fifo) : wTti[fifo[i]] = Plus(sentTti, i)
  /\ tti = Plus(sentTti, Len(fifo) + (IF txrx = "start" THEN 1 ELSE 0))

SavedInv ==
  /\ \A k \in 1 .. Delay :
       \/ ulGrants[Plus(sentTti, k)] # NotSaved
       \/ k <= Len(fifo) /\ pc[fifo[k]] # "begin"
  /\ \A i \in 1 .. Len(fifo) :
       pc[fifo[i]] = "end" => ulGrants[Plus(sentTti, i + Delay)] # NotSaved

\* The types that only TypeOK and the removal need.
RestInv ==
  /\ clock \in Tti
  /\ rx \in [Worker -> GrantList]
  /\ known \in [Worker -> SUBSET Ues]
  /\ ticks \in 0 .. QueueSize
  /\ rem = NoRem \/ (rem.ue \in Ues /\ rem.w \in 0 .. NofWorkers)
  /\ due \in [Ues -> NoTimer .. Delay]
  /\ schedDb \subseteq macDb
  /\ \A u \in Ues : due[u] # NoTimer => u \notin schedDb
  /\ stack \in {"claim", "rem", "clear", "erase"} => rem.ue \notin schedDb
  /\ late \subseteq Ues

IInv == TypeInv /\ OwnerInv /\ FifoInv /\ SavedInv /\ RestInv

-----------------------------------------------------------------------------
(* Arithmetic of TTIs                                                      *)

LEMMA Constants ==
  /\ TtiMod \in Nat \ {0} /\ Delay \in Nat /\ NofWorkers \in Nat \ {0}
  /\ NofWorkers <= Delay /\ Delay + NofWorkers < TtiMod
BY WorkersAssumption, DelayAssumption, TtiModAssumption, QueueAssumption

LEMMA PlusType ==
  ASSUME NEW t \in Tti, NEW n \in Int
  PROVE  Plus(t, n) \in Tti
BY Constants DEF Plus, Tti

LEMMA PlusZero ==
  ASSUME NEW t \in Tti
  PROVE  Plus(t, 0) = t
BY Constants DEF Plus, Tti

LEMMA RemainderUnique ==
  ASSUME NEW m \in Nat \ {0}, NEW r \in 0 .. m - 1, NEW s \in 0 .. m - 1,
         NEW p \in Int, NEW q \in Int, m * p + r = m * q + s
  PROVE  p = q /\ r = s
<1>1. CASE p = q
  BY <1>1
<1>2. CASE p > q
  <2>1. p - q >= 1 /\ m * (p - q) = s - r
    BY <1>2
  <2>2. m * (p - q) >= m
    BY <2>1
  <2> QED  BY <2>1, <2>2
<1>3. CASE q > p
  <2>1. q - p >= 1 /\ m * (q - p) = r - s
    BY <1>3
  <2>2. m * (q - p) >= m
    BY <2>1
  <2> QED  BY <2>1, <2>2
<1> QED  BY <1>1, <1>2, <1>3

LEMMA Division ==
  ASSUME NEW m \in Nat \ {0}, NEW x \in Int
  PROVE  /\ x % m \in 0 .. m - 1 /\ (x \div m) \in Int
         /\ x = m * (x \div m) + (x % m)
OBVIOUS

LEMMA PlusPlus ==
  ASSUME NEW t \in Tti, NEW a \in Int, NEW b \in Int
  PROVE  Plus(Plus(t, a), b) = Plus(t, a + b)
<1> DEFINE x == t + a
           y == (x % TtiMod) + b
           z == t + (a + b)
<1>1. x \in Int /\ x % TtiMod \in Int /\ y \in Int /\ z \in Int
  BY Constants, Division DEF Tti
<1>2. x = TtiMod * (x \div TtiMod) + (x % TtiMod) /\ (x \div TtiMod) \in Int
  BY <1>1, Constants, Division
<1>3. /\ y = TtiMod * (y \div TtiMod) + (y % TtiMod) /\ (y \div TtiMod) \in Int
      /\ y % TtiMod \in 0 .. TtiMod - 1
  BY <1>1, Constants, Division
<1>4. /\ z = TtiMod * (z \div TtiMod) + (z % TtiMod) /\ (z \div TtiMod) \in Int
      /\ z % TtiMod \in 0 .. TtiMod - 1
  BY <1>1, Constants, Division
<1> DEFINE p == (x \div TtiMod) + (y \div TtiMod)
           q == z \div TtiMod
<1>5. z = x + b
  BY Constants DEF Tti
<1>6. p \in Int /\ q \in Int /\ TtiMod * p + (y % TtiMod) = TtiMod * q + (z % TtiMod)
  BY <1>1, <1>2, <1>3, <1>4, <1>5, Constants DEF Tti
<1> DEFINE r == y % TtiMod
           s == z % TtiMod
<1>7. p \in Int /\ q \in Int /\ r \in 0 .. TtiMod - 1 /\ s \in 0 .. TtiMod - 1 /\ TtiMod * p + r = TtiMod * q + s
  BY <1>3, <1>4, <1>6
<1>8. r = s
  <2> HIDE DEF p, q, r, s
  <2> QED  BY <1>7, Constants, RemainderUnique
<1> QED  BY <1>8 DEF Plus

\* Fewer than TtiMod TTIs in a row are all different.
LEMMA PlusInjective ==
  ASSUME NEW t \in Tti, NEW a \in 0 .. TtiMod - 1, NEW b \in 0 .. TtiMod - 1,
         Plus(t, a) = Plus(t, b)
  PROVE  a = b
<1> DEFINE x == t + a
           y == t + b
<1>1. x \in Int /\ y \in Int /\ x % TtiMod = y % TtiMod /\ x - y = a - b
  BY Constants DEF Plus, Tti
<1>2. x = TtiMod * (x \div TtiMod) + (x % TtiMod) /\ (x \div TtiMod) \in Int
  BY <1>1, Constants, Division
<1>3. y = TtiMod * (y \div TtiMod) + (y % TtiMod) /\ (y \div TtiMod) \in Int
  BY <1>1, Constants, Division
<1>4. x % TtiMod \in Int
  BY <1>1, Constants, Division
<1> DEFINE p == x \div TtiMod
           q == y \div TtiMod
<1>5. TtiMod * p - TtiMod * q = a - b
  BY <1>1, <1>2, <1>3, <1>4, Constants
<1>6. TtiMod * p + b = TtiMod * q + a
  BY <1>5, <1>2, <1>3, Constants
<1> HIDE DEF p, q
<1>7. p \in Int /\ q \in Int
  BY <1>2, <1>3 DEF p, q
<1> QED  BY <1>6, <1>7, Constants, RemainderUnique

-----------------------------------------------------------------------------
(* Types                                                                   *)

LEMMA ListType ==
  ASSUME NEW S \in SUBSET Ues, NEW list \in GrantLists(S)
  PROVE  list \in Seq(Ues)
BY DEF GrantLists

LEMMA NotAGrantList ==
  ASSUME NEW S, S \subseteq Ues \cup {0}
  PROVE  NotSaved \notin Seq(S)
<1> SUFFICES ASSUME NotSaved \in Seq(S) PROVE FALSE
  OBVIOUS
<1>1. Len(NotSaved) = 1 /\ NotSaved[1] = -1
  BY DEF NotSaved
<1>2. NotSaved[1] \in S
  BY <1>1, ElementOfSeq
<1> QED  BY <1>1, <1>2, UesAssumption

\* Crossing out a UE's grants leaves the lists that are not there as they are.
LEMMA CrossedOut ==
  ASSUME NEW s \in GrantList \cup {NotSaved}, NEW u \in Ues
  PROVE  LET c == [i \in DOMAIN s |-> IF s[i] = u THEN 0 ELSE s[i]]
         IN  /\ s \in GrantList => c \in GrantList
             /\ s = NotSaved => c = NotSaved
             /\ c = NotSaved => s = NotSaved
<1> DEFINE c == [i \in DOMAIN s |-> IF s[i] = u THEN 0 ELSE s[i]]
<1>1. ASSUME s \in GrantList PROVE c \in GrantList
  BY <1>1 DEF GrantList
<1>2. ASSUME s = NotSaved PROVE c = NotSaved
  <2>1. DOMAIN s = {1} /\ s[1] = -1
    BY <1>2 DEF NotSaved
  <2>2. c = [i \in {1} |-> -1]
    BY <2>1, UesAssumption
  <2> QED  BY <2>2 DEF NotSaved
<1>3. ASSUME s \in GrantList PROVE c # NotSaved
  BY <1>1, <1>3, NotAGrantList DEF GrantList
<1> QED  BY <1>1, <1>2, <1>3

LEMMA TypeStep ==
  ASSUME TypeInv, OwnerInv, [Next]_vars
  PROVE  TypeInv'
<1> USE DEF TypeInv, AtWork
<1>1. CASE TxrxClaim
  <2>1. Plus(tti, 1) \in Tti
    BY Constants, PlusType
  <2> QED  BY <1>1, <2>1 DEF TxrxClaim, stackVars
<1>2. CASE TxrxStart
  <2>1. mine \in Worker
    BY <1>2 DEF OwnerInv, TxrxStart
  <2> QED  BY <1>2, <2>1 DEF TxrxStart, stackVars
<1>3. CASE TxrxTick
  BY <1>3 DEF TxrxTick, stackVars
<1>4. ASSUME NEW w \in Worker, GetUlGrants(w) PROVE TypeInv'
  BY <1>4 DEF GetUlGrants, Step, stackVars
<1>5. ASSUME NEW w \in Worker, WorkUl(w) PROVE TypeInv'
  <2>1. << >> \in GrantList
    BY DEF GrantList
  <2> QED  BY <1>5, <2>1 DEF WorkUl, Step, stackVars
<1>6. ASSUME NEW w \in Worker, GetDlSched(w) PROVE TypeInv'
  <2>1. PICK list \in GrantLists(schedDb) : tx' = [tx EXCEPT ![w] = list]
    BY <1>6 DEF GetDlSched
  <2>2. list \in Seq(Ues)
    BY ListType
  <2> QED  BY <1>6, <2>1, <2>2 DEF GetDlSched, Step, stackVars
<1>7. ASSUME NEW w \in Worker, GetUlSched(w) PROVE TypeInv'
  <2>1. PICK list \in GrantLists(Ran(tx[w]) \cap macDb) : tx' = [tx EXCEPT ![w] = list]
    BY <1>7 DEF GetUlSched
  <2>2. list \in Seq(Ues)
    BY ListType
  <2> QED  BY <1>7, <2>1, <2>2 DEF GetUlSched, Step, stackVars
<1>8. ASSUME NEW w \in Worker, SaveGrants(w) PROVE TypeInv'
  <2>1. tx[w] \in GrantList
    BY DEF GrantList
  <2>2. << >> \in Seq(Ues)
    OBVIOUS
  <2> QED  BY <1>8, <2>1, <2>2 DEF SaveGrants, Step, stackVars
<1>9. ASSUME NEW w \in Worker, WorkerEnd(w) PROVE TypeInv'
  BY <1>9 DEF WorkerEnd, Step, stackVars
<1>10. ASSUME NEW w \in Worker, Finished(w) PROVE TypeInv'
  BY <1>10 DEF Finished, Step, stackVars, phyVars
<1>11. CASE StackTick \/ TimersDone \/ TickDone \/ \E u \in Ues : RemoveUe(u)
  BY <1>11 DEF StackTick, TimersDone, TickDone, RemoveUe, phyVars
<1>12. CASE StartRemoval
  BY <1>12 DEF StartRemoval, Expired, phyVars
<1>13. CASE ClaimWorker
  BY <1>13 DEF ClaimWorker, phyVars
<1>14. CASE RemoveFromWorker
  <2>1. status' \in [Worker -> {"idle", "ready", "work"}]
    BY <1>14 DEF RemoveFromWorker
  <2>2. rem' \in [ue : Ues \cup {0}, w : Int]
    <3>1. rem' = [rem EXCEPT !.w = rem.w + 1] /\ rem.w + 1 \in Int
      BY <1>14 DEF RemoveFromWorker
    <3> QED  BY <3>1
  <2>3. stack' \in {"claim", "clear"}
    BY <1>14 DEF RemoveFromWorker
  <2> QED  BY <1>14, <2>1, <2>2, <2>3 DEF RemoveFromWorker, phyVars
<1>15. CASE ClearGrants
  <2>1. rem.ue \in Ues
    BY <1>15 DEF ClearGrants, OwnerInv
  <2>2. ASSUME NEW t \in Tti PROVE ulGrants'[t] \in GrantList \cup {NotSaved}
    <3>1. ulGrants'[t] = [i \in DOMAIN ulGrants[t] |->
                            IF ulGrants[t][i] = rem.ue THEN 0 ELSE ulGrants[t][i]]
      BY <1>15 DEF ClearGrants
    <3>2. ulGrants[t] \in GrantList \cup {NotSaved}
      OBVIOUS
    <3> QED  BY <2>1, <3>1, <3>2, CrossedOut
  <2>3. ulGrants' \in [Tti -> GrantList \cup {NotSaved}]
    BY <1>15, <2>2 DEF ClearGrants
  <2> QED  BY <1>15, <2>3 DEF ClearGrants, phyVars
<1>16. CASE EraseUe
  BY <1>16 DEF EraseUe, NoRem, NoWorker, phyVars
<1>17. CASE UNCHANGED vars
  BY <1>17 DEF vars, phyVars, stackVars
<1> QED
  BY <1>1, <1>2, <1>3, <1>4, <1>5, <1>6, <1>7, <1>8, <1>9, <1>10, <1>11, <1>12,
     <1>13, <1>14, <1>15, <1>16, <1>17 DEF Next, Work

-----------------------------------------------------------------------------
(* Who has which worker                                                    *)

LEMMA OwnerStep ==
  ASSUME TypeInv, OwnerInv, [Next]_vars
  PROVE  OwnerInv'
<1> USE DEF TypeInv, OwnerInv
<1>1. CASE TxrxClaim
  BY <1>1 DEF TxrxClaim, stackVars
<1>2. CASE TxrxStart
  BY <1>2 DEF TxrxStart, stackVars
<1>3. CASE TxrxTick
  BY <1>3 DEF TxrxTick, stackVars
<1>4. ASSUME NEW w \in Worker, NEW from \in AtWork, NEW to \in AtWork \cup {"finish"},
             Step(w, from, to), UNCHANGED <<txrx, mine, status, stack, rem>>
      PROVE  OwnerInv'
  BY <1>4 DEF Step, AtWork
<1>5. ASSUME NEW w \in Worker, Work(w), ~ Finished(w)
      PROVE  OwnerInv'
  <2>1. /\ \E from \in AtWork, to \in AtWork \cup {"finish"} : Step(w, from, to)
        /\ UNCHANGED <<txrx, mine, status, stack, rem>>
    BY <1>5 DEF Work, GetUlGrants, WorkUl, GetDlSched, GetUlSched, SaveGrants,
                WorkerEnd, AtWork, stackVars
  <2> QED  BY <1>4, <2>1
<1>6. ASSUME NEW w \in Worker, Finished(w) PROVE OwnerInv'
  BY <1>6 DEF Finished, Step, stackVars, phyVars
<1>7. CASE StackTick \/ TimersDone \/ TickDone \/ \E u \in Ues : RemoveUe(u)
  BY <1>7 DEF StackTick, TimersDone, TickDone, RemoveUe, phyVars
<1>8. CASE StartRemoval
  <2>1. 0 \in Worker
    BY Constants DEF Worker
  <2>2. rem' \in [ue : Ues, w : Worker]
    BY <1>8, <2>1 DEF StartRemoval, Expired
  <2> QED  BY <1>8, <2>2 DEF StartRemoval, phyVars
<1>9. CASE ClaimWorker
  BY <1>9 DEF ClaimWorker, CanClaim, phyVars
<1>10. CASE RemoveFromWorker
  <2>1. rem.ue \in Ues /\ rem.w \in Worker /\ status[rem.w] = "ready"
    BY <1>10 DEF RemoveFromWorker
  <2>2. rem' = [rem EXCEPT !.w = rem.w + 1] /\ status' = [status EXCEPT ![rem.w] = "idle"]
    BY <1>10 DEF RemoveFromWorker
  <2>3. rem'.ue \in Ues /\ rem'.w = rem.w + 1
    BY <2>1, <2>2
  <2>4. stack' = "claim" => rem' \in [ue : Ues, w : Worker]
    <3>1. stack' = "claim" => rem.w + 1 \in Worker
      BY <1>10, <2>1, Constants DEF RemoveFromWorker, Worker
    <3> QED  BY <2>1, <2>2, <3>1
  <2>5. stack' \in {"claim", "clear"}
    BY <1>10 DEF RemoveFromWorker
  <2>6. \A w \in Worker : pc'[w] # "wait" => status'[w] = "work"
    BY <1>10, <2>1, <2>2 DEF RemoveFromWorker, phyVars
  <2>7. txrx' = "start" => mine' \in Worker /\ status'[mine'] = "ready"
    BY <1>10, <2>1, <2>2 DEF RemoveFromWorker, phyVars
  <2> QED  BY <2>3, <2>4, <2>5, <2>6, <2>7
<1>11. CASE ClearGrants
  BY <1>11 DEF ClearGrants, phyVars
<1>12. CASE EraseUe
  BY <1>12 DEF EraseUe, phyVars
<1>13. CASE UNCHANGED vars
  BY <1>13 DEF vars, phyVars, stackVars
<1> QED
  BY <1>1, <1>2, <1>3, <1>5, <1>6, <1>7, <1>8, <1>9, <1>10, <1>11, <1>12, <1>13
  DEF Next, Work

-----------------------------------------------------------------------------
(* The workers of the semaphore                                            *)

\* No worker is twice in the semaphore, so the pool bounds its length.
LEMMA FifoFits ==
  ASSUME NEW q \in Seq(Worker),
         \A i, j \in 1 .. Len(q) : q[i] = q[j] => i = j
  PROVE  Len(q) <= NofWorkers
<1>1. Len(q) \in Nat /\ q \in Injection(1 .. Len(q), Worker)
  BY DEF Injection, IsInjective
<1>2. IsFiniteSet(Worker) /\ Cardinality(Worker) = NofWorkers
  BY Constants, FS_Interval DEF Worker
<1>3. Cardinality(1 .. Len(q)) = Len(q)
  BY SMTT(30), <1>1, FS_Interval
<1> QED  BY <1>1, <1>2, <1>3, FS_Injection

LEMMA FifoStep ==
  ASSUME TypeInv, OwnerInv, FifoInv, [Next]_vars
  PROVE  FifoInv'
<1> DEFINE n == Len(fifo)
<1>0. n \in Nat /\ \A i \in 1 .. n : fifo[i] \in Worker
  BY DEF TypeInv
<1>1. CASE TxrxClaim
  <2>1. n \in Int /\ Plus(Plus(sentTti, n), 1) = Plus(sentTti, n + 1)
    BY <1>0, PlusPlus DEF TypeInv
  <2>2. tti' = Plus(sentTti, n + 1) /\ txrx' = "start"
    <3>1. tti = Plus(sentTti, n + 0)
      BY <1>1 DEF FifoInv, TxrxClaim
    <3> QED  BY <1>0, <1>1, <2>1, <3>1 DEF TxrxClaim
  <2> QED  BY <1>1, <2>2 DEF FifoInv, TxrxClaim
<1>2. CASE TxrxStart
  <2>1. mine \in Worker /\ pc[mine] = "wait"
    BY <1>2 DEF TxrxStart, OwnerInv
  <2>2. /\ Len(fifo') = n + 1 /\ fifo'[n + 1] = mine
        /\ \A i \in 1 .. n : fifo'[i] = fifo[i]
    BY <1>2, <1>0, <2>1 DEF TxrxStart, TypeInv
  <2>3. \A i \in 1 .. n : fifo[i] # mine
    BY <2>1 DEF FifoInv, AtWork
  <2>4. \A i \in 1 .. n + 1 : i \in 1 .. n \/ i = n + 1
    BY <1>0
  <2>5. pc' = [pc EXCEPT ![mine] = "begin"] /\ wTti' = [wTti EXCEPT ![mine] = tti]
    BY <1>2 DEF TxrxStart
  <2>6. tti = Plus(sentTti, n + 1) /\ tti' = tti /\ sentTti' = sentTti /\ txrx' = "tick"
    BY <1>2 DEF TxrxStart, FifoInv
  <2>7. \A i, j \in 1 .. Len(fifo') : fifo'[i] = fifo'[j] => i = j
    BY <2>2, <2>3, <2>4 DEF FifoInv
  <2>8. ASSUME NEW i \in 1 .. Len(fifo') PROVE pc'[fifo'[i]] \in AtWork
    <3>1. CASE i \in 1 .. n
      <4>1. fifo'[i] = fifo[i] /\ fifo[i] \in Worker /\ fifo[i] # mine
        BY <1>0, <2>2, <2>3, <3>1
      <4>2. pc[fifo[i]] \in AtWork
        BY <3>1 DEF FifoInv
      <4> QED  BY <2>5, <4>1, <4>2 DEF TypeInv
    <3>2. CASE i = n + 1
      BY <2>1, <2>2, <2>5, <3>2 DEF TypeInv, AtWork
    <3> QED  BY <2>2, <2>4, <3>1, <3>2
  <2>9. ASSUME NEW w \in Worker, pc'[w] \in AtWork
        PROVE  \E i \in 1 .. Len(fifo') : fifo'[i] = w
    <3>1. CASE w = mine
      BY <1>0, <2>2, <3>1
    <3>2. CASE w # mine
      <4>1. PICK i \in 1 .. n : fifo[i] = w
        BY <2>5, <2>9, <3>2 DEF FifoInv, TypeInv
      <4> QED  BY <1>0, <2>2, <4>1
    <3> QED  BY <3>1, <3>2
  <2>10. ASSUME NEW i \in 1 .. Len(fifo') PROVE wTti'[fifo'[i]] = Plus(sentTti', i)
    <3>1. CASE i \in 1 .. n
      <4>1. fifo'[i] = fifo[i] /\ fifo[i] \in Worker /\ fifo[i] # mine
        BY <1>0, <2>2, <2>3, <3>1
      <4>2. wTti[fifo[i]] = Plus(sentTti, i)
        BY <3>1 DEF FifoInv
      <4> QED  BY <2>5, <2>6, <4>1, <4>2 DEF TypeInv
    <3>2. CASE i = n + 1
      BY <2>1, <2>2, <2>5, <2>6, <3>2 DEF TypeInv
    <3> QED  BY <2>2, <2>4, <3>1, <3>2
  <2>11. tti' = Plus(sentTti', Len(fifo') + 0)
    BY <1>0, <2>2, <2>6
  <2> QED  BY <2>6, <2>7, <2>8, <2>9, <2>10, <2>11 DEF FifoInv
<1>3. CASE TxrxTick
  BY <1>3 DEF TxrxTick, FifoInv
<1>4. ASSUME NEW w \in Worker, NEW from \in AtWork, NEW to \in AtWork,
             Step(w, from, to), UNCHANGED <<fifo, wTti, sentTti, tti, txrx>>
      PROVE  FifoInv'
  <2>1. \A v \in Worker : pc'[v] \in AtWork <=> pc[v] \in AtWork
    BY <1>4 DEF Step, TypeInv
  <2> QED  BY <1>0, <1>4, <2>1 DEF FifoInv
<1>5. ASSUME NEW w \in Worker, Work(w), ~ WorkerEnd(w), ~ Finished(w)
      PROVE  FifoInv'
  <2>1. /\ \E from \in AtWork, to \in AtWork : Step(w, from, to)
        /\ UNCHANGED <<fifo, wTti, sentTti, tti, txrx>>
    BY <1>5 DEF Work, GetUlGrants, WorkUl, GetDlSched, GetUlSched, SaveGrants, AtWork
  <2> QED  BY <1>4, <2>1
<1>6. ASSUME NEW w \in Worker, WorkerEnd(w) PROVE FifoInv'
  <2>1. pc[w] = "end" /\ pc' = [pc EXCEPT ![w] = "finish"]
    BY <1>6 DEF WorkerEnd, Step
  <2>2. n >= 1 /\ fifo[1] = w
    BY <1>0, <1>6, <2>1 DEF WorkerEnd, InTurn, FifoInv, AtWork, TypeInv
  <2>3. /\ Len(fifo') = n - 1
        /\ \A i \in 1 .. n - 1 : fifo'[i] = fifo[i + 1]
    BY <1>0, <1>6, <2>2 DEF WorkerEnd, TypeInv
  <2>4. \A i \in 1 .. n - 1 : i + 1 \in 1 .. n /\ i + 1 # 1
    BY <1>0
  <2>5. \A i \in 1 .. n - 1 : fifo'[i] # w
    BY <2>2, <2>3, <2>4, <1>0 DEF FifoInv
  <2>6. sentTti' = Plus(sentTti, 1)
    BY <1>6, <1>0, <2>2 DEF WorkerEnd, FifoInv
  <2>7. \A i \in Int : Plus(sentTti', i) = Plus(sentTti, 1 + i)
    BY <2>6, PlusPlus DEF TypeInv
  <2>8. UNCHANGED <<wTti, tti, txrx>>
    BY <1>6 DEF WorkerEnd
  <2>9. \A i, j \in 1 .. Len(fifo') : fifo'[i] = fifo'[j] => i = j
    BY SMTT(30), <1>0, <2>3, <2>4 DEF FifoInv
  <2>10. ASSUME NEW i \in 1 .. Len(fifo') PROVE pc'[fifo'[i]] \in AtWork
    <3>1. fifo'[i] = fifo[i + 1] /\ i + 1 \in 1 .. n /\ fifo'[i] # w
      BY <1>0, <2>3, <2>4, <2>5
    <3>2. pc[fifo[i + 1]] \in AtWork /\ fifo[i + 1] \in Worker
      BY <1>0, <3>1 DEF FifoInv
    <3> QED  BY <2>1, <3>1, <3>2 DEF TypeInv
  <2>11. ASSUME NEW v \in Worker, pc'[v] \in AtWork
         PROVE  \E i \in 1 .. Len(fifo') : fifo'[i] = v
    <3>1. v # w /\ pc[v] \in AtWork
      BY <2>1, <2>11 DEF AtWork, TypeInv
    <3>2. PICK i \in 1 .. n : fifo[i] = v
      BY <3>1 DEF FifoInv
    <3>3. i # 1
      BY <2>2, <3>1, <3>2
    <3>4. i - 1 \in 1 .. Len(fifo') /\ (i - 1) + 1 = i
      BY <1>0, <2>3, <3>3
    <3> QED  BY <2>3, <3>2, <3>4
  <2>12. ASSUME NEW i \in 1 .. Len(fifo')
         PROVE  wTti'[fifo'[i]] = Plus(sentTti', i)
    <3>1. fifo'[i] = fifo[i + 1] /\ i + 1 \in 1 .. n /\ i + 1 = 1 + i /\ i \in Int
      BY <1>0, <2>3, <2>4
    <3>2. wTti[fifo[i + 1]] = Plus(sentTti, i + 1)
      BY <3>1 DEF FifoInv
    <3> QED  BY <2>7, <2>8, <3>1, <3>2
  <2>13. tti' = Plus(sentTti', Len(fifo') + (IF txrx' = "start" THEN 1 ELSE 0))
    <3> DEFINE d == IF txrx = "start" THEN 1 ELSE 0
    <3>1. d \in Int /\ tti = Plus(sentTti, n + d)
      BY DEF FifoInv
    <3>2. (n - 1) + d \in Int /\ 1 + ((n - 1) + d) = n + d
      BY <1>0, <3>1
    <3> QED  BY <2>3, <2>7, <2>8, <3>1, <3>2
  <2> QED  BY <2>9, <2>10, <2>11, <2>12, <2>13 DEF FifoInv
<1>7. ASSUME NEW w \in Worker, Finished(w) PROVE FifoInv'
  <2>1. \A v \in Worker : pc'[v] \in AtWork <=> pc[v] \in AtWork
    BY <1>7 DEF Finished, Step, TypeInv, AtWork
  <2> QED  BY <1>0, <1>7, <2>1 DEF Finished, FifoInv, phyVars
<1>8. CASE \/ StackTick \/ TimersDone \/ TickDone \/ StartRemoval \/ ClaimWorker
           \/ RemoveFromWorker \/ ClearGrants \/ EraseUe \/ UNCHANGED vars
           \/ \E u \in Ues : RemoveUe(u)
  <2>1. UNCHANGED phyVars /\ UNCHANGED pc
    BY <1>8 DEF StackTick, TimersDone, TickDone, StartRemoval, ClaimWorker,
                RemoveFromWorker, ClearGrants, EraseUe, RemoveUe, vars
  <2> QED  BY <2>1 DEF phyVars, FifoInv
<1> QED
  BY <1>1, <1>2, <1>3, <1>5, <1>6, <1>7, <1>8 DEF Next

-----------------------------------------------------------------------------
(* The grants                                                              *)

LEMMA InOrderStep ==
  ASSUME TypeInv, FifoInv, [Next]_vars
  PROVE  sentTti' = Plus(sentTti, 1) \/ sentTti' = sentTti
<1>1. ASSUME NEW w \in Worker, WorkerEnd(w) PROVE sentTti' = Plus(sentTti, 1)
  <2>1. PICK i \in 1 .. Len(fifo) : fifo[i] = w
    BY <1>1 DEF WorkerEnd, Step, FifoInv, AtWork
  <2>2. 1 \in 1 .. Len(fifo) /\ fifo[1] = w
    BY <1>1, <2>1 DEF WorkerEnd, InTurn, TypeInv
  <2> QED  BY <1>1, <2>2 DEF WorkerEnd, FifoInv
<1>2. ASSUME ~ \E w \in Worker : WorkerEnd(w) PROVE sentTti' = sentTti
  BY <1>2 DEF Next, Work, TxrxClaim, TxrxStart, TxrxTick, GetUlGrants, WorkUl,
              GetDlSched, GetUlSched, SaveGrants, Finished, StackTick, TimersDone,
              TickDone, StartRemoval, ClaimWorker, RemoveFromWorker, ClearGrants,
              EraseUe, RemoveUe, vars, phyVars
<1> QED  BY <1>1, <1>2

\* The worker of the next TTI but i - 1 is the i-th of the semaphore.
LEMMA PlaceOf ==
  ASSUME TypeInv, FifoInv, NEW w \in Worker, pc[w] \in AtWork
  PROVE  \E i \in 1 .. NofWorkers :
           i <= Len(fifo) /\ fifo[i] = w /\ wTti[w] = Plus(sentTti, i)
<1>1. PICK i \in 1 .. Len(fifo) : fifo[i] = w
  BY DEF FifoInv
<1>2. Len(fifo) \in Nat /\ Len(fifo) <= NofWorkers
  BY FifoFits DEF TypeInv, FifoInv
<1>3. i \in 1 .. NofWorkers /\ i <= Len(fifo)
  BY <1>2, Constants
<1> QED  BY <1>1, <1>3 DEF FifoInv

LEMMA GrantsAreSaved ==
  ASSUME TypeInv, FifoInv, SavedInv
  PROVE  GrantsSaved
<1> SUFFICES ASSUME NEW w \in Worker, pc[w] = "begin"
             PROVE  ulGrants[wTti[w]] # NotSaved
  BY DEF GrantsSaved
<1>1. PICK i \in 1 .. NofWorkers :
        i <= Len(fifo) /\ fifo[i] = w /\ wTti[w] = Plus(sentTti, i)
  BY PlaceOf DEF AtWork
<1>2. i \in 1 .. Delay
  BY Constants
<1> QED  BY <1>1, <1>2 DEF SavedInv

LEMMA SavedStep ==
  ASSUME TypeInv, OwnerInv, FifoInv, FifoInv', SavedInv, [Next]_vars
  PROVE  SavedInv'
<1> DEFINE n == Len(fifo)
<1>0. /\ n \in Nat /\ n <= NofWorkers
      /\ \A i \in 1 .. n : fifo[i] \in Worker /\ i \in 1 .. NofWorkers
      /\ sentTti \in Tti
  <2>1. n \in Nat /\ n <= NofWorkers
    BY FifoFits DEF TypeInv, FifoInv
  <2>2. \A i \in 1 .. n : i \in 1 .. NofWorkers
    BY <2>1, Constants
  <2> QED  BY <2>1, <2>2 DEF TypeInv
<1>1. /\ \A k \in 1 .. Delay : k \in 0 .. TtiMod - 1
      /\ \A i \in 1 .. NofWorkers :
           /\ i \in 0 .. TtiMod - 1 /\ i \in 1 .. Delay
           /\ i + Delay \in 0 .. TtiMod - 1 /\ i + Delay \in Int
           /\ \A k \in 1 .. Delay : i + Delay # k
  BY Constants
<1>2. \A k \in 1 .. Delay : Plus(sentTti, k) \in Tti
  BY <1>0, PlusType
<1>3. \A i \in 1 .. NofWorkers : Plus(sentTti, i + Delay) \in Tti
  BY <1>0, <1>1, PlusType
<1>10. ASSUME UNCHANGED <<fifo, sentTti, pc, ulGrants>> PROVE SavedInv'
  BY <1>10 DEF SavedInv
<1>11. CASE TxrxStart
  <2>1. mine \in Worker /\ pc[mine] = "wait"
    BY <1>11 DEF TxrxStart, OwnerInv
  <2>2. /\ Len(fifo') = n + 1 /\ fifo'[n + 1] = mine
        /\ \A i \in 1 .. n : fifo'[i] = fifo[i]
    BY <1>11, <1>0, <2>1 DEF TxrxStart, TypeInv
  <2>3. \A i \in 1 .. n : fifo[i] # mine
    BY <2>1 DEF FifoInv, AtWork
  <2>4. pc' = [pc EXCEPT ![mine] = "begin"] /\ UNCHANGED <<ulGrants, sentTti>>
    BY <1>11 DEF TxrxStart
  <2>5. \A i \in 1 .. n : pc'[fifo'[i]] = pc[fifo[i]]
    BY <1>0, <2>2, <2>3, <2>4 DEF TypeInv
  <2>6. pc'[fifo'[n + 1]] = "begin"
    BY <2>1, <2>2, <2>4 DEF TypeInv
  <2>7. ASSUME NEW k \in 1 .. Delay
        PROVE  \/ ulGrants'[Plus(sentTti', k)] # NotSaved
               \/ k <= Len(fifo') /\ pc'[fifo'[k]] # "begin"
    <3>1. CASE ulGrants[Plus(sentTti, k)] # NotSaved
      BY <2>4, <3>1
    <3>2. CASE k <= n /\ pc[fifo[k]] # "begin"
      <4>1. k \in 1 .. n /\ k <= n + 1
        BY <1>0, <3>2
      <4> QED  BY <2>2, <2>5, <3>2, <4>1
    <3> QED  BY <3>1, <3>2 DEF SavedInv
  <2>8. ASSUME NEW i \in 1 .. Len(fifo'), pc'[fifo'[i]] = "end"
        PROVE  ulGrants'[Plus(sentTti', i + Delay)] # NotSaved
    <3>1. i # n + 1
      BY <2>6, <2>8
    <3>2. i \in 1 .. n
      BY <1>0, <2>2, <3>1
    <3> QED  BY <2>4, <2>5, <2>8, <3>2 DEF SavedInv
  <2> QED  BY <2>7, <2>8 DEF SavedInv
<1>12. ASSUME NEW w \in Worker, GetUlGrants(w) PROVE SavedInv'
  <2>1. PICK p \in 1 .. NofWorkers : p <= n /\ fifo[p] = w /\ wTti[w] = Plus(sentTti, p)
    BY <1>12, PlaceOf DEF GetUlGrants, Step, AtWork
  <2>2. /\ pc' = [pc EXCEPT ![w] = "decode"] /\ pc[w] = "begin"
        /\ ulGrants' = [ulGrants EXCEPT ![Plus(sentTti, p)] = NotSaved]
        /\ UNCHANGED <<fifo, sentTti>>
    BY <1>12, <2>1 DEF GetUlGrants, Step
  <2>3. ASSUME NEW k \in 1 .. Delay
        PROVE  \/ ulGrants'[Plus(sentTti, k)] # NotSaved
               \/ k <= n /\ pc'[fifo[k]] # "begin"
    <3>1. CASE k = p
      BY <2>1, <2>2, <3>1 DEF TypeInv
    <3>2. CASE k # p
      <4>1. Plus(sentTti, k) # Plus(sentTti, p)
        BY <1>0, <1>1, <3>2, PlusInjective
      <4>2. ulGrants'[Plus(sentTti, k)] = ulGrants[Plus(sentTti, k)]
        BY <1>2, <2>2, <4>1 DEF TypeInv
      <4>3. k <= n => k \in 1 .. n /\ fifo[k] \in Worker
        BY <1>0
      <4>4. k <= n => pc'[fifo[k]] = pc[fifo[k]] \/ pc'[fifo[k]] = "decode"
        BY <2>2, <4>3 DEF TypeInv
      <4> QED  BY <4>2, <4>4 DEF SavedInv
    <3> QED  BY <3>1, <3>2
  <2>4. ASSUME NEW i \in 1 .. n, pc'[fifo[i]] = "end"
        PROVE  ulGrants'[Plus(sentTti, i + Delay)] # NotSaved
    <3>1. pc[fifo[i]] = "end"
      BY <1>0, <2>2, <2>4 DEF TypeInv
    <3>2. i \in 1 .. NofWorkers /\ p \in 1 .. Delay
      BY <1>0, <1>1
    <3>3. Plus(sentTti, i + Delay) # Plus(sentTti, p)
      BY <1>0, <1>1, <3>2, PlusInjective
    <3>4. ulGrants'[Plus(sentTti, i + Delay)] = ulGrants[Plus(sentTti, i + Delay)]
      BY <1>3, <2>2, <3>2, <3>3 DEF TypeInv
    <3> QED  BY <3>1, <3>4 DEF SavedInv
  <2> QED  BY <2>2, <2>3, <2>4 DEF SavedInv
<1>13. ASSUME NEW w \in Worker, SaveGrants(w) PROVE SavedInv'
  <2>1. PICK p \in 1 .. NofWorkers : p <= n /\ fifo[p] = w /\ wTti[w] = Plus(sentTti, p)
    BY <1>13, PlaceOf DEF SaveGrants, Step, AtWork
  <2>2. Plus(wTti[w], Delay) = Plus(sentTti, p + Delay)
    BY <1>0, <1>1, <2>1, Constants, PlusPlus
  <2>3. /\ pc' = [pc EXCEPT ![w] = "end"] /\ pc[w] = "save"
        /\ ulGrants' = [ulGrants EXCEPT ![Plus(sentTti, p + Delay)] = tx[w]]
        /\ UNCHANGED <<fifo, sentTti>>
    BY <1>13, <2>2 DEF SaveGrants, Step
  <2>4. tx[w] # NotSaved
    <3>1. tx[w] \in Seq(Ues) /\ Ues \subseteq Ues \cup {0}
      BY DEF TypeInv
    <3> QED  BY <3>1, NotAGrantList
  <2>5. \A t \in Tti : ulGrants[t] # NotSaved => ulGrants'[t] # NotSaved
    BY <2>3, <2>4 DEF TypeInv
  <2>6. ASSUME NEW k \in 1 .. Delay
        PROVE  \/ ulGrants'[Plus(sentTti, k)] # NotSaved
               \/ k <= n /\ pc'[fifo[k]] # "begin"
    <3>1. k <= n => k \in 1 .. n /\ fifo[k] \in Worker
      BY <1>0
    <3>2. k <= n => pc'[fifo[k]] = pc[fifo[k]] \/ pc'[fifo[k]] = "end"
      BY <2>3, <3>1 DEF TypeInv
    <3> QED  BY <1>2, <2>5, <3>2 DEF SavedInv
  <2>7. ASSUME NEW i \in 1 .. n, pc'[fifo[i]] = "end"
        PROVE  ulGrants'[Plus(sentTti, i + Delay)] # NotSaved
    <3>1. i \in 1 .. NofWorkers
      BY <1>0
    <3>2. CASE i = p
      BY <1>3, <2>3, <2>4, <3>1, <3>2 DEF TypeInv
    <3>3. CASE i # p
      <4>1. fifo[i] # w
        BY <1>0, <2>1, <3>3 DEF FifoInv
      <4>2. pc[fifo[i]] = "end"
        BY <1>0, <2>3, <2>7, <4>1 DEF TypeInv
      <4> QED  BY <1>3, <2>5, <3>1, <4>2 DEF SavedInv
    <3> QED  BY <3>2, <3>3
  <2> QED  BY <2>3, <2>6, <2>7 DEF SavedInv
<1>14. ASSUME NEW w \in Worker, WorkUl(w) \/ GetDlSched(w) \/ GetUlSched(w)
       PROVE  SavedInv'
  <2>1. /\ UNCHANGED <<fifo, sentTti, ulGrants>>
        /\ pc[w] # "begin" /\ pc' \in {[pc EXCEPT ![w] = x] : x \in {"dl_sched", "ul_sched", "save"}}
    BY <1>14 DEF WorkUl, GetDlSched, GetUlSched, Step
  <2>2. \A v \in Worker : /\ pc'[v] = "begin" => pc[v] = "begin"
                          /\ pc'[v] = "end" => pc[v] = "end"
    BY <2>1 DEF TypeInv
  <2> QED  BY <1>0, <2>1, <2>2 DEF SavedInv
<1>15. ASSUME NEW w \in Worker, WorkerEnd(w) PROVE SavedInv'
  <2>1. PICK p \in 1 .. NofWorkers : p <= n /\ fifo[p] = w /\ wTti[w] = Plus(sentTti, p)
    BY <1>15, PlaceOf DEF WorkerEnd, Step, AtWork
  <2>2. /\ pc' = [pc EXCEPT ![w] = "finish"] /\ pc[w] = "end"
        /\ UNCHANGED ulGrants /\ 1 <= n /\ fifo[1] = w /\ fifo' = Tail(fifo)
        /\ sentTti' = wTti[w]
    BY <1>15, <2>1 DEF WorkerEnd, Step, InTurn, TypeInv
  <2>3. /\ Len(fifo') = n - 1
        /\ \A i \in 1 .. n - 1 : fifo'[i] = fifo[i + 1]
    BY <1>0, <2>2 DEF TypeInv
  <2>4. \A i \in 1 .. n - 1 : i + 1 \in 1 .. n /\ i + 1 # 1
    BY <1>0
  <2>5. ASSUME NEW i \in 1 .. n - 1 PROVE pc'[fifo'[i]] = pc[fifo[i + 1]]
    <3>1. fifo[i + 1] # w /\ fifo[i + 1] \in Worker
      BY SMTT(30), <1>0, <2>2, <2>4 DEF FifoInv
    <3> QED  BY <2>2, <2>3, <3>1 DEF TypeInv
  <2>6. sentTti' = Plus(sentTti, 1)
    BY <1>0, <2>2 DEF FifoInv
  <2>7. \A x \in Int : Plus(sentTti', x) = Plus(sentTti, 1 + x)
    BY <1>0, <2>6, PlusPlus
  <2>8. ASSUME NEW k \in 1 .. Delay
        PROVE  \/ ulGrants'[Plus(sentTti', k)] # NotSaved
               \/ k <= Len(fifo') /\ pc'[fifo'[k]] # "begin"
    <3>1. Plus(sentTti', k) = Plus(sentTti, k + 1)
      BY <2>7, Constants
    <3>2. CASE k < Delay
      <4>1. k + 1 \in 1 .. Delay
        BY <3>2, Constants
      <4>2. CASE ulGrants[Plus(sentTti, k + 1)] # NotSaved
        BY <2>2, <3>1, <4>2
      <4>3. CASE k + 1 <= n /\ pc[fifo[k + 1]] # "begin"
        <5>1. k \in 1 .. n - 1 /\ k <= Len(fifo')
          BY <1>0, <2>3, <4>3
        <5> QED  BY <2>5, <4>3, <5>1
      <4> QED  BY <4>1, <4>2, <4>3 DEF SavedInv
    <3>3. CASE k = Delay
      <4>1. 1 \in 1 .. n /\ 1 + Delay = k + 1
        BY <1>0, <2>2, <3>3, Constants
      <4>2. ulGrants[Plus(sentTti, 1 + Delay)] # NotSaved
        BY <2>2, <4>1 DEF SavedInv
      <4> QED  BY <2>2, <3>1, <4>1, <4>2
    <3> QED  BY <3>2, <3>3, Constants
  <2>9. ASSUME NEW i \in 1 .. Len(fifo'), pc'[fifo'[i]] = "end"
        PROVE  ulGrants'[Plus(sentTti', i + Delay)] # NotSaved
    <3>1. i \in 1 .. n - 1 /\ i + 1 \in 1 .. n
      BY <1>0, <2>3, <2>4
    <3>2. i + Delay \in Int /\ 1 + (i + Delay) = (i + 1) + Delay
      BY <3>1, Constants
    <3>3. ulGrants[Plus(sentTti, (i + 1) + Delay)] # NotSaved
      BY <2>5, <2>9, <3>1 DEF SavedInv
    <3> QED  BY <2>2, <2>7, <3>2, <3>3
  <2> QED  BY <2>8, <2>9 DEF SavedInv
<1>16. ASSUME NEW w \in Worker, Finished(w) PROVE SavedInv'
  <2>1. UNCHANGED <<fifo, sentTti, ulGrants>> /\ pc' = [pc EXCEPT ![w] = "wait"]
    BY <1>16 DEF Finished, Step, phyVars
  <2>2. \A v \in Worker : /\ pc'[v] = "begin" => pc[v] = "begin"
                          /\ pc'[v] = "end" => pc[v] = "end"
    BY <2>1 DEF TypeInv
  <2> QED  BY <1>0, <2>1, <2>2 DEF SavedInv
<1>17. CASE ClearGrants
  <2>1. rem.ue \in Ues
    BY <1>17 DEF ClearGrants, OwnerInv
  <2>2. ASSUME NEW t \in Tti, ulGrants[t] # NotSaved PROVE ulGrants'[t] # NotSaved
    <3>1. ulGrants'[t] = [i \in DOMAIN ulGrants[t] |->
                            IF ulGrants[t][i] = rem.ue THEN 0 ELSE ulGrants[t][i]]
      BY <1>17 DEF ClearGrants
    <3>2. ulGrants[t] \in GrantList \cup {NotSaved}
      BY DEF TypeInv
    <3> QED  BY <2>1, <2>2, <3>1, <3>2, CrossedOut
  <2>3. UNCHANGED <<fifo, sentTti, pc>>
    BY <1>17 DEF ClearGrants, phyVars
  <2> QED  BY <1>0, <1>2, <1>3, <2>2, <2>3 DEF SavedInv
<1>18. CASE \/ TxrxClaim \/ TxrxTick \/ StackTick \/ TimersDone \/ TickDone
            \/ StartRemoval \/ ClaimWorker \/ RemoveFromWorker \/ EraseUe
            \/ UNCHANGED vars \/ \E u \in Ues : RemoveUe(u)
  BY <1>10, <1>18 DEF TxrxClaim, TxrxTick, StackTick, TimersDone, TickDone,
     StartRemoval, ClaimWorker, RemoveFromWorker, EraseUe, RemoveUe, vars, phyVars
<1> QED
  BY <1>11, <1>12, <1>13, <1>14, <1>15, <1>16, <1>17, <1>18 DEF Next, Work

-----------------------------------------------------------------------------
(* The rest of TypeOK                                                      *)

LEMMA RestStep ==
  ASSUME TypeInv, OwnerInv, FifoInv, SavedInv, RestInv, [Next]_vars
  PROVE  RestInv'
<1> USE DEF RestInv
<1>1. CASE TxrxClaim \/ TxrxStart
  BY <1>1 DEF TxrxClaim, TxrxStart, stackVars
<1>2. CASE TxrxTick
  BY <1>2, QueueAssumption DEF TxrxTick, stackVars
<1>3. ASSUME NEW w \in Worker, GetUlGrants(w) PROVE RestInv'
  <2>1. ulGrants[wTti[w]] \in GrantList
    BY <1>3, GrantsAreSaved DEF GrantsSaved, GetUlGrants, Step, TypeInv
  <2> QED  BY <1>3, <2>1 DEF GetUlGrants, stackVars
<1>4. ASSUME NEW w \in Worker, WorkUl(w) PROVE RestInv'
  <2>1. << >> \in GrantList
    BY DEF GrantList
  <2> QED  BY <1>4, <2>1 DEF WorkUl, stackVars
<1>5. ASSUME NEW w \in Worker,
             \/ GetDlSched(w) \/ GetUlSched(w) \/ SaveGrants(w) \/ WorkerEnd(w)
             \/ Finished(w)
      PROVE  RestInv'
  BY <1>5 DEF GetDlSched, GetUlSched, SaveGrants, WorkerEnd, Finished, phyVars, stackVars
<1>6. CASE StackTick
  <2>1. Plus(clock, 1) \in Tti
    BY Constants, PlusType
  <2>2. ticks' \in 0 .. QueueSize
    BY <1>6, QueueAssumption DEF StackTick
  <2>3. /\ due' \in [Ues -> NoTimer .. Delay]
        /\ \A u \in Ues : due'[u] # NoTimer => due[u] # NoTimer
    BY <1>6, Constants DEF StackTick, NoTimer
  <2> QED  BY <1>6, <2>1, <2>2, <2>3 DEF StackTick, phyVars
<1>7. CASE TimersDone \/ TickDone
  BY <1>7 DEF TimersDone, TickDone, phyVars
<1>8. CASE StartRemoval
  <2>1. PICK u \in Expired : /\ rem' = [ue |-> u, w |-> 0]
                             /\ due' = [due EXCEPT ![u] = NoTimer]
    BY <1>8 DEF StartRemoval
  <2>2. u \in Ues /\ due[u] # NoTimer
    BY DEF Expired, NoTimer
  <2>3. /\ due' \in [Ues -> NoTimer .. Delay]
        /\ \A v \in Ues : due'[v] # NoTimer => due[v] # NoTimer
    BY <2>1, <2>2, Constants DEF NoTimer
  <2>4. rem'.ue \in Ues /\ rem'.w \in 0 .. NofWorkers /\ rem'.ue \notin schedDb
    BY <2>1, <2>2, Constants
  <2> QED  BY <1>8, <2>3, <2>4 DEF StartRemoval, phyVars
<1>9. CASE ClaimWorker
  BY <1>9 DEF ClaimWorker, phyVars
<1>10. CASE RemoveFromWorker
  <2>1. rem.ue \in Ues /\ rem.w \in Worker /\ rem.ue \notin schedDb
    BY <1>10 DEF RemoveFromWorker, OwnerInv
  <2>2. rem' = [rem EXCEPT !.w = rem.w + 1]
    BY <1>10 DEF RemoveFromWorker
  <2>3. rem'.ue \in Ues /\ rem'.w \in 0 .. NofWorkers /\ rem'.ue \notin schedDb
    BY <2>1, <2>2, Constants DEF Worker, TypeInv
  <2>4. known' \in [Worker -> SUBSET Ues]
    BY <1>10 DEF RemoveFromWorker
  <2> QED  BY <1>10, <2>3, <2>4 DEF RemoveFromWorker, phyVars
<1>11. CASE ClearGrants
  BY <1>11 DEF ClearGrants, phyVars
<1>12. CASE EraseUe
  BY <1>12 DEF EraseUe, phyVars
<1>13. ASSUME NEW u \in Ues, RemoveUe(u) PROVE RestInv'
  <2>1. due' \in [Ues -> NoTimer .. Delay]
    BY <1>13, Constants DEF RemoveUe, NoTimer
  <2>2. \A v \in Ues : due'[v] # NoTimer => v \notin schedDb'
    BY <1>13 DEF RemoveUe
  <2>3. schedDb' \subseteq schedDb /\ late' \subseteq Ues
    BY <1>13 DEF RemoveUe
  <2> QED  BY <1>13, <2>1, <2>2, <2>3 DEF RemoveUe, phyVars
<1>14. CASE UNCHANGED vars
  BY <1>14 DEF vars, phyVars, stackVars
<1> QED
  BY <1>1, <1>2, <1>3, <1>4, <1>5, <1>6, <1>7, <1>8, <1>9, <1>10, <1>11, <1>12,
     <1>13, <1>14 DEF Next, Work

-----------------------------------------------------------------------------
(* Grants of UEs that are being removed                                    *)

\* TTIs between the one sent last and the stack's clock (negative when the
\* stack is behind)
Ahead == Len(fifo) - ticks - (IF txrx = "tick" THEN 1 ELSE 0)

Removed == Ues \ (schedDb \cup late)

\* The grants of u may go as far as the k-th TTI from the one sent last: until
\* the timer expires they are less than due[u] + 1 TTIs ahead of the clock;
\* while u is taken out of the PHY, their workers have begun and still know it.
Within(u, k) ==
  IF due[u] = NoTimer THEN rem.ue = u /\ k <= Ahead /\ fifo[k] >= rem.w
                      ELSE k <= Ahead + due[u]

\* A grant of u saved for TTI t, which is the k-th from the one sent last, waits
\* there until the worker of that TTI has begun.
SavedFor(t, u, k) ==
  /\ t = Plus(sentTti, k)
  /\ k <= Len(fifo) => pc[fifo[k]] = "begin"
  /\ u \in Removed => Within(u, k)

\* rem is set from StartRemoval to EraseUe, and a timer that has expired runs
\* its callback in the same tick.
RemInv ==
  /\ stack \in {"idle", "timers", "rrc"} => rem = NoRem
  /\ stack \in {"clear", "erase"} => rem.w = NofWorkers
  /\ rem.ue \in Ues => due[rem.ue] = NoTimer
  /\ stack \in {"idle", "rrc"} => \A u \in Ues : due[u] # 0

\* The workers forget a UE in their order, and only when its timer has expired.
KnownInv ==
  \A w \in Worker : \A u \in Ues \ known[w] :
    u \notin schedDb /\ due[u] = NoTimer /\ (rem.ue = u => w < rem.w)

\* A grant of u that worker w has made and not saved: the worker has not been
\* asked to forget u, and if u is not in late, Delay TTIs on from its own the
\* timer of u will still run.
ScheduledFor(w, u) ==
  /\ pc[w] \in {"ul_sched", "save"}
  /\ u \in macDb
  /\ rem.ue = u => w >= rem.w
  /\ u \in Removed => /\ due[u] # NoTimer
                      /\ \A i \in 1 .. Len(fifo) :
                           fifo[i] = w => i + Delay <= Ahead + due[u]

TxInv == \A w \in Worker : \A u \in Ran(tx[w]) : ScheduledFor(w, u)

SavedGrant(t, u) ==
  /\ u \in Ues => \E k \in 1 .. Len(fifo) + Delay : SavedFor(t, u, k)
  /\ u = 0 => late # {}

UlInv == \A t \in Tti : \A u \in Ran(ulGrants[t]) : SavedGrant(t, u)

RxInv ==
  \A w \in Worker : \A u \in Ran(rx[w]) \ known[w] :
    pc[w] = "decode" => IF u = 0 THEN late # {} ELSE u \in late

FindInv ==
  clock = Plus(sentTti, Ahead) /\ RemInv /\ KnownInv /\ TxInv /\ UlInv /\ RxInv

-----------------------------------------------------------------------------
(* Where the clock and the workers are                                     *)

LEMMA FifoFacts ==
  ASSUME TypeInv, FifoInv
  PROVE  /\ Len(fifo) \in Nat /\ Len(fifo) <= NofWorkers
         /\ \A i \in 1 .. Len(fifo) : fifo[i] \in Worker /\ i \in 1 .. NofWorkers
<1>1. Len(fifo) \in Nat /\ Len(fifo) <= NofWorkers
  BY FifoFits DEF TypeInv, FifoInv
<1>2. \A i \in 1 .. Len(fifo) : i \in 1 .. NofWorkers
  BY <1>1, Constants
<1> QED  BY <1>1, <1>2 DEF TypeInv

\* The stack's clock is at most QueueSize + 1 TTIs behind the last worker.
LEMMA AheadBounds ==
  ASSUME TypeInv, FifoInv, RestInv
  PROVE  /\ Ahead \in Int /\ Ahead <= Len(fifo)
         /\ Len(fifo) - Ahead \in 0 .. TtiMod \div 2
BY FifoFacts, TtiModAssumption, QueueAssumption DEF Ahead, RestInv

LEMMA Distance ==
  ASSUME NEW c \in Tti, NEW d \in 0 .. TtiMod - 1
  PROVE  (Plus(c, d) - c) % TtiMod = d
<1> DEFINE x == c + d
           t == x % TtiMod
           y == t - c
           q == x \div TtiMod
           p == y \div TtiMod
           r == y % TtiMod
           z == 0 - q
<1>1. x \in Int /\ x = TtiMod * q + t /\ q \in Int /\ t \in Int
  BY Constants, Division DEF Tti
<1>2. y \in Int /\ y = TtiMod * p + r /\ p \in Int /\ r \in 0 .. TtiMod - 1
  <2>1. y \in Int
    <3> HIDE DEF t
    <3> QED  BY <1>1 DEF Tti
  <2> HIDE DEF y
  <2> QED  BY <2>1, Constants, Division
<1>3. y = d - TtiMod * q
  <2> HIDE DEF q, t
  <2> QED  BY <1>1, Constants DEF Tti
<1>4. z \in Int /\ TtiMod * p + r = TtiMod * z + d
  <2> HIDE DEF p, q, r, y
  <2> QED  BY <1>1, <1>2, <1>3, Constants
<1>5. r = d
  <2> HIDE DEF p, q, r, y, z
  <2>1. TtiMod \in Nat \ {0} /\ r \in 0 .. TtiMod - 1 /\ d \in 0 .. TtiMod - 1
    BY <1>2, Constants
  <2>2. p = z /\ r = d
    BY ONLY <1>2, <1>4, <2>1, RemainderUnique
  <2> QED  BY <2>2
<1> QED  BY <1>5 DEF Plus

\* GrantedAhead sees what lies between the clock and the last worker.
LEMMA Newer ==
  ASSUME NEW s \in Tti, NEW a \in Int, NEW i \in Int, i - a \in 1 .. TtiMod \div 2
  PROVE  NewerThan(Plus(s, i), Plus(s, a))
<1> DEFINE c == Plus(s, a)
<1>1. c \in Tti
  BY PlusType
<1>2. i - a \in 0 .. TtiMod - 1
  BY Constants
<1>3. Plus(c, i - a) = Plus(s, i)
  <2>1. Plus(Plus(s, a), i - a) = Plus(s, a + (i - a))
    BY PlusPlus
  <2>2. a + (i - a) = i
    OBVIOUS
  <2> QED  BY <2>1, <2>2
<1>4. (Plus(c, i - a) - c) % TtiMod = i - a
  BY <1>1, <1>2, Distance
<1> QED  BY <1>3, <1>4 DEF NewerThan

LEMMA RanFacts ==
  /\ Ran(<< >>) = {} /\ Ran(NotSaved) = {-1}
  /\ \A S : \A s \in GrantLists(S) : Ran(s) \subseteq S
  /\ -1 \notin Ues /\ 0 \notin Ues
<1>1. \A S : \A s \in GrantLists(S) : Ran(s) \subseteq S
  BY DEF GrantLists, Ran
<1>2. Ran(<< >>) = {} /\ Ran(NotSaved) = {-1}
  BY DEF Ran, NotSaved
<1> QED  BY <1>1, <1>2, UesAssumption

\* What the queue does to the workers: each of them moves up by one when the
\* first one transmits, and the new one is the last.
LEMMA Appended ==
  ASSUME TypeInv, OwnerInv, FifoInv, TxrxStart
  PROVE  /\ mine \in Worker /\ pc[mine] = "wait"
         /\ Len(fifo') = Len(fifo) + 1 /\ fifo'[Len(fifo) + 1] = mine
         /\ \A i \in 1 .. Len(fifo) :
              /\ fifo'[i] = fifo[i] /\ fifo[i] # mine
              /\ pc'[fifo[i]] = pc[fifo[i]]
         /\ pc'[mine] = "begin"
         /\ \A w \in Worker : w # mine => pc'[w] = pc[w]
<1>1. mine \in Worker /\ pc[mine] = "wait"
  BY DEF TxrxStart, OwnerInv
<1>2. /\ Len(fifo') = Len(fifo) + 1 /\ fifo'[Len(fifo) + 1] = mine
      /\ \A i \in 1 .. Len(fifo) : fifo'[i] = fifo[i]
  BY <1>1 DEF TxrxStart, TypeInv
<1>3. \A i \in 1 .. Len(fifo) : fifo[i] # mine
  BY <1>1 DEF FifoInv, AtWork
<1>4. pc' = [pc EXCEPT ![mine] = "begin"]
  BY DEF TxrxStart
<1> QED  BY <1>1, <1>2, <1>3, <1>4, FifoFacts DEF TypeInv

LEMMA MovedUp ==
  ASSUME TypeInv, FifoInv, NEW w \in Worker, WorkerEnd(w)
  PROVE  /\ Len(fifo) >= 1 /\ fifo[1] = w /\ pc[w] = "end"
         /\ Len(fifo') = Len(fifo) - 1
         /\ \A i \in 1 .. Len(fifo) - 1 : fifo'[i] = fifo[i + 1] /\ fifo'[i] # w
         /\ sentTti' = Plus(sentTti, 1)
         /\ \A x \in Int : Plus(sentTti', x) = Plus(sentTti, 1 + x)
         /\ pc' = [pc EXCEPT ![w] = "finish"]
<1> DEFINE n == Len(fifo)
<1>0. n \in Nat
  BY FifoFacts
<1>1. PICK p \in 1 .. NofWorkers : p <= n /\ fifo[p] = w /\ wTti[w] = Plus(sentTti, p)
  BY PlaceOf DEF WorkerEnd, Step, AtWork
<1>2. /\ pc' = [pc EXCEPT ![w] = "finish"] /\ pc[w] = "end"
      /\ 1 <= n /\ fifo[1] = w /\ fifo' = Tail(fifo) /\ sentTti' = wTti[w]
  BY <1>1 DEF WorkerEnd, Step, InTurn, TypeInv
<1>3. Len(fifo') = n - 1 /\ \A i \in 1 .. n - 1 : fifo'[i] = fifo[i + 1]
  BY <1>0, <1>2 DEF TypeInv
<1>4. \A i \in 1 .. n - 1 : i + 1 \in 1 .. n /\ 1 \in 1 .. n /\ i + 1 # 1
  BY <1>0
<1>5. \A i \in 1 .. n - 1 : fifo'[i] # w
  BY <1>2, <1>3, <1>4 DEF FifoInv
<1>6. sentTti' = Plus(sentTti, 1)
  BY <1>0, <1>2 DEF FifoInv
<1>7. \A x \in Int : Plus(sentTti', x) = Plus(sentTti, 1 + x)
  BY <1>6, PlusPlus DEF TypeInv
<1> QED  BY <1>2, <1>3, <1>5, <1>6, <1>7

LEMMA AheadStep ==
  ASSUME TypeInv, OwnerInv, FifoInv, RestInv
  PROVE  /\ TxrxClaim \/ TxrxStart \/ TxrxTick => Ahead' = Ahead
         /\ \A w \in Worker : WorkerEnd(w) => Ahead' = Ahead - 1
         /\ StackTick => Ahead' = Ahead + 1
<1>0. Ahead \in Int /\ Len(fifo) \in Nat /\ ticks \in Int
  BY AheadBounds, FifoFacts, QueueAssumption DEF RestInv
<1>1. ASSUME TxrxClaim \/ TxrxTick PROVE Ahead' = Ahead
  BY <1>0, <1>1 DEF Ahead, TxrxClaim, TxrxTick
<1>2. ASSUME TxrxStart PROVE Ahead' = Ahead
  <2>1. Len(fifo') = Len(fifo) + 1
    BY <1>2, Appended
  <2> QED  BY <1>0, <1>2, <2>1 DEF Ahead, TxrxStart
<1>3. ASSUME NEW w \in Worker, WorkerEnd(w) PROVE Ahead' = Ahead - 1
  <2>1. Len(fifo') = Len(fifo) - 1
    BY <1>3, MovedUp
  <2> QED  BY <1>0, <1>3, <2>1 DEF Ahead, WorkerEnd
<1>4. ASSUME StackTick PROVE Ahead' = Ahead + 1
  BY <1>0, <1>4 DEF Ahead, StackTick, phyVars
<1> QED  BY <1>1, <1>2, <1>3, <1>4

LEMMA ClockStep ==
  ASSUME TypeInv, OwnerInv, FifoInv, RestInv, clock = Plus(sentTti, Ahead),
         [Next]_vars
  PROVE  clock' = Plus(sentTti', Ahead')
<1>0. Ahead \in Int
  BY AheadBounds
<1>1. CASE TxrxClaim \/ TxrxStart \/ TxrxTick
  BY <1>1, AheadStep DEF TxrxClaim, TxrxStart, TxrxTick, stackVars
<1>2. ASSUME NEW w \in Worker, WorkerEnd(w) PROVE clock' = Plus(sentTti', Ahead')
  <2>1. /\ Ahead' = Ahead - 1 /\ Ahead - 1 \in Int /\ 1 + (Ahead - 1) = Ahead
        /\ \A x \in Int : Plus(sentTti', x) = Plus(sentTti, 1 + x)
    BY <1>0, <1>2, AheadStep, MovedUp
  <2>2. Plus(sentTti', Ahead - 1) = Plus(sentTti, Ahead)
    BY <2>1
  <2> QED  BY <1>2, <2>1, <2>2 DEF WorkerEnd, stackVars
<1>3. CASE StackTick
  <2>1. Plus(Plus(sentTti, Ahead), 1) = Plus(sentTti, Ahead + 1)
    BY <1>0, PlusPlus DEF TypeInv
  <2> QED  BY <1>3, <2>1, AheadStep DEF StackTick, phyVars
<1>4. ASSUME UNCHANGED <<fifo, ticks, txrx, clock, sentTti>>
      PROVE  clock' = Plus(sentTti', Ahead')
  BY <1>4 DEF Ahead
<1>5. ASSUME NEW w \in Worker, Work(w), ~ WorkerEnd(w)
      PROVE  UNCHANGED <<fifo, ticks, txrx, clock, sentTti>>
  BY <1>5 DEF Work, GetUlGrants, WorkUl, GetDlSched, GetUlSched, SaveGrants, Finished,
              phyVars, stackVars
<1>6. CASE \/ TimersDone \/ TickDone \/ StartRemoval \/ ClaimWorker \/ RemoveFromWorker
           \/ ClearGrants \/ EraseUe \/ UNCHANGED vars \/ \E u \in Ues : RemoveUe(u)
  BY <1>4, <1>6 DEF TimersDone, TickDone, StartRemoval, ClaimWorker, RemoveFromWorker,
                    ClearGrants, EraseUe, RemoveUe, vars, phyVars, stackVars
<1> QED  BY <1>1, <1>2, <1>3, <1>4, <1>5, <1>6 DEF Next

-----------------------------------------------------------------------------
(* The removal and what the workers know                                   *)

LEMMA RemStep ==
  ASSUME TypeInv, OwnerInv, RestInv, RemInv, [Next]_vars
  PROVE  RemInv'
<1>0. NoRem.ue \notin Ues /\ NoRem.ue = 0
  BY UesAssumption DEF NoRem
<1>1. ASSUME UNCHANGED <<stack, rem, due>> PROVE RemInv'
  BY <1>1 DEF RemInv
<1>2. CASE StackTick
  <2>1. stack' = "timers" /\ rem' = NoRem
    BY <1>2 DEF StackTick, RemInv
  <2> QED  BY <1>0, <2>1 DEF RemInv
<1>3. CASE StartRemoval
  <2>1. PICK u \in Expired : /\ rem' = [ue |-> u, w |-> 0]
                             /\ due' = [due EXCEPT ![u] = NoTimer]
    BY <1>3 DEF StartRemoval
  <2>2. rem'.ue = u /\ u \in Ues /\ stack' = "claim" /\ due'[u] = NoTimer
    BY <1>3, <2>1 DEF StartRemoval, Expired, RestInv
  <2> QED  BY <2>2 DEF RemInv
<1>4. CASE TimersDone
  BY <1>4 DEF TimersDone, Expired, RemInv
<1>5. CASE TickDone
  BY <1>5 DEF TickDone, RemInv
<1>6. CASE ClaimWorker
  BY <1>6 DEF ClaimWorker, RemInv
<1>7. CASE RemoveFromWorker
  <2>1. rem.ue \in Ues /\ rem.w \in Worker
    BY <1>7 DEF RemoveFromWorker, OwnerInv
  <2>2. rem'.ue = rem.ue /\ rem'.w = rem.w + 1
    BY <1>7, <2>1 DEF RemoveFromWorker, TypeInv
  <2>3. stack' = "claim" \/ (stack' = "clear" /\ rem.w + 1 = NofWorkers)
    BY <1>7, <2>1, Constants DEF RemoveFromWorker, Worker
  <2> QED  BY <1>7, <2>2, <2>3 DEF RemoveFromWorker, RemInv
<1>8. CASE ClearGrants
  BY <1>8 DEF ClearGrants, RemInv
<1>9. CASE EraseUe
  BY <1>0, <1>9 DEF EraseUe, RemInv
<1>10. ASSUME NEW v \in Ues, RemoveUe(v) PROVE RemInv'
  <2>1. rem = NoRem /\ rem' = NoRem /\ stack' = "rrc"
    BY <1>10 DEF RemoveUe, RemInv
  <2>2. \A u \in Ues : due'[u] # 0
    BY <1>10, Constants DEF RemoveUe, RemInv, RestInv
  <2> QED  BY <1>0, <2>1, <2>2 DEF RemInv
<1>11. CASE TxrxClaim \/ TxrxStart \/ TxrxTick \/ UNCHANGED vars
  BY <1>1, <1>11 DEF TxrxClaim, TxrxStart, TxrxTick, vars, stackVars
<1>12. ASSUME NEW w \in Worker, Work(w) PROVE RemInv'
  BY <1>1, <1>12 DEF Work, GetUlGrants, WorkUl, GetDlSched, GetUlSched, SaveGrants,
                     WorkerEnd, Finished, stackVars
<1> QED
  BY <1>2, <1>3, <1>4, <1>5, <1>6, <1>7, <1>8, <1>9, <1>10, <1>11, <1>12 DEF Next

LEMMA KnownStep ==
  ASSUME TypeInv, OwnerInv, RestInv, RemInv, KnownInv, [Next]_vars
  PROVE  KnownInv'
<1>0. NoRem.ue \notin Ues
  BY UesAssumption DEF NoRem
<1>1. ASSUME UNCHANGED <<known, schedDb, due, rem>> PROVE KnownInv'
  BY <1>1 DEF KnownInv
<1>2. CASE StackTick
  <2>1. UNCHANGED <<known, schedDb, rem>>
    BY <1>2 DEF StackTick
  <2>2. \A u \in Ues : due[u] = NoTimer => due'[u] = NoTimer
    BY <1>2 DEF StackTick
  <2> QED  BY <2>1, <2>2 DEF KnownInv
<1>3. CASE StartRemoval
  <2>1. PICK u \in Expired : /\ rem' = [ue |-> u, w |-> 0]
                             /\ due' = [due EXCEPT ![u] = NoTimer]
    BY <1>3 DEF StartRemoval
  <2>2. \A v \in Ues : due[v] = NoTimer => due'[v] = NoTimer /\ v # u
    BY <2>1 DEF Expired, NoTimer, RestInv
  <2>3. rem'.ue = u /\ UNCHANGED <<known, schedDb>>
    BY <1>3, <2>1 DEF StartRemoval
  <2> QED  BY <2>2, <2>3 DEF KnownInv
<1>4. CASE RemoveFromWorker
  <2>1. rem.ue \in Ues /\ rem.w \in Worker /\ rem.ue \notin schedDb /\ due[rem.ue] = NoTimer
    BY <1>4 DEF RemoveFromWorker, OwnerInv, RestInv, RemInv
  <2>2. /\ rem'.ue = rem.ue /\ rem'.w = rem.w + 1
        /\ known' = [known EXCEPT ![rem.w] = @ \ {rem.ue}] /\ UNCHANGED <<schedDb, due>>
    BY <1>4, <2>1 DEF RemoveFromWorker, TypeInv
  <2> SUFFICES ASSUME NEW w \in Worker, NEW u \in Ues \ known'[w]
               PROVE  u \notin schedDb /\ due[u] = NoTimer /\ (rem.ue = u => w < rem.w + 1)
    BY <2>2 DEF KnownInv
  <2>3. CASE w = rem.w /\ u = rem.ue
    BY <2>1, <2>3 DEF Worker
  <2>4. CASE u \notin known[w]
    <3>1. u \notin schedDb /\ due[u] = NoTimer /\ (rem.ue = u => w < rem.w)
      BY <2>4 DEF KnownInv
    <3> QED  BY <2>1, <3>1 DEF Worker
  <2> QED  BY <2>1, <2>2, <2>3, <2>4 DEF RestInv
<1>5. CASE EraseUe
  <2>1. UNCHANGED <<known, schedDb, due>> /\ rem' = NoRem
    BY <1>5 DEF EraseUe
  <2> QED  BY <1>0, <2>1 DEF KnownInv
<1>6. ASSUME NEW v \in Ues, RemoveUe(v) PROVE KnownInv'
  <2>1. UNCHANGED <<known, rem>> /\ schedDb' = schedDb \ {v} /\ v \in schedDb
    BY <1>6 DEF RemoveUe
  <2>2. \A u \in Ues : u # v => due'[u] = due[u]
    BY <1>6 DEF RemoveUe, RestInv
  <2> QED  BY <2>1, <2>2 DEF KnownInv
<1>7. CASE \/ TxrxClaim \/ TxrxStart \/ TxrxTick \/ TimersDone \/ TickDone
           \/ ClaimWorker \/ ClearGrants \/ UNCHANGED vars
  BY <1>1, <1>7 DEF TxrxClaim, TxrxStart, TxrxTick, TimersDone, TickDone, ClaimWorker,
                    ClearGrants, vars, stackVars
<1>8. ASSUME NEW w \in Worker, Work(w) PROVE KnownInv'
  BY <1>1, <1>8 DEF Work, GetUlGrants, WorkUl, GetDlSched, GetUlSched, SaveGrants,
                    WorkerEnd, Finished, stackVars
<1> QED  BY <1>2, <1>3, <1>4, <1>5, <1>6, <1>7, <1>8 DEF Next

-----------------------------------------------------------------------------
(* The grants a worker has had scheduled                                   *)

LEMMA TxStep ==
  ASSUME TypeInv, OwnerInv, FifoInv, RestInv, RemInv, TxInv,
         clock = Plus(sentTti, Ahead), [Next]_vars
  PROVE  TxInv'
<1> DEFINE n == Len(fifo)
<1>0. /\ n \in Nat /\ n <= NofWorkers /\ Ahead \in Int /\ Ahead <= n
      /\ \A i \in 1 .. n : fifo[i] \in Worker
      /\ \A w \in Worker : w \in 0 .. NofWorkers - 1
      /\ \A w \in Worker : Ran(tx[w]) \subseteq Ues
      /\ NoRem.ue = 0 /\ 0 \notin Ues
      /\ due \in [Ues -> NoTimer .. Delay]
  <2>1. \A w \in Worker : Ran(tx[w]) \subseteq Ues
    BY DEF TypeInv, Ran
  <2> QED  BY <2>1, AheadBounds, FifoFacts, RanFacts DEF Worker, NoRem, RestInv
<1>1. \A w \in Worker : pc[w] \notin {"ul_sched", "save"} => Ran(tx[w]) = {}
  BY DEF TxInv, ScheduledFor
<1>2. ASSUME UNCHANGED <<tx, macDb, rem, schedDb, late, due, fifo>>, Ahead' = Ahead,
             \A w \in Worker : pc[w] \in {"ul_sched", "save"} => pc'[w] = pc[w]
      PROVE  TxInv'
  BY <1>2 DEF TxInv, ScheduledFor, Removed
<1>3. CASE TxrxClaim \/ TxrxTick
  <2>1. Ahead' = Ahead
    BY <1>3, AheadStep
  <2> QED  BY <1>2, <1>3, <2>1 DEF TxrxClaim, TxrxTick, stackVars
<1>4. CASE TxrxStart
  <2>1. Ahead' = Ahead
    BY <1>4, AheadStep
  <2> SUFFICES ASSUME NEW w \in Worker, NEW u \in Ran(tx'[w]) PROVE ScheduledFor(w, u)'
    BY DEF TxInv
  <2>2. u \in Ran(tx[w]) /\ ScheduledFor(w, u)
    BY <1>4 DEF TxrxStart, TxInv
  <2>3. w # mine /\ pc'[w] = pc[w]
    BY <1>4, <2>2, Appended DEF ScheduledFor
  <2>4. \A i \in 1 .. Len(fifo') : fifo'[i] = w => i \in 1 .. n /\ fifo[i] = w
    BY <1>0, <1>4, <2>3, Appended
  <2>5. UNCHANGED <<macDb, rem, schedDb, late, due>>
    BY <1>4 DEF TxrxStart, stackVars
  <2> QED  BY <2>1, <2>2, <2>3, <2>4, <2>5 DEF ScheduledFor, Removed
<1>5. ASSUME NEW v \in Worker, GetUlGrants(v) \/ WorkUl(v) \/ Finished(v) PROVE TxInv'
  <2>1. Ahead' = Ahead
    BY <1>5 DEF Ahead, GetUlGrants, WorkUl, Finished, phyVars
  <2>2. \A w \in Worker : pc[w] \in {"ul_sched", "save"} => pc'[w] = pc[w]
    BY <1>5 DEF GetUlGrants, WorkUl, Finished, Step, TypeInv
  <2> QED  BY <1>2, <1>5, <2>1, <2>2 DEF GetUlGrants, WorkUl, Finished, phyVars, stackVars
<1>6. ASSUME NEW v \in Worker, GetDlSched(v) \/ GetUlSched(v) \/ SaveGrants(v)
      PROVE  TxInv'
  <2>1. Ahead' = Ahead /\ UNCHANGED <<macDb, rem, schedDb, late, due, fifo>>
    BY <1>6 DEF Ahead, GetDlSched, GetUlSched, SaveGrants, stackVars
  <2> SUFFICES ASSUME NEW w \in Worker, NEW u \in Ran(tx'[w]) PROVE ScheduledFor(w, u)'
    BY DEF TxInv
  <2>2. CASE w # v
    <3>1. tx'[w] = tx[w] /\ pc'[w] = pc[w]
      BY <1>6, <2>2 DEF GetDlSched, GetUlSched, SaveGrants, Step, TypeInv
    <3> QED  BY <2>1, <3>1 DEF TxInv, ScheduledFor, Removed
  <2>3. CASE w = v /\ GetDlSched(v)
    <3>1. PICK list \in GrantLists(schedDb) : tx' = [tx EXCEPT ![v] = list]
      BY <2>3 DEF GetDlSched
    <3>2. u \in schedDb
      BY <2>3, <3>1, RanFacts DEF TypeInv
    <3>3. pc'[w] = "ul_sched" /\ u \in macDb /\ u \in Ues
      BY <2>3, <3>2 DEF GetDlSched, Step, TypeInv, RestInv
    <3>4. rem.ue # u
      BY <1>0, <3>2, <3>3 DEF RemInv, RestInv, TypeInv
    <3> QED  BY <2>1, <3>2, <3>3, <3>4 DEF ScheduledFor, Removed
  <2>4. CASE w = v /\ GetUlSched(v)
    <3>1. PICK list \in GrantLists(Ran(tx[v]) \cap macDb) : tx' = [tx EXCEPT ![v] = list]
      BY <2>4 DEF GetUlSched
    <3>2. u \in Ran(tx[w])
      BY <2>4, <3>1, RanFacts DEF TypeInv
    <3>3. pc'[w] = "save"
      BY <2>4 DEF GetUlSched, Step, TypeInv
    <3> QED  BY <2>1, <3>2, <3>3 DEF TxInv, ScheduledFor, Removed
  <2>5. CASE w = v /\ SaveGrants(v)
    <3>1. tx'[w] = << >>
      BY <2>5 DEF SaveGrants, TypeInv
    <3> QED  BY <3>1, RanFacts
  <2> QED  BY <1>6, <2>2, <2>3, <2>4, <2>5
<1>7. ASSUME NEW v \in Worker, WorkerEnd(v) PROVE TxInv'
  <2>1. Ahead' = Ahead - 1
    BY <1>7, AheadStep
  <2>2. UNCHANGED <<tx, macDb, rem, schedDb, late, due>>
    BY <1>7 DEF WorkerEnd, stackVars
  <2> SUFFICES ASSUME NEW w \in Worker, NEW u \in Ran(tx'[w]) PROVE ScheduledFor(w, u)'
    BY DEF TxInv
  <2>3. u \in Ran(tx[w]) /\ ScheduledFor(w, u) /\ u \in Ues
    BY <1>0, <2>2 DEF TxInv
  <2>4. w # v /\ pc'[w] = pc[w]
    <3>1. pc[v] = "end" /\ pc' = [pc EXCEPT ![v] = "finish"]
      BY <1>7, MovedUp
    <3> QED  BY <2>3, <3>1 DEF ScheduledFor, TypeInv
  <2>5. ASSUME NEW i \in 1 .. Len(fifo'), fifo'[i] = w, u \in Removed
        PROVE  i + Delay <= Ahead' + due'[u]
    <3>1. i + 1 \in 1 .. n /\ fifo[i + 1] = w
      <4>1. Len(fifo') = n - 1 /\ \A j \in 1 .. n - 1 : fifo'[j] = fifo[j + 1]
        BY <1>7, MovedUp
      <4>2. i \in 1 .. n - 1
        BY <4>1
      <4> QED  BY <1>0, <2>5, <4>1, <4>2
    <3>2. (i + 1) + Delay <= Ahead + due[u]
      BY <2>3, <2>5, <3>1 DEF ScheduledFor
    <3>3. due[u] \in Int /\ due'[u] = due[u]
      BY <1>0, <2>2, <2>3 DEF NoTimer
    <3>4. Ahead' = Ahead - 1 /\ Ahead \in Int /\ i \in Int /\ Delay \in Int
      BY <1>0, <2>1, Constants
    <3> QED  BY ONLY <3>2, <3>3, <3>4
  <2> QED  BY <2>2, <2>3, <2>4, <2>5 DEF ScheduledFor, Removed
<1>8. CASE StackTick
  <2>1. Ahead' = Ahead + 1
    BY <1>8, AheadStep
  <2>2. UNCHANGED <<tx, pc, macDb, rem, schedDb, late, fifo>>
    BY <1>8 DEF StackTick, phyVars
  <2>3. \A u \in Ues : due[u] # NoTimer => due'[u] = due[u] - 1 /\ due'[u] # NoTimer
    BY <1>0, <1>8 DEF StackTick, RemInv, NoTimer
  <2> SUFFICES ASSUME NEW w \in Worker, NEW u \in Ran(tx'[w]) PROVE ScheduledFor(w, u)'
    BY DEF TxInv
  <2>4. u \in Ran(tx[w]) /\ ScheduledFor(w, u) /\ u \in Ues /\ due[u] \in Int
    BY <1>0, <2>2 DEF TxInv, NoTimer
  <2> QED  BY <1>0, <2>1, <2>2, <2>3, <2>4 DEF ScheduledFor, Removed
<1>9. CASE StartRemoval
  <2>1. PICK x \in Expired : /\ rem' = [ue |-> x, w |-> 0]
                             /\ due' = [due EXCEPT ![x] = NoTimer]
    BY <1>9 DEF StartRemoval
  <2>2. Ahead' = Ahead /\ UNCHANGED <<tx, pc, macDb, schedDb, late, fifo>>
    BY <1>9 DEF Ahead, StartRemoval, phyVars
  <2> SUFFICES ASSUME NEW w \in Worker, NEW u \in Ran(tx'[w]) PROVE ScheduledFor(w, u)'
    BY DEF TxInv
  <2>3. u \in Ran(tx[w]) /\ ScheduledFor(w, u)
    BY <2>2 DEF TxInv
  <2>4. rem'.w = 0 /\ w >= 0
    BY <1>0, <2>1
  <2>5. ASSUME u \in Removed PROVE u # x
    <3>1. PICK i \in 1 .. n : fifo[i] = w
      BY <2>3 DEF FifoInv, ScheduledFor, AtWork
    <3>2. i + Delay <= Ahead + due[u]
      BY <2>3, <2>5, <3>1 DEF ScheduledFor
    <3>3. x \in Ues /\ due[x] = 0
      BY DEF Expired
    <3> QED  BY <1>0, <3>2, <3>3, Constants
  <2>6. u \in Removed => due'[u] = due[u]
    BY <1>0, <2>1, <2>3, <2>5
  <2> QED  BY <2>2, <2>3, <2>4, <2>6 DEF ScheduledFor, Removed
<1>10. CASE RemoveFromWorker
  <2>1. rem.ue \in Ues /\ rem.w \in Worker /\ pc[rem.w] = "wait"
    BY <1>10 DEF RemoveFromWorker, OwnerInv
  <2>2. rem'.ue = rem.ue /\ rem'.w = rem.w + 1
    BY <1>10, <2>1 DEF RemoveFromWorker, TypeInv
  <2>3. Ahead' = Ahead /\ UNCHANGED <<tx, pc, macDb, schedDb, late, due, fifo>>
    BY <1>10 DEF Ahead, RemoveFromWorker, phyVars
  <2> SUFFICES ASSUME NEW w \in Worker, NEW u \in Ran(tx'[w]) PROVE ScheduledFor(w, u)'
    BY DEF TxInv
  <2>4. u \in Ran(tx[w]) /\ ScheduledFor(w, u) /\ w # rem.w
    BY <2>1, <2>3 DEF TxInv, ScheduledFor
  <2>5. w >= rem.w => w >= rem.w + 1
    BY <1>0, <2>1, <2>4
  <2> QED  BY <2>2, <2>3, <2>4, <2>5 DEF ScheduledFor, Removed
<1>11. CASE EraseUe
  <2>1. rem.w = NofWorkers /\ rem' = NoRem /\ macDb' = macDb \ {rem.ue}
    BY <1>11 DEF EraseUe, RemInv
  <2>2. Ahead' = Ahead /\ UNCHANGED <<tx, pc, schedDb, late, due, fifo>>
    BY <1>11 DEF Ahead, EraseUe, phyVars
  <2> SUFFICES ASSUME NEW w \in Worker, NEW u \in Ran(tx'[w]) PROVE ScheduledFor(w, u)'
    BY DEF TxInv
  <2>3. u \in Ran(tx[w]) /\ ScheduledFor(w, u) /\ u \in Ues
    BY <1>0, <2>2 DEF TxInv
  <2>4. rem.ue # u
    BY <1>0, <2>1, <2>3, Constants DEF ScheduledFor
  <2> QED  BY <1>0, <2>1, <2>2, <2>3, <2>4 DEF ScheduledFor, Removed
<1>12. ASSUME NEW x \in Ues, RemoveUe(x) PROVE TxInv'
  <2>1. /\ Ahead' = Ahead /\ UNCHANGED <<tx, pc, macDb, rem, fifo>>
        /\ schedDb' = schedDb \ {x} /\ x \in schedDb /\ due' = [due EXCEPT ![x] = Delay]
        /\ late' = IF GrantedAhead(x) THEN late \cup {x} ELSE late
    BY <1>12 DEF Ahead, RemoveUe, phyVars
  <2> SUFFICES ASSUME NEW w \in Worker, NEW u \in Ran(tx'[w]) PROVE ScheduledFor(w, u)'
    BY DEF TxInv
  <2>2. u \in Ran(tx[w]) /\ ScheduledFor(w, u) /\ u \in Ues
    BY <1>0, <2>1 DEF TxInv
  <2>3. CASE u # x
    <3>1. due'[u] = due[u] /\ (u \in Removed' => u \in Removed)
      BY <1>0, <2>1, <2>2, <2>3 DEF Removed
    <3> QED  BY <2>1, <2>2, <3>1 DEF ScheduledFor
  <2>4. CASE u = x
    <3>1. due'[u] = Delay /\ Delay # NoTimer
      BY <1>0, <2>1, <2>4, Constants DEF NoTimer
    <3>2. ASSUME NEW i \in 1 .. n, fifo[i] = w, u \in Removed' PROVE i <= Ahead
      <4>1. ~ NewerThan(wTti[w], clock)
        BY <2>1, <2>2, <2>4, <3>2 DEF Removed, GrantedAhead
      <4>2. wTti[w] = Plus(sentTti, i)
        BY <3>2 DEF FifoInv
      <4>3. i - Ahead \notin 1 .. TtiMod \div 2
        BY <1>0, <4>1, <4>2, Newer DEF TypeInv
      <4>4. n - Ahead \in 0 .. TtiMod \div 2
        BY AheadBounds
      <4> QED  BY <1>0, <4>3, <4>4, Constants
    <3>3. \A i \in 1 .. n : fifo[i] = w /\ u \in Removed' => i + Delay <= Ahead + Delay
      BY <1>0, <3>2, Constants
    <3> QED  BY <2>1, <2>2, <3>1, <3>3 DEF ScheduledFor
  <2> QED  BY <2>3, <2>4
<1>13. CASE TimersDone \/ TickDone \/ ClaimWorker \/ ClearGrants \/ UNCHANGED vars
  <2>1. Ahead' = Ahead
    BY <1>13 DEF Ahead, TimersDone, TickDone, ClaimWorker, ClearGrants, phyVars, vars
  <2> QED  BY <1>2, <1>13, <2>1 DEF TimersDone, TickDone, ClaimWorker, ClearGrants,
                                    phyVars, stackVars, vars
<1> QED  BY <1>3, <1>4, <1>5, <1>6, <1>7, <1>8, <1>9, <1>10, <1>11, <1>12, <1>13
         DEF Next, Work

-----------------------------------------------------------------------------
(* The grants that are saved                                               *)

\* When every worker has given up the UE, only a UE of late can have a grant.
LEMMA NoneLeft ==
  ASSUME TypeInv, OwnerInv, FifoInv, RestInv, RemInv, UlInv,
         stack \in {"clear", "erase"}, NEW t \in Tti, rem.ue \in Ran(ulGrants[t])
  PROVE  rem.ue \in late
<1> SUFFICES ASSUME rem.ue \notin late PROVE FALSE
  OBVIOUS
<1>1. rem.ue \in Ues /\ rem.w = NofWorkers /\ due[rem.ue] = NoTimer /\ rem.ue \in Removed
  BY DEF OwnerInv, RemInv, RestInv, Removed
<1>2. PICK k \in 1 .. Len(fifo) + Delay : SavedFor(t, rem.ue, k)
  BY <1>1 DEF UlInv, SavedGrant
<1>3. k <= Ahead /\ fifo[k] >= NofWorkers
  BY <1>1, <1>2 DEF SavedFor, Within
<1>4. k \in 1 .. Len(fifo)
  BY <1>3, AheadBounds, FifoFacts, Constants
<1> QED  BY <1>3, <1>4, FifoFacts, Constants DEF Worker

LEMMA UlStep ==
  ASSUME TypeInv, OwnerInv, FifoInv, RestInv, RemInv, TxInv, UlInv,
         clock = Plus(sentTti, Ahead), [Next]_vars
  PROVE  UlInv'
<1> DEFINE n == Len(fifo)
<1>0. /\ n \in Nat /\ n <= NofWorkers /\ Ahead \in Int /\ Ahead <= n
      /\ \A i \in 1 .. n : fifo[i] \in Worker /\ i \in 1 .. NofWorkers
      /\ NoRem.ue = 0 /\ 0 \notin Ues /\ -1 \notin Ues
      /\ due \in [Ues -> NoTimer .. Delay]
  BY AheadBounds, FifoFacts, RanFacts DEF NoRem, RestInv
<1>1. \A k \in 1 .. n + Delay : k \in Int /\ (k <= n => k \in 1 .. n)
  BY <1>0, Constants
<1>2. ASSUME UNCHANGED <<fifo, sentTti, due, rem, schedDb, late>>, Ahead' = Ahead,
             \A t \in Tti : Ran(ulGrants'[t]) \subseteq Ran(ulGrants[t]),
             \A w \in Worker : pc[w] = "begin" => pc'[w] = "begin"
      PROVE  UlInv'
  <2> SUFFICES ASSUME NEW t \in Tti, NEW u \in Ran(ulGrants'[t]) PROVE SavedGrant(t, u)'
    BY DEF UlInv
  <2>1. SavedGrant(t, u)
    BY <1>2 DEF UlInv
  <2>2. ASSUME NEW k \in 1 .. n + Delay, SavedFor(t, u, k) PROVE SavedFor(t, u, k)'
    <3>1. k <= n => pc'[fifo[k]] = "begin"
      BY <1>0, <1>1, <1>2, <2>2 DEF SavedFor
    <3> QED  BY <1>2, <2>2, <3>1 DEF SavedFor, Within, Removed
  <2> QED  BY <1>2, <2>1, <2>2 DEF SavedGrant
<1>3. CASE TxrxClaim \/ TxrxTick
  <2>1. Ahead' = Ahead
    BY <1>3, AheadStep
  <2> QED  BY <1>2, <1>3, <2>1 DEF TxrxClaim, TxrxTick, stackVars
<1>4. CASE TxrxStart
  <2>1. Ahead' = Ahead
    BY <1>4, AheadStep
  <2>2. UNCHANGED <<sentTti, ulGrants, due, rem, schedDb, late>>
    BY <1>4 DEF TxrxStart, stackVars
  <2>3. /\ Len(fifo') = n + 1 /\ fifo'[n + 1] = mine /\ pc'[mine] = "begin"
        /\ \A i \in 1 .. n : fifo'[i] = fifo[i] /\ pc'[fifo[i]] = pc[fifo[i]]
    BY <1>4, Appended
  <2> SUFFICES ASSUME NEW t \in Tti, NEW u \in Ran(ulGrants'[t]) PROVE SavedGrant(t, u)'
    BY DEF UlInv
  <2>4. SavedGrant(t, u)
    BY <2>2 DEF UlInv
  <2>5. ASSUME NEW k \in 1 .. n + Delay, SavedFor(t, u, k)
        PROVE  k \in 1 .. Len(fifo') + Delay /\ SavedFor(t, u, k)'
    <3>1. k \in 1 .. Len(fifo') + Delay
      BY <1>0, <2>3, Constants
    <3>2. k <= Len(fifo') => k \in 1 .. n \/ k = n + 1
      BY <1>0, <2>3
    <3>3. k <= Len(fifo') => pc'[fifo'[k]] = "begin"
      BY <1>1, <2>3, <2>5, <3>2 DEF SavedFor
    <3>4. k <= Ahead => fifo'[k] = fifo[k]
      BY <1>0, <1>1, <2>3
    <3>5. Within(u, k) => Within(u, k)'
      BY <2>1, <2>2, <3>4 DEF Within
    <3> QED  BY <2>2, <2>5, <3>1, <3>3, <3>5 DEF SavedFor, Removed
  <2> QED  BY <2>2, <2>4, <2>5 DEF SavedGrant
<1>5. ASSUME NEW v \in Worker, GetUlGrants(v) PROVE UlInv'
  <2>1. Ahead' = Ahead /\ UNCHANGED <<fifo, sentTti, due, rem, schedDb, late>>
    BY <1>5 DEF Ahead, GetUlGrants, stackVars
  <2>2. /\ pc' = [pc EXCEPT ![v] = "decode"]
        /\ ulGrants' = [ulGrants EXCEPT ![wTti[v]] = NotSaved]
    BY <1>5 DEF GetUlGrants, Step
  <2> SUFFICES ASSUME NEW t \in Tti, NEW u \in Ran(ulGrants'[t]) PROVE SavedGrant(t, u)'
    BY DEF UlInv
  <2>3. CASE t = wTti[v]
    <3>1. ulGrants'[t] = NotSaved
      BY <2>2, <2>3 DEF TypeInv
    <3> QED  BY <1>0, <3>1, RanFacts DEF SavedGrant
  <2>4. CASE t # wTti[v]
    <3>1. u \in Ran(ulGrants[t]) /\ SavedGrant(t, u)
      BY <2>2, <2>4 DEF TypeInv, UlInv
    <3>2. ASSUME NEW k \in 1 .. n + Delay, SavedFor(t, u, k) PROVE SavedFor(t, u, k)'
      <4>1. ASSUME k <= n PROVE pc'[fifo[k]] = "begin"
        <5>1. k \in 1 .. n /\ fifo[k] \in Worker /\ pc[fifo[k]] = "begin"
          BY <1>0, <1>1, <3>2, <4>1 DEF SavedFor
        <5>2. wTti[fifo[k]] = t
          BY <3>2, <5>1 DEF FifoInv, SavedFor
        <5> QED  BY <2>2, <2>4, <5>1, <5>2 DEF TypeInv
      <4> QED  BY <2>1, <3>2, <4>1 DEF SavedFor, Within, Removed
    <3> QED  BY <2>1, <3>1, <3>2 DEF SavedGrant
  <2> QED  BY <2>3, <2>4
<1>6. ASSUME NEW v \in Worker,
             WorkUl(v) \/ GetDlSched(v) \/ GetUlSched(v) \/ Finished(v)
      PROVE  UlInv'
  <2>1. Ahead' = Ahead /\ UNCHANGED <<fifo, sentTti, ulGrants, due, rem, schedDb, late>>
    BY <1>6 DEF Ahead, WorkUl, GetDlSched, GetUlSched, Finished, phyVars, stackVars
  <2>2. \A w \in Worker : pc[w] = "begin" => pc'[w] = "begin"
    BY <1>6 DEF WorkUl, GetDlSched, GetUlSched, Finished, Step, TypeInv
  <2> QED  BY <1>2, <2>1, <2>2
<1>7. ASSUME NEW v \in Worker, SaveGrants(v) PROVE UlInv'
  <2>1. PICK p \in 1 .. NofWorkers : p <= n /\ fifo[p] = v /\ wTti[v] = Plus(sentTti, p)
    BY <1>7, PlaceOf DEF SaveGrants, Step, AtWork
  <2>2. Ahead' = Ahead /\ UNCHANGED <<fifo, sentTti, due, rem, schedDb, late>>
    BY <1>7 DEF Ahead, SaveGrants, stackVars
  <2>3. Plus(wTti[v], Delay) = Plus(sentTti, p + Delay)
    BY <2>1, Constants, PlusPlus DEF TypeInv
  <2>4. /\ pc' = [pc EXCEPT ![v] = "end"] /\ pc[v] = "save"
        /\ ulGrants' = [ulGrants EXCEPT ![Plus(sentTti, p + Delay)] = tx[v]]
    BY <1>7, <2>3 DEF SaveGrants, Step
  <2>5. p + Delay \in 1 .. n + Delay /\ ~ p + Delay <= n
    BY <1>0, <2>1, Constants
  <2> SUFFICES ASSUME NEW t \in Tti, NEW u \in Ran(ulGrants'[t]) PROVE SavedGrant(t, u)'
    BY DEF UlInv
  <2>6. CASE t = Plus(sentTti, p + Delay)
    <3>1. u \in Ran(tx[v]) /\ ScheduledFor(v, u)
      BY <2>4, <2>6 DEF TypeInv, TxInv
    <3>2. u \in Ues
      BY <3>1 DEF TypeInv, Ran
    <3>3. u \in Removed => due[u] # NoTimer /\ p + Delay <= Ahead + due[u]
      BY <1>0, <2>1, <3>1 DEF ScheduledFor
    <3>4. SavedFor(t, u, p + Delay)'
      BY <2>2, <2>5, <2>6, <3>3 DEF SavedFor, Within, Removed
    <3> QED  BY <1>0, <2>2, <2>5, <3>2, <3>4 DEF SavedGrant
  <2>7. CASE t # Plus(sentTti, p + Delay)
    <3>1. u \in Ran(ulGrants[t]) /\ SavedGrant(t, u)
      BY <2>4, <2>7 DEF TypeInv, UlInv
    <3>2. ASSUME NEW k \in 1 .. n + Delay, SavedFor(t, u, k) PROVE SavedFor(t, u, k)'
      <4>1. k <= n => pc'[fifo[k]] = "begin"
        BY <1>0, <1>1, <2>4, <3>2 DEF SavedFor, TypeInv
      <4> QED  BY <2>2, <3>2, <4>1 DEF SavedFor, Within, Removed
    <3> QED  BY <2>2, <3>1, <3>2 DEF SavedGrant
  <2> QED  BY <2>6, <2>7
<1>8. ASSUME NEW v \in Worker, WorkerEnd(v) PROVE UlInv'
  <2>1. Ahead' = Ahead - 1
    BY <1>8, AheadStep
  <2>2. UNCHANGED <<ulGrants, due, rem, schedDb, late>>
    BY <1>8 DEF WorkerEnd, stackVars
  <2>3. /\ n >= 1 /\ pc[fifo[1]] = "end" /\ Len(fifo') = n - 1
        /\ \A i \in 1 .. n - 1 : fifo'[i] = fifo[i + 1] /\ fifo'[i] # v
        /\ \A x \in Int : Plus(sentTti', x) = Plus(sentTti, 1 + x)
        /\ pc' = [pc EXCEPT ![v] = "finish"]
    BY <1>8, MovedUp
  <2> SUFFICES ASSUME NEW t \in Tti, NEW u \in Ran(ulGrants'[t]) PROVE SavedGrant(t, u)'
    BY DEF UlInv
  <2>4. SavedGrant(t, u)
    BY <2>2 DEF UlInv
  <2>5. ASSUME NEW k \in 1 .. n + Delay, SavedFor(t, u, k), u \in Ues
        PROVE  k - 1 \in 1 .. Len(fifo') + Delay /\ SavedFor(t, u, k - 1)'
    <3>1. k # 1
      BY <2>3, <2>5 DEF SavedFor
    <3>2. k - 1 \in 1 .. (n - 1) + Delay /\ k - 1 \in Int /\ 1 + (k - 1) = k
      BY <1>0, <3>1, Constants
    <3>3. t = Plus(sentTti', k - 1)
      BY <2>3, <2>5, <3>2 DEF SavedFor
    <3>4. k <= n => k - 1 \in 1 .. n - 1 /\ k \in 1 .. n
      BY <1>0, <3>1
    <3>5. k <= n => fifo'[k - 1] = fifo[k] /\ fifo[k] # v /\ fifo[k] \in Worker
      BY <1>0, <2>3, <3>2, <3>4
    <3>6. k - 1 <= Len(fifo') => pc'[fifo'[k - 1]] = "begin"
      <4>1. k - 1 <= Len(fifo') => k <= n
        BY <1>0, <2>3
      <4>2. k <= n => pc[fifo[k]] = "begin"
        BY <2>5 DEF SavedFor
      <4> QED  BY <2>3, <3>5, <4>1, <4>2 DEF TypeInv
    <3>7. Within(u, k) => Within(u, k - 1)'
      <4>1. due[u] \in Int
        BY <1>0, <2>5 DEF NoTimer
      <4>2. k <= Ahead => k - 1 <= Ahead' /\ fifo'[k - 1] = fifo[k]
        BY <1>0, <2>1, <3>5
      <4>3. k <= Ahead + due[u] => k - 1 <= Ahead' + due[u]
        BY <1>0, <2>1, <4>1
      <4> QED  BY <2>2, <4>2, <4>3 DEF Within
    <3> QED  BY <2>2, <2>3, <2>5, <3>2, <3>3, <3>6, <3>7 DEF SavedFor, Removed
  <2> QED  BY <2>2, <2>4, <2>5 DEF SavedGrant
<1>9. CASE StackTick
  <2>1. Ahead' = Ahead + 1
    BY <1>9, AheadStep
  <2>2. UNCHANGED <<ulGrants, pc, rem, schedDb, late, fifo, sentTti>> /\ rem = NoRem
    BY <1>9 DEF StackTick, phyVars, RemInv
  <2>3. \A u \in Ues : due[u] # NoTimer => due'[u] = due[u] - 1 /\ due'[u] # NoTimer
    BY <1>0, <1>9 DEF StackTick, RemInv, NoTimer
  <2> SUFFICES ASSUME NEW t \in Tti, NEW u \in Ran(ulGrants'[t]) PROVE SavedGrant(t, u)'
    BY DEF UlInv
  <2>4. SavedGrant(t, u)
    BY <2>2 DEF UlInv
  <2>5. ASSUME NEW k \in 1 .. n + Delay, SavedFor(t, u, k), u \in Ues
        PROVE  SavedFor(t, u, k)'
    <3>1. ASSUME Within(u, k) PROVE Within(u, k)'
      <4>1. due[u] # NoTimer /\ k <= Ahead + due[u]
        BY <1>0, <2>2, <2>5, <3>1 DEF Within
      <4>2. due[u] \in Int /\ k \in Int
        BY <1>0, <2>5 DEF NoTimer
      <4> QED  BY <1>0, <2>1, <2>3, <2>5, <4>1, <4>2 DEF Within
    <3> QED  BY <2>2, <2>5, <3>1 DEF SavedFor, Removed
  <2> QED  BY <2>2, <2>4, <2>5 DEF SavedGrant
<1>10. CASE StartRemoval
  <2>1. PICK x \in Expired : /\ rem' = [ue |-> x, w |-> 0]
                             /\ due' = [due EXCEPT ![x] = NoTimer]
    BY <1>10 DEF StartRemoval
  <2>2. /\ Ahead' = Ahead /\ UNCHANGED <<ulGrants, pc, schedDb, late, fifo, sentTti>>
        /\ rem = NoRem
    BY <1>10 DEF Ahead, StartRemoval, phyVars, RemInv
  <2> SUFFICES ASSUME NEW t \in Tti, NEW u \in Ran(ulGrants'[t]) PROVE SavedGrant(t, u)'
    BY DEF UlInv
  <2>3. SavedGrant(t, u)
    BY <2>2 DEF UlInv
  <2>4. ASSUME NEW k \in 1 .. n + Delay, SavedFor(t, u, k), u \in Ues
        PROVE  SavedFor(t, u, k)'
    <3>1. ASSUME Within(u, k) PROVE Within(u, k)'
      <4>1. due[u] # NoTimer /\ k <= Ahead + due[u]
        BY <1>0, <2>2, <2>4, <3>1 DEF Within
      <4>2. CASE u # x
        BY <1>0, <2>1, <2>2, <2>4, <4>1, <4>2 DEF Within
      <4>3. CASE u = x
        <5>1. due[u] = 0 /\ due'[u] = NoTimer /\ rem'.ue = u /\ rem'.w = 0
          BY <1>0, <2>1, <2>4, <4>3 DEF Expired
        <5>2. k <= Ahead /\ fifo[k] \in Worker
          BY <1>0, <1>1, <4>1, <5>1
        <5>3. fifo[k] >= 0
          BY <5>2 DEF Worker
        <5> QED  BY <2>2, <5>1, <5>2, <5>3 DEF Within
      <4> QED  BY <4>2, <4>3
    <3> QED  BY <2>2, <2>4, <3>1 DEF SavedFor, Removed
  <2> QED  BY <2>2, <2>3, <2>4 DEF SavedGrant
<1>11. CASE RemoveFromWorker
  <2>1. rem.ue \in Ues /\ rem.w \in Worker /\ pc[rem.w] = "wait"
    BY <1>11 DEF RemoveFromWorker, OwnerInv
  <2>2. rem'.ue = rem.ue /\ rem'.w = rem.w + 1
    BY <1>11, <2>1 DEF RemoveFromWorker, TypeInv
  <2>3. Ahead' = Ahead /\ UNCHANGED <<ulGrants, pc, schedDb, late, due, fifo, sentTti>>
    BY <1>11 DEF Ahead, RemoveFromWorker, phyVars
  <2> SUFFICES ASSUME NEW t \in Tti, NEW u \in Ran(ulGrants'[t]) PROVE SavedGrant(t, u)'
    BY DEF UlInv
  <2>4. SavedGrant(t, u)
    BY <2>3 DEF UlInv
  <2>5. ASSUME NEW k \in 1 .. n + Delay, SavedFor(t, u, k) PROVE SavedFor(t, u, k)'
    <3>1. ASSUME k <= Ahead, fifo[k] >= rem.w PROVE fifo[k] >= rem.w + 1
      <4>1. k \in 1 .. n /\ fifo[k] \in Worker
        BY <1>0, <1>1, <3>1
      <4>2. fifo[k] # rem.w
        BY <2>1, <4>1 DEF FifoInv, AtWork
      <4> QED  BY <2>1, <3>1, <4>1, <4>2 DEF Worker
    <3>2. Within(u, k) => Within(u, k)'
      BY <2>2, <2>3, <3>1 DEF Within
    <3> QED  BY <2>3, <2>5, <3>2 DEF SavedFor, Removed
  <2> QED  BY <2>3, <2>4, <2>5 DEF SavedGrant
<1>12. CASE ClearGrants
  <2>1. /\ Ahead' = Ahead
        /\ UNCHANGED <<pc, rem, schedDb, late, due, fifo, sentTti>>
    BY <1>12 DEF Ahead, ClearGrants, phyVars
  <2> SUFFICES ASSUME NEW t \in Tti, NEW u \in Ran(ulGrants'[t]) PROVE SavedGrant(t, u)'
    BY DEF UlInv
  <2>2. CASE u \in Ran(ulGrants[t])
    <3>1. SavedGrant(t, u)
      BY <2>2 DEF UlInv
    <3> QED  BY <2>1, <3>1 DEF SavedGrant, SavedFor, Within, Removed
  <2>3. CASE u \notin Ran(ulGrants[t])
    <3>1. ulGrants'[t] = [i \in DOMAIN ulGrants[t] |->
                            IF ulGrants[t][i] = rem.ue THEN 0 ELSE ulGrants[t][i]]
      BY <1>12 DEF ClearGrants
    <3>2. \E S : ulGrants[t] \in Seq(S)
      <4>1. NotSaved \in Seq({-1})
        BY DEF NotSaved
      <4> QED  BY <4>1 DEF TypeInv, GrantList
    <3>3. /\ DOMAIN ulGrants[t] = 1 .. Len(ulGrants[t])
          /\ Len(ulGrants'[t]) = Len(ulGrants[t])
      BY <3>1, <3>2
    <3>4. u = 0 /\ rem.ue \in Ran(ulGrants[t])
      BY <2>3, <3>1, <3>3 DEF Ran
    <3>5. rem.ue \in late
      BY <1>12, <3>4, NoneLeft DEF ClearGrants
    <3> QED  BY <1>0, <2>1, <3>4, <3>5 DEF SavedGrant
  <2> QED  BY <2>2, <2>3
<1>13. CASE EraseUe
  <2>1. /\ Ahead' = Ahead /\ rem' = NoRem
        /\ UNCHANGED <<ulGrants, pc, schedDb, late, due, fifo, sentTti>>
    BY <1>13 DEF Ahead, EraseUe, phyVars
  <2> SUFFICES ASSUME NEW t \in Tti, NEW u \in Ran(ulGrants'[t]) PROVE SavedGrant(t, u)'
    BY DEF UlInv
  <2>2. u \in Ran(ulGrants[t]) /\ SavedGrant(t, u)
    BY <2>1 DEF UlInv
  <2>3. u = rem.ue => u \notin Removed
    BY <1>13, <2>2, NoneLeft DEF EraseUe, Removed
  <2>4. ASSUME NEW k \in 1 .. n + Delay, SavedFor(t, u, k) PROVE SavedFor(t, u, k)'
    BY <2>1, <2>3, <2>4 DEF SavedFor, Within, Removed
  <2> QED  BY <2>1, <2>2, <2>4 DEF SavedGrant
<1>14. ASSUME NEW x \in Ues, RemoveUe(x) PROVE UlInv'
  <2>1. /\ Ahead' = Ahead /\ UNCHANGED <<ulGrants, pc, rem, fifo, sentTti>>
        /\ schedDb' = schedDb \ {x} /\ x \in schedDb /\ due' = [due EXCEPT ![x] = Delay]
        /\ late' = IF GrantedAhead(x) THEN late \cup {x} ELSE late
    BY <1>14 DEF Ahead, RemoveUe, phyVars
  <2> SUFFICES ASSUME NEW t \in Tti, NEW u \in Ran(ulGrants'[t]) PROVE SavedGrant(t, u)'
    BY DEF UlInv
  <2>2. u \in Ran(ulGrants[t]) /\ SavedGrant(t, u)
    BY <2>1 DEF UlInv
  <2>3. u = 0 => late' # {}
    BY <2>1, <2>2 DEF SavedGrant
  <2>4. ASSUME NEW k \in 1 .. n + Delay, SavedFor(t, u, k), u \in Ues
        PROVE  SavedFor(t, u, k)'
    <3>1. CASE u # x
      <4>1. due'[u] = due[u] /\ (u \in Removed' => u \in Removed)
        BY <1>0, <2>1, <2>4, <3>1 DEF Removed
      <4> QED  BY <2>1, <2>4, <4>1 DEF SavedFor, Within
    <3>2. CASE u = x
      <4>1. due'[u] = Delay /\ Delay # NoTimer
        BY <1>0, <2>1, <2>4, <3>2, Constants DEF NoTimer
      <4>2. ASSUME u \in Removed' PROVE k <= Ahead + Delay
        <5>1. ~ NewerThan(t, Plus(clock, Delay))
          BY <2>1, <2>2, <3>2, <4>2 DEF Removed, GrantedAhead
        <5>2. t = Plus(sentTti, k) /\ Plus(clock, Delay) = Plus(sentTti, Ahead + Delay)
          BY <1>0, <2>4, Constants, PlusPlus DEF SavedFor, TypeInv
        <5>3. k - (Ahead + Delay) \notin 1 .. TtiMod \div 2
          BY <1>0, <1>1, <5>1, <5>2, Constants, Newer DEF TypeInv
        <5>4. n - Ahead \in 0 .. TtiMod \div 2
          BY AheadBounds
        <5> QED  BY <1>0, <5>3, <5>4, Constants
      <4> QED  BY <2>1, <2>4, <4>1, <4>2 DEF SavedFor, Within
    <3> QED  BY <3>1, <3>2
  <2> QED  BY <2>1, <2>2, <2>3, <2>4 DEF SavedGrant
<1>15. CASE TimersDone \/ TickDone \/ ClaimWorker \/ UNCHANGED vars
  <2>1. Ahead' = Ahead
    BY <1>15 DEF Ahead, TimersDone, TickDone, ClaimWorker, phyVars, vars
  <2> QED  BY <1>2, <1>15, <2>1 DEF TimersDone, TickDone, ClaimWorker, phyVars,
                                    stackVars, vars
<1> QED  BY <1>3, <1>4, <1>5, <1>6, <1>7, <1>8, <1>9, <1>10, <1>11, <1>12, <1>13,
            <1>14, <1>15 DEF Next, Work

-----------------------------------------------------------------------------
(* The grants a worker decodes                                             *)

LEMMA RxStep ==
  ASSUME TypeInv, OwnerInv, FifoInv, RestInv, RestInv', KnownInv, UlInv, RxInv,
         [Next]_vars
  PROVE  RxInv'
<1>1. ASSUME UNCHANGED <<rx, known>>, late \subseteq late',
             \A w \in Worker : pc'[w] = "decode" => pc[w] = "decode"
      PROVE  RxInv'
  BY <1>1 DEF RxInv
<1>2. ASSUME NEW v \in Worker, GetUlGrants(v) PROVE RxInv'
  <2>1. /\ rx' = [rx EXCEPT ![v] = ulGrants[wTti[v]]] /\ UNCHANGED <<known, late>>
        /\ pc' = [pc EXCEPT ![v] = "decode"] /\ pc[v] = "begin"
    BY <1>2 DEF GetUlGrants, Step, stackVars
  <2> SUFFICES ASSUME NEW w \in Worker, NEW u \in Ran(rx'[w]) \ known[w],
                      pc'[w] = "decode"
               PROVE  IF u = 0 THEN late # {} ELSE u \in late
    BY <2>1 DEF RxInv
  <2>2. CASE w # v
    <3>1. rx'[w] = rx[w] /\ pc'[w] = pc[w]
      BY <2>1, <2>2 DEF TypeInv
    <3> QED  BY <3>1 DEF RxInv
  <2>3. CASE w = v /\ u = 0
    <3>1. u \in Ran(ulGrants[wTti[v]]) /\ wTti[v] \in Tti
      BY <2>1, <2>3 DEF TypeInv
    <3> QED  BY <2>3, <3>1 DEF UlInv, SavedGrant
  <2>4. CASE w = v /\ u # 0
    <3>1. u \in Ran(ulGrants[wTti[v]]) /\ wTti[v] \in Tti
      BY <2>1, <2>4 DEF TypeInv
    <3>2. u \in Ues
      BY <2>4 DEF RestInv, GrantList, Ran
    <3>3. u \notin schedDb /\ due[u] = NoTimer /\ (rem.ue = u => v < rem.w)
      BY <2>4, <3>2 DEF KnownInv
    <3> SUFFICES ASSUME u \notin late PROVE FALSE
      BY <2>4
    <3>4. PICK k \in 1 .. Len(fifo) + Delay : SavedFor(wTti[v], u, k)
      BY <3>1, <3>2 DEF UlInv, SavedGrant
    <3>5. /\ wTti[v] = Plus(sentTti, k)
          /\ rem.ue = u /\ k <= Ahead /\ fifo[k] >= rem.w
      BY <3>2, <3>3, <3>4 DEF SavedFor, Within, Removed
    <3>6. PICK p \in 1 .. NofWorkers :
            p <= Len(fifo) /\ fifo[p] = v /\ wTti[v] = Plus(sentTti, p)
      BY <2>1, PlaceOf DEF AtWork
    <3>7. k = p
      <4>1. k \in 0 .. TtiMod - 1 /\ p \in 0 .. TtiMod - 1
        BY <3>5, AheadBounds, FifoFacts, Constants
      <4> QED  BY <3>5, <3>6, <4>1, PlusInjective DEF TypeInv
    <3>8. v \in Int /\ rem.w \in Int
      BY Constants DEF Worker, TypeInv
    <3>9. v >= rem.w /\ v < rem.w
      BY <3>3, <3>5, <3>6, <3>7
    <3> QED  BY <3>8, <3>9
  <2> QED  BY <2>2, <2>3, <2>4
<1>3. CASE RemoveFromWorker
  <2>1. rem.w \in Worker /\ pc[rem.w] = "wait"
    BY <1>3 DEF RemoveFromWorker, OwnerInv
  <2>2. /\ UNCHANGED <<pc, rx, late>>
        /\ \A w \in Worker : w # rem.w => known'[w] = known[w]
    BY <1>3 DEF RemoveFromWorker, phyVars, RestInv
  <2> QED  BY <2>1, <2>2 DEF RxInv
<1>4. CASE TxrxStart
  <2>1. \A w \in Worker : pc'[w] = "decode" => pc[w] = "decode"
    BY <1>4 DEF TxrxStart, TypeInv, OwnerInv
  <2> QED  BY <1>1, <1>4, <2>1 DEF TxrxStart, stackVars
<1>5. ASSUME NEW v \in Worker, WorkUl(v) PROVE RxInv'
  <2>1. /\ rx' = [rx EXCEPT ![v] = << >>] /\ UNCHANGED <<known, late>>
        /\ pc' = [pc EXCEPT ![v] = "dl_sched"]
    BY <1>5 DEF WorkUl, Step, stackVars
  <2>2. \A w \in Worker : pc'[w] = "decode" => pc[w] = "decode" /\ rx'[w] = rx[w]
    BY <2>1 DEF TypeInv
  <2> QED  BY <2>1, <2>2 DEF RxInv
<1>6. ASSUME NEW v \in Worker,
             \/ GetDlSched(v) \/ GetUlSched(v) \/ SaveGrants(v) \/ WorkerEnd(v)
             \/ Finished(v)
      PROVE  RxInv'
  <2>1. \A w \in Worker : pc'[w] = "decode" => pc[w] = "decode"
    BY <1>6 DEF GetDlSched, GetUlSched, SaveGrants, WorkerEnd, Finished, Step, TypeInv
  <2>2. UNCHANGED <<rx, known, late>>
    BY <1>6 DEF GetDlSched, GetUlSched, SaveGrants, WorkerEnd, Finished, phyVars,
                stackVars
  <2> QED  BY <1>1, <2>1, <2>2
<1>7. CASE \/ TxrxClaim \/ TxrxTick \/ StackTick \/ TimersDone \/ TickDone
           \/ StartRemoval \/ ClaimWorker \/ ClearGrants \/ EraseUe \/ UNCHANGED vars
           \/ \E u \in Ues : RemoveUe(u)
  <2>1. UNCHANGED <<rx, known, pc>> /\ late \subseteq late'
    BY <1>7 DEF TxrxClaim, TxrxTick, StackTick, TimersDone, TickDone, StartRemoval,
                ClaimWorker, ClearGrants, EraseUe, RemoveUe, phyVars, stackVars, vars
  <2> QED  BY <1>1, <2>1
<1> QED  BY <1>2, <1>3, <1>4, <1>5, <1>6, <1>7 DEF Next, Work

LEMMA InitFindInv == Init => FindInv
<1> SUFFICES ASSUME Init PROVE FindInv
  OBVIOUS
<1> USE DEF Init
<1>1. 0 \in Tti /\ Ahead = 0 /\ clock = Plus(sentTti, Ahead)
  BY Constants, PlusZero DEF Ahead, Tti
<1>2. RemInv
  BY UesAssumption DEF RemInv, NoRem, NoTimer
<1>3. KnownInv
  BY DEF KnownInv
<1>4. TxInv
  BY RanFacts DEF TxInv
<1>5. UlInv
  BY RanFacts DEF UlInv, SavedGrant
<1>6. RxInv
  BY RanFacts DEF RxInv
<1> QED  BY <1>1, <1>2, <1>3, <1>4, <1>5, <1>6 DEF FindInv

LEMMA StepFindInv == IInv /\ IInv' /\ FindInv /\ [Next]_vars => FindInv'
<1> SUFFICES ASSUME TypeInv, OwnerInv, FifoInv, RestInv, RestInv', FindInv,
                    [Next]_vars
             PROVE  FindInv'
  BY DEF IInv
<1>1. clock' = Plus(sentTti', Ahead') /\ RemInv' /\ KnownInv'
  BY ClockStep, RemStep, KnownStep DEF FindInv
<1>2. TxInv' /\ UlInv' /\ RxInv'
  BY TxStep, UlStep, RxStep DEF FindInv
<1> QED  BY <1>1, <1>2 DEF FindInv

-----------------------------------------------------------------------------
(* Theorems                                                                *)

LEMMA InitIInv == Init => IInv
<1> SUFFICES ASSUME Init PROVE IInv
  OBVIOUS
<1> USE DEF Init
<1>1. 0 \in Tti /\ Plus(0, 0) = 0 /\ \A k \in 1 .. Delay : k \in Tti /\ Plus(0, k) = k
  BY SMTT(30), Constants DEF Tti, Plus
<1>2. << >> \in GrantList /\ << >> \in Seq(Ues) /\ << >> \in Seq(Worker) /\ Len(<< >>) = 0
  BY DEF GrantList
<1>3. << >> # NotSaved
  BY DEF NotSaved
<1>4. TypeInv
  BY <1>1, <1>2 DEF TypeInv, NoRem, NoWorker, AtWork
<1>5. OwnerInv
  BY DEF OwnerInv
<1>6. FifoInv
  BY <1>1, <1>2 DEF FifoInv, AtWork
<1>7. SavedInv
  BY <1>1, <1>2, <1>3, Constants DEF SavedInv
<1>8. RestInv
  BY <1>1, <1>2, Constants, QueueAssumption DEF RestInv, NoTimer
<1> QED  BY <1>4, <1>5, <1>6, <1>7, <1>8 DEF IInv

LEMMA StepIInv == IInv /\ [Next]_vars => IInv'
<1> SUFFICES ASSUME TypeInv, OwnerInv, FifoInv, SavedInv, RestInv, [Next]_vars
             PROVE  IInv'
  BY DEF IInv
<1>1. TypeInv' /\ OwnerInv' /\ FifoInv'
  BY TypeStep, OwnerStep, FifoStep
<1>2. SavedInv' /\ RestInv'
  BY <1>1, SavedStep, RestStep
<1> QED  BY <1>1, <1>2 DEF IInv

LEMMA Invariance == Spec => []IInv
BY InitIInv, StepIInv, PTL DEF Spec

\* Every variable keeps its type, and neither the semaphore nor the queue of
\* ticks outgrows its bound; the scheduler's UEs are the MAC's until the timer
\* of ue_rem has expired.
THEOREM TypeCorrect == Spec => []TypeOK
<1>1. IInv => TypeOK
  <2> SUFFICES ASSUME TypeInv, FifoInv, RestInv PROVE TypeOK
    BY DEF IInv
  <2>1. Len(fifo) <= NofWorkers
    BY FifoFits DEF TypeInv, FifoInv
  <2>2. /\ Ran(fifo) \subseteq Worker
        /\ \A w \in Worker : Ran(rx[w]) \subseteq Ues \cup {0} /\ Ran(tx[w]) \subseteq Ues
    <3>1. \A S, s : s \in Seq(S) => Ran(s) \subseteq S
      BY DEF Ran
    <3> QED  BY <3>1 DEF TypeInv, RestInv, GrantList
  <2>3. \A t \in Tti : ulGrants[t] = NotSaved \/ Ran(ulGrants[t]) \subseteq Ues \cup {0}
    BY DEF TypeInv, GrantList, Ran
  <2> QED  BY <2>1, <2>2, <2>3 DEF TypeOK, TypeInv, RestInv, AtWork
<1> QED  BY <1>1, Invariance, PTL

\* The radio gets every TTI once and in order, whatever worker is first done
\* with its own: tti_semaphore lets them transmit in the order of their TTIs.
THEOREM TransmittedInOrder == Spec => SentInOrder
<1>1. IInv /\ [Next]_vars => [sentTti' = Plus(sentTti, 1)]_sentTti
  BY InOrderStep DEF IInv
<1> QED  BY <1>1, Invariance, PTL DEF Spec, SentInOrder

\* A worker that starts on a TTI finds the grants of that TTI, which another
\* worker made Delay TTIs before, as long as there are not more workers than
\* that.
THEOREM GrantsThereInTime == Spec => []GrantsSaved
<1>1. IInv => GrantsSaved
  BY GrantsAreSaved DEF IInv
<1> QED  BY <1>1, Invariance, PTL

\* A worker that copies the grants of a TTI finds every UE of them still in the
\* MAC, and one that decodes a PUSCH finds the UE still in its database, although
\* the stack removes UEs meanwhile: unless a worker ahead of the stack's clock had
\* already made a grant for the UE in the tick that removed it.
THEOREM GrantsMeetTheirUe == Spec => []GrantsFindTheirUe
<1>1. IInv /\ FindInv => GrantsFindTheirUe
  BY DEF FindInv, TxInv, ScheduledFor, RxInv, GrantsFindTheirUe
<1>2. IInv /\ IInv' /\ FindInv /\ [Next]_vars => FindInv'
  BY StepFindInv
<1> QED  BY <1>1, <1>2, InitFindInv, Invariance, PTL DEF Spec
=============================================================================
