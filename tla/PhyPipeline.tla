---------------------------- MODULE PhyPipeline ----------------------------
(***************************************************************************)
(* The threads of the eNB around the MAC, for one carrier:                 *)
(*   txrx     the loop of txrx.cc: takes an idle PHY worker from the pool, *)
(*            starts it on the samples of the next TTI and sends the stack *)
(*            a tick                                                       *)
(*   workers  sf_worker::work_imp, NofWorkers of them: decode the PUSCHs   *)
(*            of the TTI, have the MAC schedule, save the new UL grants,   *)
(*            transmit in turn                                             *)
(*   stack    the stack thread: runs the ticks; a tick fires timers and    *)
(*            then the RRC removes UEs. Delay ticks after mac::ue_rem a    *)
(*            timer removes the UE from the PHY (phy::rem_rnti, which      *)
(*            borrows the workers one by one) and from the MAC.            *)
(* A grant made in TTI t is for the PUSCH of TTI t + Delay. TTIs count     *)
(* modulo TtiMod.                                                          *)
(***************************************************************************)
EXTENDS Integers, Sequences, FiniteSets

CONSTANTS
  Ues,         \* RNTIs of the UEs that are connected at the start
  NofWorkers,  \* nof_phy_threads (3)
  Delay,       \* FDD_HARQ_DELAY_DL_MS + FDD_HARQ_DELAY_UL_MS (8)
  QueueSize,   \* sync_queue_size (1 with the zmq radio)
  TtiMod

ASSUME UesAssumption == IsFiniteSet(Ues) /\ Ues \subseteq Nat \ {0}
ASSUME WorkersAssumption == NofWorkers \in Nat \ {0}
ASSUME DelayAssumption == Delay \in Nat /\ Delay >= NofWorkers
ASSUME QueueAssumption == QueueSize \in Nat \ {0}
ASSUME TtiModAssumption ==
  /\ TtiMod \in Nat
  /\ TtiMod >= 2 * (QueueSize + 1)
  /\ TtiMod > Delay + NofWorkers

Worker == 0 .. NofWorkers - 1
NoWorker == -1
Tti == 0 .. TtiMod - 1
Plus(t, n) == (t + n) % TtiMod
NewerThan(t, c) == (t - c) % TtiMod \in 1 .. TtiMod \div 2

\* The grants of one TTI, in the order of the list; 0 stands for a grant that
\* clear_grants() has crossed out.
GrantLists(S) ==
  UNION {{s \in [1 .. n -> S] : \A i, j \in 1 .. n : s[i] = s[j] => i = j} :
           n \in 0 .. Cardinality(S)}
Ran(s) == {s[i] : i \in 1 .. Len(s)}
InOrderOf(s, t) ==
  \A i, j \in 1 .. Len(s), k, l \in 1 .. Len(t) :
    i < j /\ s[i] = t[k] /\ s[j] = t[l] => k < l
NotSaved == <<-1>>

VARIABLES
  tti,       \* the TTI of the txrx thread
  txrx,      \* its next step: "claim", "start", "tick"
  mine,      \* the worker it has claimed
  status,    \* of each worker in the pool: "idle", "ready", "work"
  pc,        \* the next step of each worker
  wTti,      \* the TTI each worker is working on
  fifo,      \* the tti_semaphore: workers in the order of their TTIs
  rx,        \* grants the worker has to decode
  tx,        \* grants the worker has had scheduled
  ulGrants,  \* phy_common::ul_grants
  known,     \* the RNTIs in the ue_db of each worker
  sentTti,   \* the TTI transmitted last
  ticks,     \* ticks in the stack's sync queue
  clock,     \* the TTI of the last tick
  stack,     \* what the stack thread does next
  rem,       \* the UE it removes from the PHY, and the worker it is at
  due,       \* ticks until the removal of each UE, or NoTimer
  schedDb,   \* UEs of the scheduler
  macDb,     \* UEs of the MAC
  late       \* UEs that got a grant ahead of the tick that removed them

phyVars == <<tti, txrx, mine, fifo, rx, tx, wTti, sentTti>>
stackVars == <<clock, stack, rem, due, schedDb, macDb, late>>
vars == <<phyVars, status, pc, ulGrants, known, ticks, stackVars>>

NoTimer == -1
NoRem == [ue |-> 0, w |-> NoWorker]

TypeOK ==
  /\ tti \in Tti /\ sentTti \in Tti /\ clock \in Tti
  /\ txrx \in {"claim", "start", "tick"}
  /\ mine \in Worker \cup {NoWorker}
  /\ status \in [Worker -> {"idle", "ready", "work"}]
  /\ pc \in [Worker -> {"wait", "begin", "decode", "dl_sched", "ul_sched",
                        "save", "end", "finish"}]
  /\ wTti \in [Worker -> Tti]
  /\ Ran(fifo) \subseteq Worker /\ Len(fifo) <= NofWorkers
  /\ \A w \in Worker : Ran(rx[w]) \subseteq Ues \cup {0} /\ Ran(tx[w]) \subseteq Ues
  /\ \A t \in Tti : ulGrants[t] = NotSaved \/ Ran(ulGrants[t]) \subseteq Ues \cup {0}
  /\ known \in [Worker -> SUBSET Ues]
  /\ ticks \in 0 .. QueueSize
  /\ stack \in {"idle", "timers", "claim", "rem", "clear", "erase", "rrc"}
  /\ rem = NoRem \/ (rem.ue \in Ues /\ rem.w \in 0 .. NofWorkers)
  /\ due \in [Ues -> NoTimer .. Delay]
  /\ schedDb \subseteq macDb /\ macDb \subseteq Ues
  /\ late \subseteq Ues

Init ==
  /\ tti = 0 /\ txrx = "claim" /\ mine = NoWorker
  /\ status = [w \in Worker |-> "idle"]
  /\ pc = [w \in Worker |-> "wait"]
  /\ wTti = [w \in Worker |-> 0]
  /\ fifo = << >>
  /\ rx = [w \in Worker |-> << >>] /\ tx = [w \in Worker |-> << >>]
  /\ ulGrants = [t \in Tti |-> IF t <= Delay THEN << >> ELSE NotSaved]
  /\ known = [w \in Worker |-> Ues]
  /\ sentTti = 0
  /\ ticks = 0 /\ clock = 0
  /\ stack = "idle" /\ rem = NoRem
  /\ due = [u \in Ues |-> NoTimer]
  /\ schedDb = Ues /\ macDb = Ues
  /\ late = {}

-----------------------------------------------------------------------------
(* txrx                                                                    *)

\* thread_pool::wait_worker: the idle worker with the lowest id
TxrxClaim ==
  /\ txrx = "claim"
  /\ \E w \in Worker :
       /\ status[w] = "idle"
       /\ \A v \in Worker : v < w => status[v] # "idle"
       /\ status' = [status EXCEPT ![w] = "ready"]
       /\ mine' = w
  /\ tti' = Plus(tti, 1)
  /\ txrx' = "start"
  /\ UNCHANGED <<pc, wTti, fifo, rx, tx, ulGrants, known, sentTti, ticks, stackVars>>

\* The samples are there: set_context, semaphore.push, start_worker.
TxrxStart ==
  /\ txrx = "start"
  /\ wTti' = [wTti EXCEPT ![mine] = tti]
  /\ fifo' = Append(fifo, mine)
  /\ status' = [status EXCEPT ![mine] = "work"]
  /\ pc' = [pc EXCEPT ![mine] = "begin"]
  /\ mine' = NoWorker
  /\ txrx' = "tick"
  /\ UNCHANGED <<tti, rx, tx, ulGrants, known, sentTti, ticks, stackVars>>

\* Mutant: push() does not wait.
TxrxTickAtOnce ==
  /\ txrx = "tick"
  /\ ticks' = ticks + 1
  /\ txrx' = "claim"
  /\ UNCHANGED <<tti, mine, wTti, fifo, rx, tx, sentTti, status, pc, ulGrants,
                 known, stackVars>>

\* tti_clock(): push() waits while the queue is full.
TxrxTick ==
  /\ txrx = "tick"
  /\ ticks < QueueSize
  /\ ticks' = ticks + 1
  /\ txrx' = "claim"
  /\ UNCHANGED <<tti, mine, wTti, fifo, rx, tx, sentTti, status, pc, ulGrants,
                 known, stackVars>>

-----------------------------------------------------------------------------
(* A PHY worker                                                            *)

Step(w, from, to) == pc[w] = from /\ pc' = [pc EXCEPT ![w] = to]

\* get_ul_grants. The entry is overwritten before the ring comes round to it
\* again; the model forgets it at once.
GetUlGrants(w) ==
  /\ Step(w, "begin", "decode")
  /\ rx' = [rx EXCEPT ![w] = ulGrants[wTti[w]]]
  /\ ulGrants' = [ulGrants EXCEPT ![wTti[w]] = NotSaved]
  /\ UNCHANGED <<tti, txrx, mine, wTti, fifo, tx, sentTti, status, known, ticks,
                 stackVars>>

\* decode_pusch returns at the first grant that it cannot decode.
Decoded(w) ==
  {rx[w][i] : i \in {k \in 1 .. Len(rx[w]) : \A j \in 1 .. k : rx[w][j] \in known[w]}}

\* work_ul, with the CRC reports of Decoded(w)
WorkUl(w) ==
  /\ Step(w, "decode", "dl_sched")
  /\ rx' = [rx EXCEPT ![w] = << >>]
  /\ UNCHANGED <<tti, txrx, mine, wTti, fifo, tx, sentTti, status, ulGrants,
                 known, ticks, stackVars>>

\* get_dl_sched makes the scheduler generate the TTI, UL grants included.
GetDlSched(w) ==
  /\ Step(w, "dl_sched", "ul_sched")
  /\ \E list \in GrantLists(schedDb) : tx' = [tx EXCEPT ![w] = list]
  /\ UNCHANGED <<tti, txrx, mine, wTti, fifo, rx, sentTti, status, ulGrants,
                 known, ticks, stackVars>>

\* get_ul_sched copies the grants of the UEs that the MAC still has, in order.
GetUlSched(w) ==
  /\ Step(w, "ul_sched", "save")
  /\ \E list \in GrantLists(Ran(tx[w]) \cap macDb) :
       /\ Ran(list) = Ran(tx[w]) \cap macDb /\ InOrderOf(list, tx[w])
       /\ tx' = [tx EXCEPT ![w] = list]
  /\ UNCHANGED <<tti, txrx, mine, wTti, fifo, rx, sentTti, status, ulGrants,
                 known, ticks, stackVars>>

\* Mutant: the grants are saved for the wrong TTI.
SaveGrantsEarly(w) ==
  /\ Step(w, "save", "end")
  /\ ulGrants' = [ulGrants EXCEPT ![Plus(wTti[w], Delay - 1)] = tx[w]]
  /\ tx' = [tx EXCEPT ![w] = << >>]
  /\ UNCHANGED <<tti, txrx, mine, wTti, fifo, rx, sentTti, status, known, ticks,
                 stackVars>>

SaveGrants(w) ==
  /\ Step(w, "save", "end")
  /\ ulGrants' = [ulGrants EXCEPT ![Plus(wTti[w], Delay)] = tx[w]]
  /\ tx' = [tx EXCEPT ![w] = << >>]
  /\ UNCHANGED <<tti, txrx, mine, wTti, fifo, rx, sentTti, status, known, ticks,
                 stackVars>>

\* Mutant: a worker does not wait for the green light.
InTurnAlways(w) == TRUE

\* tti_semaphore::wait
InTurn(w) == fifo # << >> => Head(fifo) = w

\* worker_end
WorkerEnd(w) ==
  /\ Step(w, "end", "finish")
  /\ InTurn(w)
  /\ sentTti' = wTti[w]
  /\ fifo' = IF fifo = << >> THEN fifo ELSE Tail(fifo)
  /\ UNCHANGED <<tti, txrx, mine, wTti, rx, tx, status, ulGrants, known, ticks,
                 stackVars>>

\* thread_pool::worker::finished
Finished(w) ==
  /\ Step(w, "finish", "wait")
  /\ status' = [status EXCEPT ![w] = "idle"]
  /\ UNCHANGED <<phyVars, ulGrants, known, ticks, stackVars>>

Work(w) ==
  \/ GetUlGrants(w) \/ WorkUl(w) \/ GetDlSched(w) \/ GetUlSched(w)
  \/ SaveGrants(w) \/ WorkerEnd(w) \/ Finished(w)

-----------------------------------------------------------------------------
(* The stack thread                                                        *)

Expired == {u \in Ues : due[u] = 0}

\* tti_clock_impl: timer_handler::step_all, then rrc::tti_clock
StackTick ==
  /\ stack = "idle" /\ ticks > 0
  /\ ticks' = ticks - 1
  /\ clock' = Plus(clock, 1)
  /\ due' = [u \in Ues |-> IF due[u] = NoTimer THEN NoTimer ELSE due[u] - 1]
  /\ stack' = "timers"
  /\ UNCHANGED <<phyVars, status, pc, ulGrants, known, rem, schedDb, macDb, late>>

\* The callback of ue_rem starts phy::rem_rnti.
StartRemoval ==
  /\ stack = "timers"
  /\ \E u \in Expired :
       /\ rem' = [ue |-> u, w |-> 0]
       /\ due' = [due EXCEPT ![u] = NoTimer]
  /\ stack' = "claim"
  /\ UNCHANGED <<phyVars, status, pc, ulGrants, known, ticks, clock, schedDb,
                 macDb, late>>

TimersDone ==
  /\ stack = "timers" /\ Expired = {}
  /\ stack' = "rrc"
  /\ UNCHANGED <<phyVars, status, pc, ulGrants, known, ticks, clock, rem, due,
                 schedDb, macDb, late>>

\* Mutant: a worker is taken whatever it does.
CanClaimAny(w) == TRUE

\* thread_pool::wait_worker_id
CanClaim(w) == status[w] = "idle"

ClaimWorker ==
  /\ stack = "claim" /\ CanClaim(rem.w)
  /\ status' = [status EXCEPT ![rem.w] = "ready"]
  /\ stack' = "rem"
  /\ UNCHANGED <<phyVars, pc, ulGrants, known, ticks, clock, rem, due, schedDb,
                 macDb, late>>

\* Mutant: the loop over the workers does not move on.
RemoveFromSameWorker ==
  /\ stack = "rem"
  /\ known' = [known EXCEPT ![rem.w] = @ \ {rem.ue}]
  /\ status' = [status EXCEPT ![rem.w] = "idle"]
  /\ stack' = "claim"
  /\ UNCHANGED <<phyVars, pc, ulGrants, ticks, clock, rem, due, schedDb, macDb,
                 late>>

\* sf_worker::rem_rnti, and release()
RemoveFromWorker ==
  /\ stack = "rem"
  /\ known' = [known EXCEPT ![rem.w] = @ \ {rem.ue}]
  /\ status' = [status EXCEPT ![rem.w] = "idle"]
  /\ rem' = [rem EXCEPT !.w = @ + 1]
  /\ stack' = IF rem.w + 1 < NofWorkers THEN "claim" ELSE "clear"
  /\ UNCHANGED <<phyVars, pc, ulGrants, ticks, clock, due, schedDb, macDb, late>>

\* phy_common::clear_grants
ClearGrants ==
  /\ stack = "clear"
  /\ ulGrants' = [t \in Tti |->
       [i \in DOMAIN ulGrants[t] |->
          IF ulGrants[t][i] = rem.ue THEN 0 ELSE ulGrants[t][i]]]
  /\ stack' = "erase"
  /\ UNCHANGED <<phyVars, status, pc, known, ticks, clock, rem, due, schedDb,
                 macDb, late>>

\* Mutant: the UE stays in the database.
EraseNothing ==
  /\ stack = "erase"
  /\ rem' = NoRem
  /\ stack' = "timers"
  /\ UNCHANGED <<phyVars, status, pc, ulGrants, known, ticks, clock, due,
                 schedDb, macDb, late>>

\* The MAC's UE database, under the write lock.
EraseUe ==
  /\ stack = "erase"
  /\ macDb' = macDb \ {rem.ue}
  /\ rem' = NoRem
  /\ stack' = "timers"
  /\ UNCHANGED <<phyVars, status, pc, ulGrants, known, ticks, clock, due,
                 schedDb, late>>

\* A worker ahead of the stack's clock has made a grant for u.
GrantedAhead(u) ==
  \/ \E w \in Worker : u \in Ran(tx[w]) /\ NewerThan(wTti[w], clock)
  \/ \E t \in Tti : u \in Ran(ulGrants[t]) /\ NewerThan(t, Plus(clock, Delay))

\* rrc::rem_user, mac::ue_rem
RemoveUe(u) ==
  /\ stack = "rrc" /\ u \in schedDb
  /\ schedDb' = schedDb \ {u}
  /\ due' = [due EXCEPT ![u] = Delay]
  /\ late' = IF GrantedAhead(u) THEN late \cup {u} ELSE late
  /\ UNCHANGED <<phyVars, status, pc, ulGrants, known, ticks, clock, stack, rem,
                 macDb>>

TickDone ==
  /\ stack = "rrc"
  /\ stack' = "idle"
  /\ UNCHANGED <<phyVars, status, pc, ulGrants, known, ticks, clock, rem, due,
                 schedDb, macDb, late>>

Removal == StartRemoval \/ ClaimWorker \/ RemoveFromWorker \/ ClearGrants \/ EraseUe

-----------------------------------------------------------------------------
Txrx == TxrxClaim \/ TxrxStart \/ TxrxTick

Next ==
  \/ TxrxClaim \/ TxrxStart \/ TxrxTick
  \/ \E w \in Worker : Work(w)
  \/ StackTick \/ TimersDone \/ TickDone
  \/ StartRemoval \/ ClaimWorker \/ RemoveFromWorker \/ ClearGrants \/ EraseUe
  \/ \E u \in Ues : RemoveUe(u)

Spec == Init /\ [][Next]_vars

\* Every thread runs. The stack and txrx compete for idle workers; finished()
\* wakes both, so that neither of them loses every time.
Fairness ==
  /\ SF_vars(Txrx)
  /\ \A w \in Worker : WF_vars(Work(w))
  /\ WF_vars(StackTick \/ TimersDone \/ TickDone)
  /\ SF_vars(Removal)

FairSpec == Spec /\ Fairness

-----------------------------------------------------------------------------
(* Properties                                                              *)

\* The grants of a TTI are saved by the time its worker reads them, although
\* the worker that makes them runs Delay TTIs before, on a thread of its own.
GrantsSaved ==
  \A w \in Worker : pc[w] = "begin" => ulGrants[wTti[w]] # NotSaved

\* phy::rem_rnti and ue_rem wait "to let any pending retx ACK to arrive, so
\* that PHY recognizes rnti", and until a grant is copied the MAC has its UE.
\* That works unless the UE got a grant ahead of the tick that removed it.
GrantsFindTheirUe ==
  /\ \A w \in Worker : pc[w] = "ul_sched" => Ran(tx[w]) \subseteq macDb
  /\ \A w \in Worker : pc[w] = "decode" =>
       \A u \in Ran(rx[w]) \ known[w] : IF u = 0 THEN late # {} ELSE u \in late

\* Comment of decode_pusch: all the grants need to report the CRC status to
\* the MAC. (A UE that is being removed no longer cares.)
CrcReported ==
  \A w \in Worker : pc[w] = "decode" =>
    Ran(rx[w]) \cap schedDb \subseteq Decoded(w)

\* The radio gets every TTI once, and in order.
SentInOrder == [][sentTti' = Plus(sentTti, 1)]_sentTti

\* No thread waits for ever for another one: the eNB goes on transmitting. TTI 0
\* comes round again and again, and with SentInOrder so do all the others.
TtisGoOn == []<>(sentTti = 0) /\ []<>(sentTti # 0)

\* A UE the RRC has removed disappears from the PHY and from the MAC, however
\* the workers are in use.
RemovalCompletes == \A u \in Ues : u \notin schedDb ~> u \notin macDb
=============================================================================
