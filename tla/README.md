# TLA+ models of EdgeRIC

EdgeRIC is a real-time RAN controller: an LTE eNB (a modified srsRAN) reports
the state of its UEs every TTI (1 ms) and scheduling muApps answer with weights
that steer the downlink scheduler of one of the next TTIs. This directory holds
TLA+ modules that model that system from its source, TLC runs that check them on
small instances, and theorems about them checked by TLAPS.

## 1. Inventory

Paths are relative to the repository; `mac/` stands for
`srsran-enb/srsenb/src/stack/mac/`, `phy/` for `srsran-enb/srsenb/src/phy/`.

| Component | State it keeps | Operations | Interacts with |
|---|---|---|---|
| RT agent (`srsran-enb/srsenb/rtagent/edgeric.*`) | static members: `tti_cnt`, `weights_recved`, metric maps, `a`/`b`; globals `er_index`, `stale_flag`; two ZeroMQ sockets | `init`, `receive_from_er_protobuf`, `send_to_er_protobuf`, setters, `get_weights`, `get_blanking` | called from the MAC and the scheduler by several PHY worker threads; sockets to the muApps |
| MAC (`mac/mac.cc`) | `started`, `ue_db` behind a read-write lock, metric maps, latency samples, `tti_ran_index`, `ue_counter` | `get_dl_sched`, `get_ul_sched`, `ric_comm`, `cqi_info`, `snr_info`, `ack_info`, `crc_info`, `rach_detected`, `ue_cfg`, `ue_rem`, `stop` | PHY workers (per TTI), stack thread (RACH, RRC), RLC |
| Weighted scheduler (`mac/schedulers/sched_time_pf.cc`, `sched_base.cc`) | `ue_rntis[10]`, `rbg_alloc`, priority queues, rate averages | `sched_dl_users`, `sched_ul_users`, `new_tti` | agent (`get_weights`, `get_blanking`), grid, HARQ |
| Scheduler core (`mac/sched*.cc`, `mac/sched_ue_ctrl/`) | UEs, HARQ processes, RAR and broadcast queues, grid of one TTI | `dl_sched`, `ul_sched`, `dl_ack_info`, `ul_crc_info`, buffer-state and CQI updates | MAC |
| Uplink HARQ (`mac/sched_ue_ctrl/sched_harq.cc`, `mac/sched_grid.cc`, `srsran-ue/srsue/src/stack/mac/ul_harq.cc`) | eNB: per process `active`, `ack_state`, `n_rtx`, NDI, PRBs, `pending_phich`, `pdcch_requested`; UE: grant, NDI, `current_tx_nb`, redundancy version; both PHYs: last block size | `alloc_phich`, `try_ul_retx_alloc`, `generate_sched_results`, `generate_format0`, `set_ack`; `new_grant_ul` | PHICH, DCI format 0 and PUSCH between the two sides |
| Downlink HARQ (`sched_harq.cc`, `sched_ue.cc`, `phy/phy_ue_db.cc`, `srsran-ue/srsue/src/stack/mac/dl_harq.cc`) | eNB: per process `tti`, `active`, `ack_state`, `n_rtx`, NDI; `last_ttis`; the PHY's pending ACKs; UE: NDI, `ack`, `n_retx` | `new_tti`, `get_pending_dl_harq`, `get_empty_dl_harq`, `set_ack_info`; `new_grant_dl`, `tb_decoded` | DCI, PDSCH and UCI between the two sides |
| PHY workers (`phy/lte/sf_worker.cc`, `cc_worker.cc`, `phy/phy_common.cc`, `txrx.cc`, `phy.cc`) | worker pool, transmission order semaphore, ring of uplink grants, each worker's `ue_db` | `work_imp`, `decode_pusch`, `worker_end`, `rem_rnti` | call the MAC concurrently; the stack thread claims them to remove a UE |
| Stack thread (`enb_stack_lte.cc`, `task_scheduler.h`, `timers.h`) | tick queue, timers | `tti_clock`, `run_tti`, RRC and RLC work | txrx (ticks), PHY, MAC |
| RLC AM (`srsran-enb/lib/src/rlc/rlc_am_lte.cc`) | `vt_a`, `vt_s`, `tx_window`, `retx_queue`, poll counters and timer; `vr_r`, `vr_h`, `vr_x`, `vr_ms`, `rx_window`, `rx_segments`, two timers | `write_sdu`, `read_pdu`, `handle_control_pdu`, `timer_expired`; `handle_data_pdu`, `get_status_pdu` | MAC (opportunities), PDCP (SDUs, delivery notices), RRC (failures) |
| RLC UM, TM, latency report (`srsran-enb/lib/src/rlc`, `mac.cc:716`) | ten latency samples per RNTI under a mutex | `rlc_latency_report` | MAC's `ric_comm` |
| muApp messenger (`edgeric/edgeric_messenger.py`) | `ran_index`, `ric_index`, `ue_dict`, `correct`, `incorrect`; three sockets | `get_metrics_multi`, `send_scheduling_weight`, `send_blanking` | agent's sockets, Redis |
| muApp1 (`edgeric/muApp1`) | averages, round-robin counter | one loop per algorithm: wait for a report, answer with weights | messenger |
| muApp2 (`edgeric/muApp2`, `edgeric/core`) | RL environment, delay queues, networks | `reset`, `step`, training loop | messenger |
| muApp3, dashboards, TCP bridge | last report | forward or show reports | subscribe to the agent |

What is hard here, and is in no test of the repository:

* **Two clocks and two queues.** The eNB never waits for a muApp. A report may be
  overwritten before it is read, a policy may be dropped at a high-water mark, may
  arrive late, and may be read TTIs after it arrived. Both sides judge lateness
  from index numbers (`edgeric.cpp:299`, `edgeric_messenger.py:109`).
* **State that outlives its TTI.** `weights_recved` is overlaid, kept or cleared
  depending on what was read; the metric maps of the MAC are never cleaned;
  `ue_rntis` is filled after it has been used.
* **Crashes.** A muApp can die and come back with its counters reset; its sockets
  lose what they held.
* **Two ends of one protocol.** In HARQ, eNB and UE each count tries, keep an NDI
  bit and a block size, and see each other only through one bit of feedback, DCIs
  that may be missed, and silence; measurement gaps and a full grid cut into that.
  In RLC AM two windows over a small number space are kept in step by status PDUs
  that are truncated, lost, late and overtaken.
* **Threads.** Several PHY workers run `work_imp` at once, each its own TTI, and
  hand each other grants through a ring; they run ahead of the stack thread's
  ticks; the stack thread claims them one by one to remove a UE; and an RLC handler
  releases its lock half way.
* **Timers that stop or are not started again**, and processes that nobody frees.
* **Widths.** RBG counts are `uint8_t` and `uint16_t`, positions index fixed arrays,
  TTIs and sequence numbers wrap.

`PROJECT.json` lists each of these hazards at its line, with the properties that
would notice it going wrong.

## 2. Modules

| Module | What it models | Code |
|---|---|---|
| `RtE2Messages` | the two messages and the TTI arithmetic | the two `.proto` files |
| `RtAgent` | the agent's static state and the hooks `get_dl_sched`, `ric_comm`, `cqi_info`, `stop` | `edgeric.cpp`, `mac.cc` |
| `Messenger` | a scheduling muApp: messenger globals and main loop, crash and restart | `edgeric_messenger.py`, `muApp1_run_DL_scheduling.py` |
| `RtE2Loop` | the two joined by ZeroMQ sockets; all properties of the loop | both, and ZeroMQ as used |
| `PolicyFeed` | what the loop promises the scheduler (abstract specification) | |
| `RbgAlloc` | one carrier's weighted downlink scheduler: caps from weights, then RBGs, subframe by subframe, with UEs, policies and HARQs changing in between | `sched_time_pf.cc`, `sched_base.cc`, and what they call in `sched.cc`, `sched_carrier.cc`, `sched_grid.cc`, `sched_phy_resource.cc`, `sched_ue_cell.cc`, `sched_harq.cc` |
| `EnbUlHarq`, `UeUlHarq` | the uplink HARQ process of either side, one operator per method | `sched_harq.cc`; `srsue` `ul_harq.cc`, `cc_worker.cc`, `phy_common.cc` |
| `UlHarq` | one uplink process of several UEs over its cycle: PHICHs, PRB allocation, grants, the UEs' answers, CRCs | `sched_carrier.cc`, `sched_grid.cc`, `sched_base.cc`, `sched_time_pf.cc`, `sched_ue.cc`, `mac.cc`, `phy/lte/cc_worker.cc` |
| `EnbDlHarq`, `UeDlHarq` | the downlink HARQ processes of either side | `sched_harq.cc`; `srsue` `dl_harq.cc` |
| `DlHarq` | the downlink processes of a UE over the TTIs: feedback, choice of a process, DCI, reception | `sched_ue.cc`, `sched_base.cc`, `phy_ue_db.cc`, `sched_carrier.cc`, `srsue` `cc_worker.cc` |
| `TbTransfer` | what the two sides of HARQ promise the layers above (abstract specification, for both directions) | |
| `PhyPipeline` | txrx, PHY workers and the stack thread around the MAC | `txrx.cc`, `thread_pool.cc`, `tti_sempahore.h` (spelt so), `sf_worker.cc`, `cc_worker.cc`, `phy_common.cc`, `phy.cc`, `phy_ue_db.cc`, `enb_stack_lte.cc`, `timers.h`, `mac.cc`, `rrc.cc` |
| `RlcSn` | sequence numbers and pieces of the stream of SDUs | `rlc_am_lte.cc`, `rlc_common.h` |
| `RlcLink` | what lies between two RLC entities | |
| `RlcAmTx`, `RlcAmRx` | the two sides of an AM entity | `rlc_am_lte.cc`, `rlc_am_lte.h` |
| `RlcAm` | one direction of a bearer; all its properties | the two joined |
| `ReliableDelivery` | what the bearer promises PDCP (abstract specification) | |
| `MCRtE2Loop`, `MCRbgAlloc`, `MCUlHarq`, `MCDlHarq`, `MCPhyPipeline`, `MCRlcAm` | the instances TLC checks | |
| `RtE2LoopProofs`, `RbgAllocProofs`, `UlHarqProofs`, `DlHarqProofs`, `PhyPipelineProofs` | theorems about the five components before the RLC | |
| `RlcAmInv`, `RlcAmContent` | the inductive invariant of `RlcAm`: where all numbers are, and what the PDUs carry | |
| `RlcAmProofs`, `RlcAmTheorems`, `RlcAmDelivery` | lemmas on numbers, windows and either side's handlers; the theorems on the windows; those on the data and the refinement | |

`RtE2Loop` extends `RtAgent` and `Messenger`, which share `RtE2Messages`, and
instantiates `PolicyFeed` for the refinement. `RbgAlloc` stands by itself: its
`weights` is the agent's `weights_recved`, and its `ReceivePolicy` and
`ClearPolicy` are what the loop does to it between two subframes. `UlHarq` and
`DlHarq` extend the eNB's side and take the UE's with INSTANCE; both instantiate
`TbTransfer`. In `PhyPipeline` a call of the scheduler is one step, under its
mutex. `RlcAm` extends the two sides of the entity and the link, and instantiates
`ReliableDelivery`.

### State and code: the loop

| Variable | Code |
|---|---|
| `ttiCnt`, `weights`, `erIndex`, `staleFlag` | `edgeric::tti_cnt`, `weights_recved`, the globals `er_index` and `stale_flag` |
| `started`, `nextCc`, `numUes` | `mac::started`; how far `get_dl_sched` is in its loop over the carriers; UEs that have reported a CQI (`cqi_dl_ues`) |
| `pc`, `ranIndex`, ... (`Messenger`) | where the main loop of the muApp is, and the globals of `edgeric_messenger.py` |
| `report` | the conflated socket of the muApp: one slot |
| `wire`, `inbox` | the policies in the muApp's PUB socket and in the agent's SUB socket |

A TTI is `TtiWithoutPolicy` or `TtiWithPolicy` (`receive_from_er_protobuf`, called
at the start of `get_dl_sched`), then one `PublishReport` per carrier
(`ric_comm`). The muApp alternates `ReadReport` and `SendPolicy`, or `SkipReport`
when the algorithm raises. Everything that can happen between any two of them
does: deliveries, CQI reports, the muApp's death and restart, the MAC's stop. A
policy is known by the index it carries and by its length; all its weights are
represented by that index, which is what tells old from new.

### State and code: the scheduler

| Variable | Code |
|---|---|
| `ueDb`, `harq` | `sched::ue_db` and the DL HARQ processes in it, each with the mask of its transport block |
| `weights` | the values of `edgeric::weights_recved` in the order of its keys |
| `ueRntis`, `rbgAlloc` | the globals `ue_rntis[10]` and `rbg_alloc` of `sched_time_pf.cc` |
| `queue`, `retx`, `demand` | `dl_queue`, each UE's `dl_retx_h`, and the RBGs its pending bytes need |
| `dlMask`, `ctrl`, `grant`, `newTx` | `sf_grid_t::dl_mask`, the part SIB, paging and RAR took before, `data_allocs` |
| `tti`, `phase` | parity of the TTI (uplink goes first in even ones) and the place in `generate_tti_result` |

A subframe is `StartSubframe` (grid reset, SIB/RAR, and on even TTIs the uplink's
call of `new_tti`), `SchedDlUsers` (the caps, then on odd TTIs `new_tti`), one of
`Retransmit`, `NewTransmission`, `GiveUp` per UE in `dl_queue`, and `EndSubframe`.
All of it runs under the scheduler's mutex, so `AddUe`, `RemUe`, policies and HARQ
feedback come between subframes.

What is abstracted: weights are exact fractions and not floats; memory that the
code does not initialise may hold any value of `UninitWeights` and
`UninitRntis`; the loop that reads beyond `ue_rntis` meets no RNTI in use; every
UE has wideband CQI and DCI format 1, so one number (`demand`) says how many RBGs
its data need; PF priorities are any order, since the averages they come from are
arbitrary; the PDCCH search ends either way; a DCI whose transport block cannot
be built afterwards (`generate_sched_results`) is left out. `RtAgent` and
`RbgAlloc` run one PHY worker at a time.

### State and code: uplink HARQ

| Variable | Code |
|---|---|
| `harq` | the `ul_harq_proc` of each UE |
| `enbTbs` | `ue_db::last_ul_tb` of the eNB's PHY |
| `ue` | the UE's `ul_harq_process`, `phy_common::last_ul_tb` and the pending acknowledgement (`set_ul_pending_ack`); `pdu` says whether the block in its buffer is new or delivered |
| `queue`, `ulMask`, `allocs` | `ul_queue`, `sf_grid_t::ul_mask`, `ul_data_allocs` |
| `phich`, `grants`, `pusch` | `ul_sched_result.phich`, `ul_sched_result.pusch`, what is on the air |
| `gapKind`, `cycle` | where the UE's measurement gap meets the process |
| `fading` | whether DCIs may be missed |

Uplink HARQ is synchronous: process *p* is used in TTIs *p*, *p*+8, ... and the
eight processes share only the UEs' data, so one is followed. One cycle is
`StartTti` (`new_tti`, the PHICHs in order of RNTI, `ul_queue`), `AllocRetx` and
`AllocNewTx` for every UE in `ul_queue`, `GenerateResults` (skipped processes, then
DCIs), `UesTransmit` and `DecodePusch`. That the CRCs of a PUSCH arrive before the
schedule of its TTI is asked for is the order of the calls in
`sf_worker::work_imp`.

A block size is known by the MCS field it was made from and its number of PRBs; a
redundancy version by its place in 0, 2, 3, 1. A PUSCH can be decoded only if the
UE sent what the eNB expects on those PRBs; it may fail even then. The UE always
has a PDU (at least padding). The UE in the repository knows no measurement gaps;
in the model a UE in its gap takes the PHICH for an ACK, which is what the eNB
assumes of any UE (`sched_grid.cc:678`). A UE that waits for a PHICH nobody sends
decodes noise. Left out: Msg3, several carriers, PUSCH that carries only UCI, DFT
sizes, soft buffers, UEs that come and go.

### State and code: downlink HARQ

| Variable | Code |
|---|---|
| `harq` | the `dl_harq_proc`s of one UE; `age` is the TTI being scheduled minus the process's `tti` |
| `ue` | the UE's `dl_tb_process`es |
| `uci` | the feedback due for the last transmission: what `phy_ue_db` expects and what the UE will send |
| `air` | the DCI of the TTI |
| `gapPos`, `refused` | position in the measurement gap period; TTIs in which a retransmission found no room |
| `pushes`, `seen`, `prevSeen` | bookkeeping for the properties: how often a block was handed up, and whether the UE had a DCI of it and of the one before |

A TTI is `BeginTti` (the UCI is decoded and credited, `new_tti` frees a process at
its last try), `AllocRetx`, `AllocNewTx` or `AllocNothing`, then `Receive`, `Miss`
or `Idle`. Scheduling a TTI and receiving it are a fixed delay apart in the code
and nothing of this UE lies between them, so they are one TTI of the model and
feedback is read `DelayDl + DelayUl` later. An ACK may be missed, which the PHY reports as a
NACK; a NACK is not taken for an ACK. Left out: the second transport
block, broadcast and temporary C-RNTI processes, the NACK sent while the UE
reselects a cell, a feedback that a worker hands in after the next TTI was
scheduled.

### State and code: PHY pipeline

| Variable | Code |
|---|---|
| `tti`, `txrx`, `mine` | the loop of `txrx::run_thread` |
| `status`, `pc`, `wTti` | `thread_pool`'s status of each worker, where its `work_imp` is, its TTI |
| `fifo`, `sentTti` | the `tti_semaphore` of `phy_common` and what `worker_end` sent last |
| `rx`, `tx`, `ulGrants` | the grants a worker decodes and makes; the ring `phy_common::ul_grants` |
| `known` | the RNTIs in each worker's `ue_db` |
| `ticks`, `clock`, `stack`, `rem`, `due` | the stack's sync queue, the TTI of its last tick, what it does next, the UE it removes from the PHY, the timers of `mac::ue_rem` |
| `schedDb`, `macDb`, `late` | UEs in the scheduler and in `mac::ue_db`; UEs that got a grant ahead of the tick that removed them |

The radio paces `txrx`: claim a worker, start it, send the stack a tick (which
blocks while the queue is full). A worker reads its grants, decodes, asks for the
downlink and uplink schedule, saves the uplink grants for `Delay` TTIs later, and
transmits when its turn comes. The stack takes a tick, fires timers, and lets the
RRC remove a UE; a removal claims every worker in turn. Left out: signal
processing, PUCCH and PHICH, PRACH, NR workers, the addition of UEs, the data races
noted in section 5.

### State and code: RLC AM

`RlcAmTx` and `RlcAmRx` keep the names of the code's variables (`vtA` for `vt_a`,
and so on). The stream of SDUs is a sequence of pieces, `Ends` are the last pieces
of SDUs; a PDU is an interval of pieces, and an opportunity for *n* bytes is one
for *n* pieces. So segmentation, concatenation, resegmentation of a retransmission
(`so`, `lsf`) and reassembly are all there, without bytes. `ctl` says how far
`handle_control_pdu` has come, since it releases its mutex between two sequence
numbers and a PHY worker may read a PDU there. Timers that run may expire at any
moment. PDUs are lost, and may overtake each other when `overtaking` holds; `Recent`
keeps a PDU from being on its way for longer than a window, which is given in an
LTE system (HARQ ends after some tens of TTIs) and not in a number space of four.
Left out: length-indicator bits, `poll_byte`, NACKs with segment offsets (no receiver
in this code sends them), the segment pool, the ring of PDCP numbers, `discard_sdu`,
re-establishment, UM and TM; and that `read_pdu` goes on to new data when an
opportunity is too small for the header of the retransmission that waits
(`rlc_am_lte.cc:307-315`): an opportunity has room for a piece here. `retx_queue` is the ring of the code
(`rlc_am_data_structs.h:391`), which is empty again when it is pushed into when full
(`Pushed`).

## 3. Runs

| Run | Instance | What it shows |
|---|---|---|
| `loop_fifo` | 2 carriers, 2 UEs, 7 counts of `tti_cnt`, inbox 3, wire 2, one crash | The loop as built. Indices stay in causal order across both queues; the weights in use never mix two policies; old ones are in use only under `stale_flag`; the muApp's verdict agrees with the agent's; the loop implements `PolicyFeed`. |
| `loop_wrap` | counter modulo 4, no end | Once the muApp is dead for good, the queued policies run out and the default weights return. |
| `rbg_grid` | 2 UEs, 4 RBGs, 1 HARQ each, policies, two values of fresh memory | No RBG is given twice; caps are kept; a retransmission keeps its size through every move; the default weights share the carrier out exactly whatever UEs and policies left behind, and those shares are delivered to the last RBG. |
| `rbg_readme_shares` | 2 UEs, 4 RBGs | Violation: the shares of `edgeric/readme.md:32` are not what the UEs get, because the scheduler reads `[rnti, share, rnti, share]` by position. |
| `ul_steady` | 2 UEs, 3 PRBs, 3 tries | Grants and PUSCHs match one to one, blanking or not; the PHICH assertion holds; only given-up blocks collide. |
| `ul_gaps` | 1 UE, 4 tries, gaps of all kinds, or DCIs lost until a fading ends | The same through measurement gaps; a skipped UE is silent; no block is sent more often than allowed; `TbTransfer` is implemented. With losses, processes are always freed and both sides resynchronize. |
| `dl_loss` | 2 processes, 3 tries, a process whose DCIs may be lost or none | Feedback reaches the process it is for; a block is lost or repeated only behind one of which the UE saw no DCI; processes are freed; `TbTransfer` is implemented. |
| `dl_gap` | 2 processes, a gap of 3 every 12 TTIs | Violation: a block NACKed just before a gap is never sent again nor given up (`sched_harq.cc:452`). |
| `phy_threads` | 1 UE, 2 workers, delay 2, queue 1 | Grants are saved before they are decoded, and for UEs that are known; TTIs are sent once and in order; neither transmission nor a removal ever waits for good. |
| `phy_removal` | 2 UEs, else the same | Violation: a UE that was removed costs those behind it in the list their CRC report (`cc_worker.cc:396`). |
| `rlc_am` | 2 SDUs of 3 pieces, numbers modulo 4 that wrap, 3 retransmissions | SDUs arrive once, in order, and are confirmed only then (`ReliableDelivery`); no protocol failure; the windows overlap; NACKs find room in `retx_queue`. |
| `rlc_poll` | 2 SDUs, no poll but by the timer and the empty buffer | Violation: a bearer that is up and never delivers an SDU it lost once (`rlc_am_lte.cc:241`). |

**Bounds of the loop.** `MaxTti` ends the runs without a wrap. With two carriers
the counter advances twice per TTI, so that the acceptance window is as narrow as
it gets, and a policy can be on time, late, or so late that it is stale several
TTIs in a row, before and after a crash. Two UEs make policies of different
lengths. The real high-water marks are 1000; nothing depends on a queue except that
it drops or blocks when full, and the runs fill both. In `loop_wrap` the counter
wraps at 4 (2^32 in the code); `TtiModAssumption` asks for no less, so that the
window `{tti_cnt-1, tti_cnt}` leaves out as many indices as it has.

**Bounds of the scheduler.** RBGs: 4 leave room for two grants, SIB and an RBG to
spare; what SIB and RAR leave of them divides between two UEs with and without a
remainder. One HARQ process per UE can be retransmitted, moved and given up; a
second one would only add another size to keep. The widths 8 and 16 of `total_rbgs`
and `rbgs` are constants: `rbg_grid` uses modulus 8, which holds any cap but wraps
for the sum of two caps of 4; the violation run uses the real widths. RNTIs 7 and 8
with 8 slots make the order of the UE database differ from the order of RNTIs, as
127 and 128 do with 64 slots. Two UEs are enough for any pairwise conflict on the
grid, and the theorems cover the rest.

**Bounds of uplink HARQ.** Blanked sets of none, one and all of three PRBs make a
retransmission stay, move or be skipped; demands of one and two PRBs let two UEs
fit or not. With 3 tries a block can be skipped and moved before its last; the
gap run has 4, as `rr.conf.example`. Tries are what bounds a block, and no state
lasts longer than a block but the NDI, the size and the UE's given-up PDU. A gap of
6 ms covers at most two of the times, 4 ms apart, at which a process is on the air:
`GapPattern` lists the ways. The PHICH list of 8 is scaled to 2, which two UEs do
not fill. The UE compares `current_tx_nb` with the maximum only, so it is counted
one beyond it at most.

**Bounds of downlink HARQ.** Two processes are enough for feedback to reach the
wrong one. Delays of 1 or 2 scale the code's 4; `TtiModAssumption` asks for a
modulus of at least three round trips. `MaxRefused` is 0 in both runs: a
retransmission that is due finds room. With refusals a process can miss its window
without any gap, which is the same defect as in `dl_gap`, and when TTIs wrap its
stale `tti` can match the feedback of another; in the code that takes 10240 TTIs
and not 6. In `dl_gap`, as in the code, the gap keeps the PDSCH off for longer than
the window of `last_ttis` is open (5 TTIs against 4; 10 against 8). `DuplicateTimeout` 2 with 3 tries is the limit
`DuplicateAssumption` allows; the code's 6 with the default 5 tries has more room.

**Bounds of the PHY.** Two workers and a delay of two are the tightest pool the
ring allows (in the code, three and eight); the sync queue of one is what the ZMQ
radio uses. TTIs modulo 5 exceed the delay and the pool, as 10240 does. The
removal's order of claims matters from two workers on. `phy_removal` needs a second
UE to suffer.

**Bounds of the RLC.** A window of 2 in a number space of 4, as 512 in 1024; the
first number is 3, so the first PDU is followed by the wrap. Three pieces in two
SDUs, opportunities for one or two of them, make PDUs that end inside an SDU,
contain an end, and are cut again when retransmitted. Status PDUs have room for
none, one or two NACKs. Three retransmissions (`rb.conf.example` has 4 in the uplink
and 32 in the downlink) let a PDU be repeated whole and in parts, and let
t-PollRetransmission overflow `retx_queue`, which has room for one here, and the
bearer go on: the run holds all its properties through such overflows. What the bound
cuts off are more attempts of the same kind. The traffic is finite and all may rest at
its end, so deadlock is not checked there; it is checked in all other runs. In
`rlc_poll` a window of two PDUs is enough to see the bearer stop.

**Fairness.** `RtE2Loop`: `WF(EnbTti)`, since the radio front-end paces the PHY
workers, which call `get_dl_sched` every subframe whatever the muApp does;
`WF(Deliver)`, since ZeroMQ's I/O thread moves messages as long as the receiver's
queue has room. Nothing is assumed of the muApp: `FallsBackToDefaults` has its
death as a hypothesis. `UlHarq`, `DlHarq`: TTIs go on; nothing is assumed of the
channel, and `Resynchronized` has the end of the fading as its hypothesis.
`PhyPipeline`: every thread runs (weak fairness of the workers and the stack), and
of txrx and a removal, which compete for idle workers, neither loses every time
(strong fairness: `finished()` wakes all who wait). `RlcAm`: the MAC gives an
opportunity to an entity that reports data, timers expire, what is neither lost nor
overtaken arrives; a run has finitely many such steps, so weak fairness of all
together is that of each. Only `rlc_poll` needs it; the properties of `rlc_am` are
safety properties of `Spec`. The properties of `RbgAlloc` are safety properties.

## 4. Theorems

| Theorem | Statement |
|---|---|
| `RtE2LoopProofs!TypeCorrect` | `Spec => []TypeOK`, for every queue depth, number of UEs, carriers and crashes |
| `RtE2LoopProofs!PoliciesOrdered` | `NoWrap => (Spec => []PoliciesInOrder)` |
| `RtE2LoopProofs!AgentNeverGoesBack` | the agent never reads a policy older than one it has read (`RicCntAdvances`), under `NoWrap` |
| `RtE2LoopProofs!OnePolicyAtATime` | `Spec => []SinglePolicy`, with or without a wrap |
| `RtE2LoopProofs!NoOldWeights`, `BothSidesAgree` | `OldOnlyIfStale`, `VerdictAgrees`, under `NoWrap` |
| `RtE2LoopProofs!LoopImplementsFeed` | the loop implements `PolicyFeed` (its safety part), under `NoWrap` |
| `RbgAllocProofs!NoDoubleAllocation` | `Spec => []NoRbgTwice`, for every carrier, set of RNTIs, HARQ processes, weights and widths |
| `RbgAllocProofs!RetransmissionsKeepTheirSize` | `Spec => RetxKeepsSize` |
| `RbgAllocProofs!TypeCorrect`, `NewTransmissionsWithinCap` | `Spec => []TypeOK`, `Spec => []NewTxWithinCap` |
| `RbgAllocProofs!DefaultsAreFair`, `SharesAreDelivered` | `Spec => []FairDefaults`, `Spec => []FairShareDelivered`, for every carrier whose RBGs fit a byte and every number of UEs that fits `ue_rntis` |
| `UlHarqProofs!AssertionHolds`, `OpportunitiesBounded` | `Spec => []SkippedWasNack`; `n_rtx` stays below `maxharq_tx`; for every carrier, set of UEs, maximum of tries, gaps and lost DCIs |
| `UlHarqProofs!TypeCorrect`, `UesCountInStep` | `Spec => []TypeOK`, `Spec => []TransmissionsBounded` |
| `UlHarqProofs!SkippedStaySilent`, `CollisionsOnlyAfterGivingUp` | `Spec => []SkippedIsSilent`, `Spec => []OnlyGivenUpCollide`, under `PhichRoom`; the second if no UE fades |
| `UlHarqProofs!EveryGrantServed` | `Spec => []GrantsServed`, under `PhichRoom` and with at most four transmissions |
| `UlHarqProofs!UlImplementsTbTransfer` | the two ends implement the safety part of `TbTransfer`, under `PhichRoom` |
| `DlHarqProofs!TypeCorrect`, `DeliveredOnce` | `Spec => []TypeOK`, `Spec => []PushedOnce`, for every delay, number of processes, gap and loss |
| `DlHarqProofs!AcksFindTheirProcess`, `LostOnlyUnseen` | `Spec => []AckFindsItsProcess`, `Spec => []OnlyUnseenLost`, under `Undisturbed` |
| `DlHarqProofs!DlImplementsTbTransfer` | the two ends implement the safety part of `TbTransfer`, under `Undisturbed` |
| `PhyPipelineProofs!TypeCorrect`, `GrantsThereInTime`, `TransmittedInOrder` | `TypeOK`, `GrantsSaved`, `SentInOrder`, for every number of UEs and every pool of at most `Delay` workers |
| `PhyPipelineProofs!GrantsMeetTheirUe` | `Spec => []GrantsFindTheirUe`, for the same, whenever and however many UEs are removed |
| `RlcAmTheorems!RlcTypes`, `RlcNoProtocolFailure`, `RlcWindowsOverlap` | `Spec => []TypeOK`, `Spec => []NoProtocolFailure`, `Spec => []WindowsOverlap`, for every window, stream of SDUs, room for NACKs and limit of retransmissions, whatever is lost or overtaken |
| `RlcAmTheorems!RlcInductive` | `Spec => []IInv`, the invariant behind them |
| `RlcAmDelivery!RlcContentHolds` | `Spec => [](ContentInv /\ ConfirmInv)`: both windows, the link and the segments hold the same pieces; nothing is confirmed that the receiver lacks |
| `RlcAmDelivery!RlcImplementsDelivery` | `Spec => ImplementsReliableDelivery` |

*The loop.* `PoliciesInOrder` is not inductive alone: it must know that a report
waiting, or being answered, is not older than the ones it will be compared with
after the next TTI. The proof strengthens it to types, `BoundInv` (`tti_cnt` stays
below the wrap) and `OrderInv` (what is read, queued at the agent, queued at the
muApp, being answered and waiting, pair by pair, rather than over a
concatenation). `SizeInv` says that messages only grow, from what is in use to what
is on its way, so that an overlay covers all of the old weights; `WeightsInv` and
`VerdictInv` tie the weights to the last index read and the two verdicts to each
other. `NoWrap` is needed where indices are compared: index 0 follows index
2^32-1. It says that the bound on `tti_cnt` lies below the modulus, 49 days of
TTIs.

*The scheduler.* `NoRbgTwice` speaks about grants only; a new grant is disjoint
from the old because `alloc_dl` compares it with `dl_mask`. `GridInv` adds that
every grant and the RBGs of SIB and RAR are in `dl_mask`, and that nothing is
granted outside the loop over `dl_queue`. Two lemmas carry the argument: the mask
of a retransmission is free (the first by the check, the second because it is
chosen from the free ones), and the mask of a new transmission is free if it is not
refused, although the mask `find_optimal_rbgmask` proposes is not. That a grant
keeps to its UE's cap also needs that a UE with a grant has left the queue, and
that caps are numbers, which is type correctness. There, the difficulty is the
functions that are CHOSEN: that a list of weights or RNTIs has an *n*-th entry is
shown from least and greatest elements of finite sets of numbers.

The default weights share out *a* RBGs among *n* UEs. A list of *n* entries that
names *n* UEs names each once (`SettledOnce`), so there is no entry without a weight,
each is *q* = *a* div *n*, and the first *a* - *qn* UEs of the list get one more
(`DefaultCaps`). Nothing wraps, because a carrier has no more RBGs than a byte
counts (`WidthAssumption`; 25 of them in the code). `FairInv` keeps this to the end
of the subframe: every cap is *q* or *q* + 1, and *a* - *qn* of them are *q* + 1.
What such caps add up to, on whatever set, is `SumOfNearlyEqual`: the sum is a fold,
a recursive function that has to exist and be the only one. It exists because the
closed form satisfies its equation; a set of least size on which it differed would
contradict the equation, so no induction is needed. `ShareInv` is about the loop
over `dl_queue`: what is free suffices for the caps of all that still wait. A UE
whose turn comes therefore gets a mask of exactly its cap (`LowestExact`), and takes
nothing from those after it.

*Uplink HARQ.* The assertion concerns PHICHs made earlier in the TTI. The invariant
adds that no process is acknowledged and active at once, and that in the
allocation phase an active process has a try left and no ACK in the list. One
lemma per method of `ul_harq_proc` shows that it keeps that; the cases of `Next`
follow from them. `UesCountInStep` is about both sides. The UE compares its counter
with the maximum only when it hears a NACK, so the eNB's counter has to do for the
rest: `StepInv` says that the UE has the NDI of the eNB's process except between the
grant of a new block and its answer, and that it has transmitted no more often than
the eNB has counted. `ReactFacts` says what `new_grant_ul` may do with a DCI and
without one.

The other four theorems need to know where the two processes are. `PhichRoom` says
that the PHICH list is as long as there are UEs; if a PHICH that is due were dropped,
the UE would decode noise. In each phase `Hand` then has two cases for an active
process: the UE awaits the PHICH of its last PUSCH, on the PRBs the eNB has noted,
and will hear what the eNB means; or the process was skipped, the UE has taken an
ACK for it (from the PHICH list, or because the PHICH falls in its gap), and only a
DCI resumes it, which `pending_pdcch` sees to. `Answered` is the same for a process
that has ended: the UE hears an ACK unless the block was given up, which is the one
case where a UE may transmit without a grant. `GridInv` keeps the grants of a TTI
apart. One lemma for each way through `new_grant_ul` (`ReactNew`, `ReactAgain`,
`ReactRepeats`, `ReactSilent`) then gives the step. `SizeInv` adds that the block
keeps the size of its first grant on both sides, and that the UE's redundancy
version is the eNB's wherever no DCI names it. It needs the limit of four
transmissions, the value of `max_harq_tx` in every `rr.conf` here: at the fifth the
version is 0 again and the grant uses MCS 28, and TLC shows the size change.

*Downlink HARQ.* The UE hands a block up again only after it has forgotten it: when
it was repeated `RESET_DUPLICATE_TIMEOUT` times, or its NDI changed. The invariant
bounds the UE's repetitions by the eNB's tries (`CopyInv`), and `TriesInv` says that
`new_tti` ends a process at its last try before it can be chosen. The bound on the
tries is `DuplicateAssumption`. The two sides' NDIs are related only while the UE
has seen the block before, which is the `prevSeen` of `PushedOnce`.

Which process an ACK finds depends on time. `Undisturbed` says that no measurement
gap is configured and that a retransmission that is due finds room. Then a process
in use was transmitted in the last eight TTIs (`TurnInv`), one whose feedback is
awaited is in use (`AwaitedInv`), and no process in use has the turn, the TTI modulo
eight, of one with a lower number, in use or not (`ApartInv`): a new block goes to
the first empty process, in a TTI whose turn no process has. `set_ack_info`
therefore finds the right process first. That TTIs wrap at a multiple of eight is
`TtiModAssumption`, used in `StayApart`. With `AnswerInv` (an ACK is for a pushed
block, unless the block before was missed) and `LossyInv` (only a lossy process has
missed blocks) each step is one of `TbTransfer` (`BlockStep`). With refusals both
properties are false (section 5).

*PHY pipeline.* Everything is counted from the TTI sent last: the *i*-th worker of
the `tti_semaphore` works on the *i*-th TTI from there (`FifoInv`). By the pigeonhole
principle the semaphore is never longer than the pool, and the pool not than
`Delay`, so a worker that reads its grants is too close behind the transmission for
the worker that saved them to be still at work (`SavedInv`). The arithmetic of
remainders is in lemmas of its own.

The removal of a UE counts the stack's clock from the same TTI (`Ahead`): it is at
most `QueueSize` + 1 TTIs behind the last worker, which is what `GrantedAhead` can
tell modulo `TtiMod` (`Newer`). A UE that is not in `late` has no grant further
ahead of the clock than its timer still runs, whether a worker holds it
(`ScheduledFor`) or it is saved (`Within`), because clock and timer move together.
When the timer expires, every worker that made such a grant has therefore
transmitted, and every worker that is to decode one has begun, is busy, and
`rem_rnti` waits for it; the workers forget the UE in the order of the pool
(`KnownInv`), so `clear_grants` has nothing to cross out (`NoneLeft`) and the MAC
erases a UE that no worker holds a grant of.

*RLC AM: the windows.* The entities compare numbers modulo twice the window, relative
to `vt_a` or `vr_r`. The invariant counts without wrapping: there are integers
*a* <= *r* <= *m* <= *h* <= *s* <= *a* + `Window` whose remainders are `vt_a`, `vr_r`,
`vr_ms`, `vr_h` and `vt_s` (`Frame`), and what is on its way lies within a window
of *s* (`DownIsRecent`), which is what `Recent` gives. That is not enough: `vt_a`
must stop at a PDU that still waits, whichever status PDUs come, in whatever order,
and although PHY workers send new PDUs half way through one. So `IInv` also has a
history that the code does not: the set *U* of reports the receiver has sent, each a
last number and what it had then, and the subset *D* that the sender has handled.
A report tells of everything before its `ack_sn` that it does not NACK, and later
reports contain earlier ones (`Chain`). It follows that a number that is no longer
in `tx_window` was acknowledged by a handled report, and that the sender, wherever a
report stops it, stops at a number that no handled report acknowledges (`StopWaits`
in `RlcAmTheorems`), hence at a PDU of the window. `AckFits` says where `ack_sn` may
be: at a number the receiver lacks, or, when the NACKs were cut off, at the last one
before the first that did not fit. The prohibit and poll timers and the retransmission queue play no part
but for types, `retx_queue` staying below the window even when it overflows.

*RLC AM: the data.* `Content` adds one function *P*, the pieces of the PDU of each
number. Those from *a* to *s* follow each other without a gap up to `sent`, both
windows hold just them, a PDU on its way or a segment is a part of one, and what
was passed on is everything before the PDU *r*. A new PDU changes *P* at *s* only,
where nothing old is left because *s* is within a window of *a*. Segments that
satisfy `Complete` add up to the whole PDU, which is shown from the last segment
that any chain from byte 0 reaches, and reassembly from the least number of PDUs at
which it would differ: both without induction, which the provers lack here.
`PassedOn` (received SDUs reach to `sent`, and what is passed on reaches as far as
they allow) and `ConfirmInv` (an SDU of which no PDU of the window but the
acknowledged one has a piece has been received) are what the steps of
`ReliableDelivery` ask for: `write_sdu` is `Offer`, `handle_data_pdu` is `Arrive`,
the end of `handle_control_pdu` is `Confirm`, and all else stutters.

Everything is proved from the named assumptions on constants in the modules (which
TLC evaluates in every run), `NoWrap`, `Undisturbed`, `PhichRoom` and the limit of
four transmissions where stated, and nothing else.

`RlcSn` asks for a window of at least two, the code has 512. The RLC theorems
inherit `Recent` from the model: a PDU that HARQ kept alive for a window of new ones
would break any protocol with these numbers.

Only model-checked: liveness (`FallsBackToDefaults`, `ProcessFreed`,
`Resynchronized`, `TtisGoOn`, `RemovalCompletes`, the liveness parts
of the abstract specifications), which is out of the prover's reach, and one action
property, `NacksKept`: its proof would have to follow each entry of `retx_queue` and
each segment back to a NACK. Every other safety invariant and action property of the
passing runs has its theorem, some under the hypotheses that the table names. What the
hypotheses of the uplink theorems leave out is real: `GrantsServed` fails at the
fifth try, and it and `SkippedIsSilent` when the PHICH list overflows.

## 5. What the checks say about the code

* The loop is safe against loss, delay and restart of the muApp. The socket the
  code means to conflate is a queue, because the option is set after `connect()`
  (`edgeric.cpp:33`, `:38`), so policies can pile up in it.
* Without a policy the scheduler shares the carrier out exactly and delivers the
  shares. With the policies the muApps send it does not do what the readme says.
* The grid is never inconsistent, thanks to one check in `alloc_dl`; the masks
  proposed to it may contain taken RBGs when demands are small
  (`sched_ue_cell.cc:567`) and cost the UE a subframe.
* Uplink HARQ keeps eNB and UE in step through moves, skips and gaps as long as
  DCIs arrive, and finds its way back after losses. It errs at its limits: after a
  skip, the NACK of the eNB's last try makes the UE transmit without a grant
  (`sched_harq.cc:311`; `OnlyGivenUpCollide` bounds the harm), and MCS 28 in the
  fourth retransmission changes the block size (`sched_ue.cc:689`). While DCIs are
  lost, one NDI bit cannot keep a new block from being taken for an old one; that
  is the protocol's limit and not this code's.
* A downlink process whose retransmission is due inside a measurement gap, or finds
  no room for eight TTIs, is stuck until its TTI comes round again after 10240. At
  that moment its stale `tti` can also take another process's ACK.
* The order of the PHY's TTIs and its hand-over of grants are sound; the ring needs
  the pool to be no larger than the delay, which the code does not check. Workers
  that run ahead of the stack's ticks undo the margin `ue_rem` waits for, and a
  removed UE's grant then ends `decode_pusch` early. Read, not modelled: the agent's
  counters and the metric maps are written by several workers under a read lock;
  workers may call the scheduler out of TTI order; `get_ul_sched` tests
  `pusch[n]` where it copies `pusch[i]` (`mac.cc:1159`); worker and stack take
  `phy_ue_db`'s mutex and the MAC's lock in both orders, which is safe only
  because glibc's read locks prefer readers.
* RLC AM delivers nothing wrong, but can stop delivering: after
  t-PollRetransmission a late ACK leaves a dead entry at the head of `retx_queue`
  and the timer expired (`rlc_poll`). No run claims that a bearer goes on, because
  there are four more ways to the same end, and nothing but new data or a status
  PDU that happens to come leads out of them:
  - The last retransmission of a whole PDU carries no poll, since `build_retx_pdu`
    asks `poll_required` before it pops the queue (`rlc_am_lte.cc:497`).
  - The PDU that fills the window carries no poll for that reason, since
    `build_data_pdu` asks before it advances `vt_s` (`rlc_am_lte.cc:878`). When the
    last poll has been answered, the window is full and no timer runs; the entity
    would retransmit `vt_a`, but reports no data and is not asked.
  - A status PDU that was overtaken by a later one flushes what that one queued
    (`rlc_am_lte.cc:943`); it can take a window of four PDUs to see it.
  - t-PollRetransmission queues `vt_a` without a look at the queue. While a
    retransmission goes out in small pieces, or when a PHY worker has polled half way
    through a status PDU, the ring can be full, and then counts as empty
    (`rlc_am_data_structs.h:398`). NACKs alone cannot do that (`NacksKept`).

  `rx_segments` keeps an empty entry after the full PDU has come, and `retx_count`
  counts what is queued, not what is sent; neither does harm.

## 6. Not modelled, and why

`src/` holds two full trees of srsRAN, 1.77 million lines, most of it generated
ASN.1 code and signal processing; what is modelled is a small share of the lines and
most of what EdgeRIC adds or what its effect on the scheduler depends on. Signal
processing, RRC, S1AP, GTP-U, the core network, the rest of the UE's stack and the
5G stack are vendored without a change that concerns EdgeRIC. Dashboards and bridges
only read. The networks of muApp2 are floating-point and random. RLC UM and TM
retransmit nothing. The restart of the eNB is not modelled: its new sockets can
receive at most two policies with an index of the old run.

## 7. What could follow

1. The UE life cycle in the MAC: RACH, RAR and Msg3, `ue_cfg`, RNTI reuse, the
   report's maps; a full PHICH list (`sched_grid.cc:673`), which `UlHarq` has and no
   run fills.
2. RLC re-establishment and `discard_sdu`; the latency window; the delay queues of
   the RL environment.
3. Proofs about the HARQ processes while grants are refused or gaps come: what is
   left of `TbTransfer` then; a proof of `NacksKept`.
