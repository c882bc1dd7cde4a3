---------------------------- MODULE TbTransfer ----------------------------
(***************************************************************************)
(* What HARQ promises to the layers above it. A process takes one          *)
(* transport block at a time; a block gets at most MaxRetx opportunities,  *)
(* of which it may use fewer; it is delivered once, or given up, but not   *)
(* before the last opportunity; one of the two happens. Where grants are   *)
(* lost a block may also be lost without notice. Uplink has one            *)
(* process for each member of Ues, downlink several for one UE; they share *)
(* the subframes, so several blocks move in one step.                      *)
(***************************************************************************)
EXTENDS Integers

CONSTANTS Ues, MaxRetx

VARIABLES
  tb,    \* the block of each process and the opportunities it has had
  lossy  \* the processes whose grants the link may lose

Ended(how) == [state |-> how, tries |-> 0]
Busy(n) == [state |-> "busy", tries |-> n]
IsBusy(b) == b.state = "busy"

Init == tb = [u \in Ues |-> Ended("none")] /\ lossy \in SUBSET Ues

Begin(u) == ~ IsBusy(tb[u]) /\ tb'[u] = Busy(1)

Retry(u) ==
  IsBusy(tb[u]) /\ tb[u].tries < MaxRetx /\ tb'[u] = Busy(tb[u].tries + 1)

Deliver(u) == IsBusy(tb[u]) /\ tb'[u] = Ended("delivered")

GiveUp(u) ==
  IsBusy(tb[u]) /\ tb[u].tries = MaxRetx /\ tb'[u] = Ended("given_up")

Lose(u) == u \in lossy /\ IsBusy(tb[u]) /\ tb'[u] = Ended("lost")

Next ==
  /\ \A u \in Ues :
       \/ tb'[u] = tb[u]
       \/ Begin(u) \/ Retry(u) \/ Deliver(u) \/ GiveUp(u) \/ Lose(u)
  /\ UNCHANGED lossy

NoBlockStays == \A u \in Ues : []<>(~ IsBusy(tb[u]))

Spec == Init /\ [][Next]_<<tb, lossy>> /\ NoBlockStays
=============================================================================
