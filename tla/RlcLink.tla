------------------------------ MODULE RlcLink ------------------------------
(***************************************************************************)
(* What is between two RLC entities: MAC, HARQ and the radio, which lose   *)
(* PDUs and let one overtake another.                                      *)
(***************************************************************************)
EXTENDS RlcSn

CONSTANTS
  MaxInFlight,  \* bound on the PDUs on their way in each direction
  Overtaking    \* runs in which a PDU may overtake another: {FALSE, TRUE} for both kinds

ASSUME MaxInFlightAssumption == MaxInFlight \in Nat \ {0}
ASSUME OvertakingAssumption == Overtaking \subseteq BOOLEAN

VARIABLES
  down,  \* data PDUs on their way
  up,    \* status PDUs on their way
  overtaking  \* does HARQ let a PDU overtake another in this run?

linkVars == <<down, up, overtaking>>

LinkInit ==
  /\ down = << >> /\ up = << >>
  /\ overtaking \in Overtaking

\* A HARQ transmission takes a few TTIs at most, a window many more: a PDU is
\* overtaken at most once.
Sent(ch, pdu) ==
  {Append(ch, [pdu |-> pdu, late |-> FALSE])} \cup
  IF overtaking /\ ch # << >> /\ ~ ch[Len(ch)].late
  THEN {SubSeq(ch, 1, Len(ch) - 1) \o
          <<[pdu |-> pdu, late |-> FALSE], [ch[Len(ch)] EXCEPT !.late = TRUE]>>}
  ELSE {}

Without(ch, k) == SubSeq(ch, 1, k - 1) \o SubSeq(ch, k + 1, Len(ch))

SendDown(pdu) == Len(down) < MaxInFlight /\ down' \in Sent(down, pdu)
SendUp(status) == Len(up) < MaxInFlight /\ up' \in Sent(up, status)
=============================================================================
