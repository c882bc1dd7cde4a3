------------------------------- MODULE RlcSn -------------------------------
(* Sequence numbers of RLC AM: 10 bits, and windows of half of that. *)
EXTENDS Integers, Sequences, FiniteSets

CONSTANTS
  Window,  \* RLC_AM_WINDOW_SIZE (512)
  FirstSn, \* the sequence number with which the stream begins
  Ends     \* the last piece of each SDU of the stream that is sent

ASSUME WindowAssumption == Window \in Nat \ {0, 1}
ASSUME EndsAssumption == IsFiniteSet(Ends) /\ Ends \subseteq Nat \ {0} /\ Ends # {}

Mod == 2 * Window  \* MOD (1024)
Sn == 0 .. Mod - 1

ASSUME FirstSnAssumption == FirstSn \in Sn

\* The data is a stream of pieces.
Total == CHOOSE e \in Ends : \A f \in Ends : f <= e
Piece == 1 .. Total
EndOf == [p \in Piece |-> CHOOSE e \in Ends : e >= p /\ \A f \in Ends : f >= p => e <= f]
=============================================================================
