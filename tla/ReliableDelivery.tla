------------------------- MODULE ReliableDelivery -------------------------
(***************************************************************************)
(* What an RLC AM bearer promises PDCP. The stream of SDUs arrives without *)
(* a gap, a change of order or a repetition, and no later than the SDUs    *)
(* before it allow; the sender is told of the delivery of SDUs that the    *)
(* receiver has, if they have yet to wait there for earlier ones.          *)
(***************************************************************************)
EXTENDS RlcSn

VARIABLES
  written,   \* the last piece the sender has been given
  received,  \* SDUs the receiver has
  got,       \* the pieces it has passed on
  confirmed  \* SDUs the sender was told of

deliveryVars == <<written, received, got, confirmed>>

Init == written = 0 /\ received = {} /\ got = << >> /\ confirmed = {}

Offer ==
  /\ written < Total
  /\ written' = EndOf[written + 1]
  /\ UNCHANGED <<received, got, confirmed>>

Arrive ==
  LET new == received'
      passed == Len(got')
  IN /\ received \subseteq new /\ \A e \in new : e \in Ends /\ e <= written
     /\ passed \in Len(got) .. written
     /\ got' = [k \in 1 .. passed |-> k]
     /\ \A e \in Ends : e <= passed => e \in new
     /\ \A e \in new : {f \in Ends : f < e} \subseteq new => e <= passed
     /\ UNCHANGED <<written, confirmed>>

Confirm ==
  /\ confirmed \subseteq confirmed' /\ confirmed' \subseteq received
  /\ UNCHANGED <<written, received, got>>

Next == Offer \/ Arrive \/ Confirm

Spec == Init /\ [][Next]_deliveryVars
=============================================================================
