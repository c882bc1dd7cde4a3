----------------------------- MODULE MCUlHarq -----------------------------
(* The instances of UlHarq that TLC checks: the PRBs that may be taken   *)
(* before uplink data, by PUCCH, PRACH or EdgeRIC's blanking.              *)
EXTENDS UlHarq

Blanked == {{}, {0}, {0, 1, 2}}
=============================================================================
