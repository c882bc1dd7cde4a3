---------------------------- MODULE RlcAmContent ----------------------------
(***************************************************************************)
(* The second half of the inductive invariant of RlcAm: what the PDUs      *)
(* carry. P is the pieces of the PDU that has a sequence number. Those     *)
(* from vt_a to vt_s follow each other without a gap; both windows, the    *)
(* segments and the link hold them or parts of them; and the pieces that   *)
(* were passed on are those before the PDU vr_r.                           *)
(***************************************************************************)
EXTENDS RlcAmInv

Intervals == [lo : Nat, hi : Nat]

\* The first piece of the PDU with number sn; vt_s is that of the next one.
First(P, sn) == IF sn = vtS THEN sent + 1 ELSE P[sn].lo

Follow(P, a, s) ==
  \A j \in a .. s - 1 :
    LET c == P[SnOf(j)]
    IN 1 <= c.lo /\ c.lo <= c.hi /\ c.hi + 1 = First(P, SnOf(j + 1))

\* x is a part of the PDU with the pieces c, from byte so on.
PartOf(x, c) ==
  1 <= c.lo /\ x.lo = c.lo + x.so /\ x.hi <= c.hi /\ (x.lsf => x.hi = c.hi)

\* A PDU that is not resegmented has no so and no lsf: it is all there.
Whole(x) == x.so = 0 /\ x.lsf

SameAs(x, c) == x.lo = c.lo /\ x.hi = c.hi

Places(a, r, s) ==
  /\ vtA = SnOf(a) /\ vrR = SnOf(r) /\ vtS = SnOf(s)
  /\ a <= r /\ r <= s /\ s <= a + Window

Content(P, a, r, s) ==
  /\ Places(a, r, s)
  /\ Follow(P, a, s)
  /\ \A sn \in Sn : InWindow(sn) => SameAs(txWindow[sn], P[sn])
  /\ \A x \in Carried(down) : PartOf(x, P[x.sn]) /\ (~ x.rf => Whole(x))
  /\ \A sn \in Sn : rxWindow[sn] # None => SameAs(rxWindow[sn], P[sn])
  /\ \A sn \in Sn : \A x \in rxSegments[sn] :
       PartOf(x, P[sn]) /\ \E j \in r .. s - 1 : sn = SnOf(j)
  /\ got = [n \in 1 .. First(P, vrR) - 1 |-> n]

ContentInv ==
  \E P \in [Sn -> Intervals] : \E a, r, s \in Int : Content(P, a, r, s)

\* What has been passed on goes as far as what the receiver has allows.
PassedOn ==
  /\ Received \subseteq Ends /\ \A e \in Received : e <= sent
  /\ Len(got) \in 0 .. sent /\ got = [n \in 1 .. Len(got) |-> n]
  /\ \A e \in Ends : e <= Len(got) => e \in Received
  /\ \A e \in Received : {f \in Ends : f < e} \subseteq Received => e <= Len(got)

\* What the sender was told, or is about to be told, has arrived.
ConfirmInv == confirmed \subseteq Received /\ ctl.acked \subseteq Received
=============================================================================
