----------------------------- MODULE PolicyFeed -----------------------------
(***************************************************************************)
(* What the RT-E2 loop promises the scheduler, without sockets, processes  *)
(* or messages. A policy is named by the TTI of the report it answers. The *)
(* scheduler applies a policy only if it answers one of the last two       *)
(* reports and is newer than every policy seen before; a policy seen too   *)
(* late leaves what is applied alone; and when no policy is seen the       *)
(* scheduler goes back to its defaults.                                    *)
(***************************************************************************)
EXTENDS Integers

VARIABLES
  now,      \* the TTI counter
  newest,   \* the newest policy seen
  applied   \* the policy the scheduler uses, or Default

Default == -1

feedVars == <<now, newest, applied>>

FeedInit ==
  /\ now = 0
  /\ newest = 0
  /\ applied = Default

Advance ==
  /\ now' = now + 1
  /\ UNCHANGED <<newest, applied>>

\* A policy may be empty, and then there is nothing to apply.
Apply ==
  \E s \in {now - 1, now} :
    /\ newest < s
    /\ newest' = s
    /\ applied' \in {s, Default}
    /\ UNCHANGED now

TooLate ==
  \E s \in newest + 1 .. now - 2 :
    /\ newest' = s
    /\ UNCHANGED <<now, applied>>

FallBack ==
  /\ applied' = Default
  /\ UNCHANGED <<now, newest>>

FeedNext == Advance \/ Apply \/ TooLate \/ FallBack

FeedSpec == FeedInit /\ [][FeedNext]_feedVars
=============================================================================
