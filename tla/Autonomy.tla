------------------------------ MODULE Autonomy ------------------------------
(***************************************************************************)
(* What the lifecycle promises about one agent x task, without saying how  *)
(* it decides: the mode in force, the promotion on offer and who answers   *)
(* for the mode. Authority is given by humans and taken away by anyone.    *)
(***************************************************************************)
CONSTANTS
  Operating,          \* the modes an agent works in
  Entry,              \* the operating mode at the bottom
  NextBandUp(_),      \* the mode a promotion from a mode leads to
  OneBandDown(_),     \* the mode an automatic demotion leads to
  NoBand              \* no promotion on offer

VARIABLES
  mode,      \* the mode in force
  offer,     \* the mode a pending promotion would lead to, or NoBand
  authority  \* who set the mode: the engine or a human

vars == <<mode, offer, authority>>

Init ==
  /\ mode = "OBSERVING"
  /\ offer = NoBand
  /\ authority = "ENGINE"

\* Enough evidence has been observed: work starts at the bottom.
Enter ==
  /\ mode = "OBSERVING"
  /\ mode' = Entry
  /\ offer' = NoBand
  /\ authority' = "ENGINE"

\* The engine offers the next band up. The mode does not move.
Offer ==
  /\ offer = NoBand
  /\ mode \in Operating
  /\ NextBandUp(mode) # NoBand
  /\ offer' = NextBandUp(mode)
  /\ UNCHANGED <<mode, authority>>

\* The engine takes an offer back.
Withdraw ==
  /\ offer # NoBand
  /\ offer' = NoBand
  /\ UNCHANGED <<mode, authority>>

\* A human accepts the offer: the only earned way up.
Accept ==
  /\ offer # NoBand
  /\ mode' = offer
  /\ offer' = NoBand
  /\ authority' = "HUMAN"

\* The engine lowers the mode by one band, or parks the task.
Fall ==
  /\ mode # "SUSPENDED"
  /\ \/ mode \in Operating /\ mode' = OneBandDown(mode)
     \/ mode' = "SUSPENDED"
  /\ offer' = NoBand
  /\ authority' = "ENGINE"

\* A human sets an operating mode directly.
FreeSet ==
  /\ mode # "SUSPENDED"
  /\ mode' \in Operating
  /\ offer' = NoBand
  /\ authority' = "HUMAN"

\* A human parks the task, or lets a parked task start over.
KillSwitch ==
  /\ mode' = IF mode = "SUSPENDED" THEN "OBSERVING" ELSE "SUSPENDED"
  /\ offer' = NoBand
  /\ authority' = "HUMAN"

Next ==
  \/ Enter
  \/ Offer
  \/ Withdraw
  \/ Accept
  \/ Fall
  \/ FreeSet
  \/ KillSwitch

Spec == Init /\ [][Next]_vars
==============================================================================
