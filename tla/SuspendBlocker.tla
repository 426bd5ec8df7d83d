--------------------------- MODULE SuspendBlocker ---------------------------
(***************************************************************************)
(* What the wake-lock core promises its users (include/linux/wakelock.h,   *)
(* kernel/power/Kconfig): a held lock keeps the system from sleeping, and  *)
(* "the sleep request will be delayed until no wake locks are held", that  *)
(* is, delayed and not dropped.  How locks expire, who looks for them and  *)
(* when is left open.                                                      *)
(***************************************************************************)
CONSTANT Blockers

VARIABLES
  held,    \* the blockers that are held
  phase    \* what the system does about sleeping

vars == <<held, phase>>

Init ==
  /\ held \subseteq Blockers
  /\ phase = "awake"

\* Blockers come and go at any time the system is not asleep.
Change ==
  /\ phase # "asleep"
  /\ held' \in SUBSET Blockers
  /\ UNCHANGED phase

\* An attempt may begin although a blocker is held: it will not get far.
Attempt ==
  /\ phase = "awake"
  /\ phase' = "attempting"
  /\ UNCHANGED held

Abort ==
  /\ phase = "attempting"
  /\ phase' = "awake"
  /\ UNCHANGED held

Sleep ==
  /\ phase = "attempting"
  /\ held = {}
  /\ phase' = "asleep"
  /\ UNCHANGED held

Wake ==
  /\ phase = "asleep"
  /\ phase' = "awake"
  /\ UNCHANGED held

Next == Change \/ Attempt \/ Abort \/ Sleep \/ Wake

\* With no blocker held the system tries to sleep, and an attempt ends.
Fairness ==
  /\ WF_vars(held = {} /\ Attempt)
  /\ WF_vars(Abort \/ Sleep)

SafeSpec == Init /\ [][Next]_vars

Spec == SafeSpec /\ Fairness
=============================================================================
