--------------------------- MODULE AniConfigPhase ---------------------------
(***************************************************************************)
(* What the device handler relies on of one UNI's ANI config FSM: the      *)
(* phase DeviceHandler keeps in ani[u], with the UNI's tech-profile        *)
(* configDone marker and the OmciAniConfigDone reports. A run starts from  *)
(* idle; a run that completes reports OmciAniConfigDone once and sets      *)
(* configDone; a run cut short goes through resetting back to idle and     *)
(* sets configDone without a report; updateInterface clears configDone.    *)
(* AniConfigFsm implements this (see its PhaseRefinement).                 *)
(***************************************************************************)
EXTENDS Naturals

VARIABLES
  ani,        \* "idle", "running" or "resetting"
  configDone, \* onuUniTechProf's configDone of the UNI
  reports     \* OmciAniConfigDone reports so far

vars == <<ani, configDone, reports>>

TypeOK ==
  /\ ani \in {"idle", "running", "resetting"}
  /\ configDone \in BOOLEAN
  /\ reports \in Nat

Init ==
  /\ ani = "idle"
  /\ configDone = FALSE
  /\ reports = 0

\* The tech-profile download starts the FSM from disabled only.
Start ==
  /\ ani = "idle"
  /\ ani' = "running"
  /\ UNCHANGED <<configDone, reports>>

\* A run that reached aniStConfigDone ends in disabled: one report, and the
\* marker is set.
Complete ==
  /\ ani = "running"
  /\ ani' = "idle"
  /\ configDone' = TRUE
  /\ reports' = reports + 1

\* A failed step, a timed-out wait or the no-pbit branch resets the run.
Abort ==
  /\ ani = "running"
  /\ ani' = "resetting"
  /\ UNCHANGED <<configDone, reports>>

\* updateInterface: aniEvReset, then configDone cleared. A run that has
\* already completed its configuration still reports it.
DeviceReset ==
  /\ configDone' = FALSE
  /\ ani' \in IF ani = "running" THEN {"running", "resetting"} ELSE {ani}
  /\ UNCHANGED reports

\* The restart after a reset: the run ends in disabled without a report,
\* and the marker is set all the same.
Restart ==
  /\ ani = "resetting"
  /\ ani' = "idle"
  /\ configDone' = TRUE
  /\ UNCHANGED reports

Next == Start \/ Complete \/ Abort \/ DeviceReset \/ Restart

Spec == Init /\ [][Next]_vars

====
