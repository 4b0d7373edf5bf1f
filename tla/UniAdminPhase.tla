--------------------------- MODULE UniAdminPhase ---------------------------
(***************************************************************************)
(* What the device handler relies on of its lock and unlock FSMs, per      *)
(* direction: a run starts only from idle and only on a request; a         *)
(* request first cuts short a running run of the other direction; a run    *)
(* that completes reports to the device handler exactly once; a run cut   *)
(* short reports nothing; a finished or aborted run returns to idle.       *)
(* Which success event a report carries is left out: the code replaces it  *)
(* on every request, also while a run is going (uniportadmin.go:154),      *)
(* although its comment at :152 says this happens only when disabled.      *)
(* UniLockFsm implements this (see its PhaseRefinement).                   *)
(***************************************************************************)
EXTENDS Naturals

VARIABLES
  phase,     \* [Dirs -> {"idle", "running", "finishing"}]
  reports    \* number of success events reported to the device handler

vars == <<phase, reports>>

Dirs == {"lock", "unlock"}
Opposite(d) == IF d = "lock" THEN "unlock" ELSE "lock"

Init ==
  /\ phase = [d \in Dirs |-> "idle"]
  /\ reports = 0

\* A request for direction d: a running run of the other direction is
\* cut short; d starts if it is idle and is left alone otherwise.
Request(d) ==
  /\ phase' = [x \in Dirs |->
                 CASE x = d /\ phase[x] = "idle" -> "running"
                   [] x = Opposite(d) /\ phase[x] = "running" -> "finishing"
                   [] OTHER -> phase[x]]
  /\ UNCHANGED reports

\* A run sets every entity and reports its success event.
Complete(d) ==
  /\ phase[d] = "running"
  /\ phase' = [phase EXCEPT ![d] = "finishing"]
  /\ reports' = reports + 1

\* A run is cut short (timeout, reset) without a report.
Abort(d) ==
  /\ phase[d] = "running"
  /\ phase' = [phase EXCEPT ![d] = "finishing"]
  /\ UNCHANGED reports

\* A finished or aborted run is back to idle, ready for the next request.
Settle(d) ==
  /\ phase[d] = "finishing"
  /\ phase' = [phase EXCEPT ![d] = "idle"]
  /\ UNCHANGED reports

Next ==
  \E d \in Dirs :
    \/ Request(d)
    \/ Complete(d) \/ Abort(d) \/ Settle(d)

Spec == Init /\ [][Next]_vars

====
