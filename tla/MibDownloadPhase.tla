-------------------------- MODULE MibDownloadPhase --------------------------
(***************************************************************************)
(* What the device handler relies on of the MIB download FSM: the phase    *)
(* DeviceHandler keeps in its variable download. A download is started     *)
(* from disabled only; it completes only while the ONU is reachable, and   *)
(* every completion raises exactly one MibDownloadDone for                 *)
(* deviceProcStatusUpdate; a reset or abort returns it to disabled from    *)
(* any other phase. MibDownloadFsm implements this (see its                *)
(* PhaseRefinement).                                                       *)
(***************************************************************************)
EXTENDS Naturals

VARIABLES
  download,   \* "disabled", "running" or "done"
  doneEvents, \* MibDownloadDone events raised and not yet handled
  reachable   \* the ONU is up

vars == <<download, doneEvents, reachable>>

Phases == {"disabled", "running", "done"}

TypeOK ==
  /\ download \in Phases
  /\ doneEvents \in Nat
  /\ reachable \in BOOLEAN

Init ==
  /\ download = "disabled"
  /\ doneEvents = 0
  /\ reachable \in BOOLEAN

\* processMibDatabaseSyncEvent starts the download from disabled only.
Start ==
  /\ download = "disabled"
  /\ download' = "running"
  /\ UNCHANGED <<doneEvents, reachable>>

\* The last bridge response drives the FSM to dlStDownloaded, whose entry
\* raises MibDownloadDone.
Finish ==
  /\ download = "running" /\ reachable
  /\ download' = "done"
  /\ doneEvents' = doneEvents + 1
  /\ UNCHANGED reachable

\* dlEvReset: the decoupled reset after a completion, a failed step or a
\* timed-out wait, or updateInterface's stop.
Reset ==
  /\ download # "disabled"
  /\ download' = "disabled"
  /\ UNCHANGED <<doneEvents, reachable>>

\* deviceProcStatusUpdate handles one MibDownloadDone.
Handle ==
  /\ doneEvents > 0
  /\ doneEvents' = doneEvents - 1
  /\ UNCHANGED <<download, reachable>>

\* A down indication: updateInterface may stop the download in the same
\* step.
Down ==
  /\ reachable' = FALSE
  /\ download' \in {download, "disabled"}
  /\ UNCHANGED doneEvents

\* An up indication.
Up ==
  /\ ~reachable
  /\ reachable' = TRUE
  /\ UNCHANGED <<download, doneEvents>>

Next == Start \/ Finish \/ Reset \/ Handle \/ Down \/ Up

Spec == Init /\ [][Next]_vars

====
