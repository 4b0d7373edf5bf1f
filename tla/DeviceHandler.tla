--------------------------- MODULE DeviceHandler ---------------------------
(***************************************************************************)
(* The ONU device handler (device_handler.go): adoption and reconciliation *)
(* after an adapter restart, the ONU up / down indications of the OLT      *)
(* (createInterface, updateInterface), the domain events the OMCI          *)
(* configuration FSMs raise (deviceProcStatusUpdate), the UNI port state   *)
(* updates sent to the core, and the tech-profile and flow requests that   *)
(* start the ANI and VLAN configuration of a UNI.                          *)
(*                                                                         *)
(* The OMCI FSMs themselves (modelled in detail by MibDownloadFsm,         *)
(* UniLockFsm and AniConfigFsm) are reduced here to the phase they are in: *)
(* started by the handler, reset by updateInterface, and finishing when    *)
(* the ONU answers. An FSM that finishes calls deviceProcStatusUpdate from *)
(* its own goroutine, so the MIB and unlock completions are kept as events *)
(* in flight that the handler processes in a later step.                   *)
(***************************************************************************)
EXTENDS Naturals, FiniteSets, Bags, BagsExt

CONSTANTS
  Unis,       \* UNI ids the MIB announces (UNI-G / VEIP instances)
  PersTp,     \* UNIs with a tech-profile path persisted in the KV store
  StateUnis,  \* UNIs of activeUniPortStateUpdateMask
  MaxDowns    \* bound on ONU down indications

ASSUME PersTp \subseteq Unis /\ StateUnis \subseteq Unis /\ MaxDowns \in Nat

Reasons == {"", "activating-onu", "starting-openomci",
            "discovery-mibsync-complete", "initial-mib-downloaded",
            "tech-profile-config-download-success", "omci-flows-pushed",
            "stopping-openomci", "rebooting-onu"}

\* The core's view of the device: connect / oper status of DeviceStateUpdate.
CoreDevStates == {"none", "activating", "active", "unreachable"}
OperStates == {"UNKNOWN", "DISCOVERED", "ACTIVE"}

VARIABLES
  devFsm,      \* pDeviceStateFsm: only devEvDeviceInit is ever fired
  reconciling, \* dh.reconciling
  onuUp,       \* the ONU is reachable and answers OMCI
  hPc,         \* the ONU indication handler (createInterface / updateInterface)
  reason,      \* dh.deviceReason
  coreDev,     \* last DeviceStateUpdate the core got
  ports,       \* uniEntityMap: the UNIs with a port object
  oper,        \* onuUniPort.operState
  corePort,    \* the core's port record: "none" or the last oper status
  portMsgs,    \* in-flight `go coreProxy.PortStateUpdate` calls <<uni, state>>
  gor,         \* bag of started goroutines of the handler not yet run
  events,      \* bag of FSM completions whose deviceProcStatusUpdate is due
  uploading,   \* MIB upload FSM running
  download,    \* MIB download FSM: disabled / running / stalled / timingOut / done
  unlocking,   \* unlock FSM running
  ani,         \* per UNI: ANI config FSM idle / running / resetting
  configDone,  \* per UNI: pOnuTP configDone marker
  tpPath,      \* per UNI: a path in pOnuTP's PersUniTpPath
  vlan,        \* per UNI: UniVlanConfigFsmMap entry none / starting / waitingTp /
               \* configuring
  verifyGo,    \* bag of UNIs with a `go verifyUniVlanConfigRequest` pending
  downs        \* ONU down indications so far

vars == <<devFsm, reconciling, onuUp, hPc, reason, coreDev,
          ports, oper, corePort, portMsgs, gor, events, uploading, download,
          unlocking, ani, configDone, tpPath, vlan, verifyGo, downs>>

coreVars == <<coreDev, corePort, portMsgs>>
fsmVars == <<uploading, download, unlocking, ani, configDone, tpPath, vlan, verifyGo>>

TypeOK ==
  /\ devFsm \in {"devStNull", "devStInit"}
  /\ reconciling \in BOOLEAN /\ onuUp \in BOOLEAN
  /\ hPc \in {"idle", "ciVerify", "uiStopping"}
  /\ reason \in Reasons
  /\ coreDev \in CoreDevStates
  /\ ports \subseteq Unis
  /\ oper \in [Unis -> OperStates]
  /\ corePort \in [Unis -> OperStates \cup {"none"}]
  /\ IsABag(portMsgs) /\ BagToSet(portMsgs) \subseteq Unis \X OperStates
  /\ IsABag(gor)
  /\ BagToSet(gor) \subseteq {"reconcileInd", "enablePorts", "reconcileTp", "dlReset"}
  /\ IsABag(events)
  /\ BagToSet(events) \subseteq {"MibDatabaseSync", "MibDownloadDone", "UniUnlockStateDone"}
  /\ uploading \in BOOLEAN /\ unlocking \in BOOLEAN
  /\ download \in {"disabled", "running", "stalled", "timingOut", "done"}
  /\ ani \in [Unis -> {"idle", "running", "resetting"}]
  /\ configDone \in [Unis -> BOOLEAN] /\ tpPath \in [Unis -> BOOLEAN]
  /\ vlan \in [Unis -> {"none", "starting", "waitingTp", "configuring"}]
  /\ IsABag(verifyGo) /\ BagToSet(verifyGo) \subseteq Unis
  /\ downs \in 0..MaxDowns

(* The adapter starts a handler either for a new ONU (Adopt_device) or,   *)
(* after a restart, for an ONU the core already knows (Reconcile_device,   *)
(* which sets reconciling); the ONU of a reconciled device is up and its   *)
(* device and UNI ports are known to the core as active. The adapter code  *)
(* that decides this is outside device_handler.go.                         *)
CoreAtStart(rec) ==
  [dev |-> IF rec THEN "active" ELSE "none", port |-> IF rec THEN "ACTIVE" ELSE "none"]

(* newDeviceHandler: a fresh handler with empty maps and no FSM running.   *)
Init ==
  /\ devFsm = "devStNull"
  /\ reconciling \in BOOLEAN
  /\ onuUp = reconciling
  /\ hPc = "idle"
  /\ reason = ""
  /\ coreDev = CoreAtStart(reconciling).dev
  /\ ports = {}
  /\ oper = [u \in Unis |-> "UNKNOWN"]
  /\ corePort = [u \in Unis |-> CoreAtStart(reconciling).port]
  /\ portMsgs = EmptyBag /\ gor = EmptyBag /\ events = EmptyBag
  /\ uploading = FALSE /\ download = "disabled" /\ unlocking = FALSE
  /\ ani = [u \in Unis |-> "idle"]
  /\ configDone = [u \in Unis |-> FALSE]
  /\ tpPath = [u \in Unis |-> FALSE]
  /\ vlan = [u \in Unis |-> "none"]
  /\ verifyGo = EmptyBag
  /\ downs = 0

(* pOnuTP's tpProcMutex is free: it is held from the tech-profile request  *)
(* (or reconcileDeviceTechProf) until waitForTpCompletion returns, i.e.    *)
(* while the ANI config FSM the request started runs. The 30 s deadline of *)
(* waitForTpCompletion is not modelled.                                    *)
TpProcFree == \A u \in Unis : ani[u] = "idle"

(* Steps that do no I/O -- the decoupled dlEvReset and aniEvRestart,     *)
(* processUniUnlockStateDoneEvent, enableUniPortStateUpdate,              *)
(* reconcileDeviceTechProf (which only starts configureUniTp) and         *)
(* verifyUniVlanConfigRequest -- take no time: they run before any step    *)
(* that waits for the OLT, the ONU, the core or the KV store completes.    *)
(* Steps with I/O take as long as they take, in any order.                 *)
NoLocalWork ==
  /\ \A g \in {"dlReset", "enablePorts"} : ~BagIn(g, gor)
  /\ BagIn("reconcileTp", gor) => ~TpProcFree
  /\ ~BagIn("UniUnlockStateDone", events)
  /\ verifyGo = EmptyBag
  /\ \A u \in Unis : ani[u] # "resetting" /\ vlan[u] # "starting"

\* `go coreProxy.PortStateUpdate(..., uniPort.operState)` for every UNI of a
\* set: the state is read when the goroutine is started.
PortUpdates(S, st) == portMsgs (+) SetToBag({<<u, st>> : u \in S})

-----------------------------------------------------------------------------
(* adoptOrReconcileDevice: devEvDeviceInit from devStNull, with its        *)
(* callbacks. doStateInit sets deviceReason activating-onu and, unless      *)
(* reconciling, registers the device and the PON port with the core;      *)
(* postInit creates the ONU device entry and, when reconciling, starts     *)
(* `go reconcileDeviceOnuInd`. A second adoption is only logged.           *)
Adopt ==
  /\ NoLocalWork
  /\ devFsm = "devStNull"
  /\ devFsm' = "devStInit"
  /\ reason' = "activating-onu"
  /\ gor' = IF reconciling THEN BagAdd(gor, "reconcileInd") ELSE gor
  /\ UNCHANGED <<reconciling, onuUp, hPc, ports, oper, downs, events>>
  /\ UNCHANGED coreVars /\ UNCHANGED fsmVars

(* The first part of createInterface: unless reconciling the core gets     *)
(* REACHABLE / ACTIVATING; the device entry is started, deviceReason set   *)
(* to starting-openomci, and the OMCI verify Get sent; the handler then     *)
(* waits up to 2 s for its result. If pDevEntry.start fails, createInterface *)
(* returns before any of that.                                             *)
CreateInterfaceBegin ==
  /\ coreDev' = IF reconciling THEN coreDev ELSE "activating"
  /\ \/ /\ reason' = "starting-openomci"
        /\ hPc' = "ciVerify"
     \/ UNCHANGED <<reason, hPc>>

(* reconcileDeviceOnuInd: the tech-profile data is restored from the KV    *)
(* store; if that fails reconciling ends, otherwise createInterface runs   *)
(* with the persisted ONU indication.                                      *)
ReconcileDeviceOnuInd ==
  /\ NoLocalWork
  /\ BagIn("reconcileInd", gor) /\ hPc = "idle"
  /\ gor' = BagRemove(gor, "reconcileInd")
  /\ \/ /\ reconciling' = FALSE
        /\ UNCHANGED <<hPc, reason, coreDev, tpPath>>
     \/ /\ tpPath' = [u \in Unis |-> u \in PersTp]
        /\ CreateInterfaceBegin
        /\ UNCHANGED reconciling
  /\ UNCHANGED <<devFsm, onuUp, ports, oper, corePort, portMsgs, events, downs,
                 uploading, download, unlocking, ani, configDone, vlan, verifyGo>>

(* An "up" ONU indication of the OLT (processInterAdapterONUIndReqMessage) *)
(* runs createInterface.                                                   *)
OnuIndUp ==
  /\ devFsm = "devStInit" /\ hPc = "idle" /\ ~onuUp
  /\ NoLocalWork
  /\ onuUp' = TRUE
  /\ CreateInterfaceBegin
  /\ UNCHANGED <<devFsm, reconciling, ports, oper, corePort, portMsgs, gor,
                 events, downs>>
  /\ UNCHANGED fsmVars

(* The rest of createInterface, once the verify result came or the 2 s     *)
(* timer fired (the result is only logged): the MIB upload FSM is started  *)
(* with ulEvStart and ulEvResetMib. An upload FSM that is not disabled     *)
(* (one a reboot's down left running) is only logged, and goes on.        *)
CreateInterfaceEnd ==
  /\ NoLocalWork
  /\ hPc = "ciVerify"
  /\ hPc' = "idle"
  /\ uploading' = TRUE
  /\ UNCHANGED <<devFsm, reconciling, onuUp, reason, ports, oper, gor, events,
                 downs, download, unlocking, ani, configDone, tpPath, vlan,
                 verifyGo>>
  /\ UNCHANGED coreVars

(* The default branch of updateInterface's switch: uniEvReset of the lock  *)
(* and unlock FSMs, aniEvReset, and for every UNI of uniEntityMap          *)
(* setConfigDone(false) and vlanEvReset of its VLAN FSM, which leaves      *)
(* UniVlanConfigFsmMap.                                                    *)
ResetUniConfig ==
  /\ unlocking' = FALSE
  /\ ani' = [u \in Unis |-> IF ani[u] = "running" THEN "resetting" ELSE ani[u]]
  /\ configDone' = [u \in Unis |-> IF u \in ports THEN FALSE ELSE configDone[u]]
  /\ vlan' = [u \in Unis |-> IF u \in ports THEN "none" ELSE vlan[u]]
  /\ UNCHANGED uploading

(* A running MIB download that updateInterface does not reset loses its    *)
(* outstanding request to the unreachable ONU: in dlStCreatingGal or       *)
(* dlStSettingOnu2G nothing times out and it stays (stalled); in the bridge *)
(* loop waitforOmciResponse's 30 s timer will reset it (timingOut).        *)
StrandDownload ==
  download' \in IF download = "running" THEN {"stalled", "timingOut"} ELSE {download}

(* A "down" or "unreachable" indication runs updateInterface. Unless       *)
(* deviceReason is already stopping-openomci, it stops what deviceReason   *)
(* says runs: the MIB upload (starting-openomci), the MIB download         *)
(* (discovery-mibsync-complete), or else the lock / unlock and ANI FSMs,   *)
(* each UNI's configDone marker and its VLAN FSM (which a reset removes    *)
(* from UniVlanConfigFsmMap). It stops the device entry and sets the UNI   *)
(* ports' operState UNKNOWN, each with a `go PortStateUpdate`; the core    *)
(* calls that follow are the next step.                                    *)
OnuIndDown ==
  /\ devFsm = "devStInit" /\ hPc = "idle" /\ onuUp /\ downs < MaxDowns
  /\ NoLocalWork
  /\ onuUp' = FALSE
  /\ downs' = downs + 1
  /\ IF reason = "stopping-openomci"
       THEN UNCHANGED <<hPc, oper, portMsgs, fsmVars>>
       ELSE
        /\ hPc' = "uiStopping"
        /\ CASE reason = "starting-openomci" ->
                  /\ uploading' = FALSE
                  /\ UNCHANGED <<download, unlocking, ani, configDone, vlan>>
             [] reason = "discovery-mibsync-complete" ->
                  /\ download' = "disabled"
                  /\ UNCHANGED <<uploading, unlocking, ani, configDone, vlan>>
             [] OTHER -> ResetUniConfig /\ StrandDownload
        /\ oper' = [u \in Unis |->
                      IF u \in ports \cap StateUnis THEN "UNKNOWN" ELSE oper[u]]
        /\ portMsgs' = PortUpdates(ports \cap StateUnis, "UNKNOWN")
        /\ UNCHANGED <<tpPath, verifyGo>>
  /\ UNCHANGED <<devFsm, reconciling, reason, ports, gor, events, coreDev, corePort>>

(* Mutant: the reason string written is not one the core knows. *)
UpdateInterfaceEndMisspelt ==
  /\ hPc = "uiStopping"
  /\ hPc' = "idle"
  /\ reason' = "stopping_openomci"
  /\ coreDev' = "unreachable"
  /\ UNCHANGED <<devFsm, reconciling, onuUp, ports, oper, corePort, portMsgs,
                 gor, events, downs>>
  /\ UNCHANGED fsmVars

(* updateInterface after disableUniPortStateUpdate: the core gets the     *)
(* stopping-openomci reason, deviceReason is set, and the core gets       *)
(* UNREACHABLE / DISCOVERED.                                              *)
UpdateInterfaceEnd ==
  /\ NoLocalWork
  /\ hPc = "uiStopping"
  /\ hPc' = "idle"
  /\ reason' = "stopping-openomci"
  /\ coreDev' = "unreachable"
  /\ UNCHANGED <<devFsm, reconciling, onuUp, ports, oper, corePort, portMsgs,
                 gor, events, downs>>
  /\ UNCHANGED fsmVars

-----------------------------------------------------------------------------
(* The MIB upload FSM reaches in-sync with the ONU and raises              *)
(* MibDatabaseSync.                                                        *)
MibUploadDone ==
  /\ NoLocalWork
  /\ uploading /\ onuUp
  /\ uploading' = FALSE
  /\ events' = BagAdd(events, "MibDatabaseSync")
  /\ UNCHANGED <<devFsm, reconciling, onuUp, hPc, reason, ports, oper, gor,
                 downs, download, unlocking, ani, configDone, tpPath, vlan,
                 verifyGo>>
  /\ UNCHANGED coreVars

(* createVolthaPort for the new ports S: PortCreated gives the core each  *)
(* port with its operState, still UNKNOWN; the port's operState then       *)
(* becomes DISCOVERED.                                                     *)
CreateVolthaPort(S) ==
  /\ oper' = [u \in Unis |-> IF u \in S THEN "DISCOVERED" ELSE oper[u]]
  /\ corePort' = [u \in Unis |-> IF u \in S THEN "UNKNOWN" ELSE corePort[u]]

(* addUniPort for every UNI-G and VEIP of the MIB: a UNI already in        *)
(* uniEntityMap is left alone; a new one enters the map (newOnuUniPort:    *)
(* operState UNKNOWN) and, unless reconciling, is announced to the core.   *)
AddUniPorts ==
  /\ ports' = Unis
  /\ IF reconciling THEN UNCHANGED <<oper, corePort>>
                    ELSE CreateVolthaPort(Unis \ ports)

(* processMibDatabaseSyncEvent: deviceReason discovery-mibsync-complete;   *)
(* the UNI ports are added; the MIB download is started only from          *)
(* dlStDisabled. Started while the ONU is down, its GAL create is lost and *)
(* the download stalls.                                                    *)
ProcessMibDatabaseSync ==
  /\ NoLocalWork
  /\ BagIn("MibDatabaseSync", events)
  /\ events' = BagRemove(events, "MibDatabaseSync")
  /\ reason' = "discovery-mibsync-complete"
  /\ AddUniPorts
  /\ download' = CASE download # "disabled" -> download
                   [] onuUp -> "running"
                   [] OTHER -> "stalled"
  /\ UNCHANGED <<devFsm, reconciling, onuUp, hPc, gor, downs, coreDev, portMsgs,
                 uploading, unlocking, ani, configDone, tpPath, vlan, verifyGo>>

(* enterDownloadedState of the MIB download FSM: transferSystemEvent(     *)
(* MibDownloadDone) on the FSM's goroutine, then `go Event(dlEvReset)`.    *)
MibDownloadFinished ==
  /\ NoLocalWork
  /\ download = "running" /\ onuUp
  /\ download' = "done"
  /\ events' = BagAdd(events, "MibDownloadDone")
  /\ gor' = BagAdd(gor, "dlReset")
  /\ UNCHANGED <<devFsm, reconciling, onuUp, hPc, reason, ports, oper,
                 downs, uploading, unlocking, ani, configDone, tpPath, vlan,
                 verifyGo>>
  /\ UNCHANGED coreVars

(* processMibDownloadDoneEvent: unless reconciling the core gets           *)
(* REACHABLE / ACTIVE; deviceReason initial-mib-downloaded; the unlock FSM *)
(* is created or run.                                                       *)
ProcessMibDownloadDone ==
  /\ NoLocalWork
  /\ BagIn("MibDownloadDone", events)
  /\ events' = BagRemove(events, "MibDownloadDone")
  /\ coreDev' = IF reconciling THEN coreDev ELSE "active"
  /\ reason' = "initial-mib-downloaded"
  /\ unlocking' = TRUE
  /\ UNCHANGED <<devFsm, reconciling, onuUp, hPc, ports, oper, gor, downs, corePort,
                 portMsgs, uploading, download, ani, configDone, tpPath, vlan,
                 verifyGo>>

(* The decoupled dlEvReset: accepted in every state but dlStDisabled.     *)
MibDownloadReset ==
  /\ BagIn("dlReset", gor)
  /\ gor' = BagRemove(gor, "dlReset")
  /\ download' = "disabled"
  /\ UNCHANGED <<devFsm, reconciling, onuUp, hPc, reason, ports, oper, events,
                 downs, uploading, unlocking, ani, configDone, tpPath, vlan,
                 verifyGo>>
  /\ UNCHANGED coreVars

(* The bridge loop of a download stranded by a down times out after 30 s:  *)
(* dlEvReset, and the FSM is back in dlStDisabled.                        *)
MibDownloadTimeout ==
  /\ NoLocalWork
  /\ download = "timingOut"
  /\ download' = "disabled"
  /\ UNCHANGED <<devFsm, reconciling, onuUp, hPc, reason, ports, oper, gor, events,
                 downs, uploading, unlocking, ani, configDone, tpPath, vlan,
                 verifyGo>>
  /\ UNCHANGED coreVars

(* The unlock FSM reaches uniStAdminDone and raises UniUnlockStateDone.    *)
UnlockDone ==
  /\ NoLocalWork
  /\ unlocking /\ onuUp
  /\ unlocking' = FALSE
  /\ events' = BagAdd(events, "UniUnlockStateDone")
  /\ UNCHANGED <<devFsm, reconciling, onuUp, hPc, reason, ports, oper, gor,
                 downs, uploading, download, ani, configDone, tpPath, vlan,
                 verifyGo>>
  /\ UNCHANGED coreVars

(* processUniUnlockStateDoneEvent: `go enableUniPortStateUpdate()` and,    *)
(* when reconciling, `go reconcileDeviceTechProf()` (otherwise the        *)
(* active-device event, which changes no state of the handler).           *)
ProcessUniUnlockStateDone ==
  /\ BagIn("UniUnlockStateDone", events)
  /\ events' = BagRemove(events, "UniUnlockStateDone")
  /\ gor' = IF reconciling
              THEN BagAdd(BagAdd(gor, "enablePorts"), "reconcileTp")
              ELSE BagAdd(gor, "enablePorts")
  /\ UNCHANGED <<devFsm, reconciling, onuUp, hPc, reason, ports, oper, downs>>
  /\ UNCHANGED coreVars /\ UNCHANGED fsmVars

(* enableUniPortStateUpdate: the UNI ports of the mask get operState      *)
(* ACTIVE and, unless reconciling (read now, not when it was started),    *)
(* a `go PortStateUpdate` each.                                           *)
EnableUniPortStateUpdate ==
  /\ BagIn("enablePorts", gor)
  /\ gor' = BagRemove(gor, "enablePorts")
  /\ oper' = [u \in Unis |-> IF u \in ports \cap StateUnis THEN "ACTIVE" ELSE oper[u]]
  /\ portMsgs' = IF reconciling THEN portMsgs
                 ELSE PortUpdates(ports \cap StateUnis, "ACTIVE")
  /\ UNCHANGED <<devFsm, reconciling, onuUp, hPc, reason, ports, events, downs,
                 coreDev, corePort>>
  /\ UNCHANGED fsmVars

(* A `go PortStateUpdate` goroutine reaches the core; they run in any      *)
(* order.                                                                  *)
PortStateUpdate ==
  /\ NoLocalWork
  /\ \E m \in BagToSet(portMsgs) :
       /\ portMsgs' = BagRemove(portMsgs, m)
       /\ corePort' = [corePort EXCEPT ![m[1]] = m[2]]
  /\ UNCHANGED <<devFsm, reconciling, onuUp, hPc, reason, ports, oper, gor,
                 events, downs, coreDev>>
  /\ UNCHANGED fsmVars

(* rebootDevice: refused unless the core has the device REACHABLE; the   *)
(* core gets UNREACHABLE / DISCOVERED and the rebooting-onu reason,         *)
(* deviceReason is set, and the reboot request goes to the OLT (a send     *)
(* whose error is only logged; the ONU's reboot reaches the handler as    *)
(* the OLT's down and up indications).                                     *)
RebootDevice ==
  /\ NoLocalWork
  /\ coreDev \in {"activating", "active"}
  /\ coreDev' = "unreachable"
  /\ reason' = "rebooting-onu"
  /\ UNCHANGED <<devFsm, reconciling, onuUp, hPc, ports, oper, corePort, portMsgs,
                 gor, events, downs>>
  /\ UNCHANGED fsmVars

-----------------------------------------------------------------------------
(* reconcileDeviceTechProf: for the UNI tech-profile paths of pOnuTP's    *)
(* persistent data it runs configureUniTp and waits for it -- and returns  *)
(* inside the loop body, after the first path. Only with no path at all    *)
(* does it reach `dh.reconciling = false`. It first takes tpProcMutex.     *)
ReconcileDeviceTechProf ==
  /\ BagIn("reconcileTp", gor)
  /\ TpProcFree
  /\ gor' = BagRemove(gor, "reconcileTp")
  /\ IF \A u \in Unis : ~tpPath[u]
       THEN /\ reconciling' = FALSE
            /\ UNCHANGED ani
       ELSE /\ \E u \in Unis : tpPath[u] /\ ani' = [ani EXCEPT ![u] = "running"]
            /\ UNCHANGED reconciling
  /\ UNCHANGED <<devFsm, onuUp, hPc, reason, ports, oper, events, downs,
                 uploading, download, unlocking, configDone, tpPath, vlan,
                 verifyGo>>
  /\ UNCHANGED coreVars

(* processInterAdapterTechProfileDownloadReqMessage: refused while         *)
(* deviceReason is stopping-openomci or omci-admin-lock; then it waits for *)
(* tpProcMutex; a path that updateOnuUniTpPath finds new is stored and     *)
(* configureUniTp starts the UNI's ANI config FSM, and the mutex is held   *)
(* until that run ends (a known path releases it at once).                 *)
TechProfileDownload(u) ==
  /\ devFsm = "devStInit"
  /\ NoLocalWork
  /\ reason \notin {"stopping-openomci", "omci-admin-lock"}
  /\ TpProcFree
  /\ ~tpPath[u]
  /\ tpPath' = [tpPath EXCEPT ![u] = TRUE]
  /\ ani' = [ani EXCEPT ![u] = "running"]
  /\ UNCHANGED <<devFsm, reconciling, onuUp, hPc, reason, ports, oper, gor,
                 events, downs, uploading, download, unlocking, configDone, vlan,
                 verifyGo>>
  /\ UNCHANGED coreVars

(* enterDisabledState of the ANI config FSM, whether the run completed or  *)
(* not: the UNI's configDone becomes true and `go                          *)
(* verifyUniVlanConfigRequest` is started.                                 *)
AniDisabled(u) ==
  /\ ani' = [ani EXCEPT ![u] = "idle"]
  /\ configDone' = [configDone EXCEPT ![u] = TRUE]
  /\ verifyGo' = BagAdd(verifyGo, u)

(* A completed ANI config FSM, on its goroutine: enterDisabledState first   *)
(* runs processOmciAniConfigDoneEvent, which sets                          *)
(* tech-profile-config-download-success unless already set.                *)
AniConfigDone(u) ==
  /\ NoLocalWork
  /\ ani[u] = "running" /\ onuUp
  /\ reason' = "tech-profile-config-download-success"
  /\ AniDisabled(u)
  /\ UNCHANGED <<devFsm, reconciling, onuUp, hPc, ports, oper, gor, events,
                 downs, uploading, download, unlocking, tpPath, vlan>>
  /\ UNCHANGED coreVars

(* The ANI config FSM's decoupled aniEvRestart after a reset, and          *)
(* enterDisabledState: the run did not complete, so no OmciAniConfigDone,  *)
(* but configDone and the verify go as after a completed run.              *)
AniConfigRestart(u) ==
  /\ ani[u] = "resetting"
  /\ AniDisabled(u)
  /\ UNCHANGED <<devFsm, reconciling, onuUp, hPc, reason, ports, oper, gor, events,
                 downs, uploading, download, unlocking, tpPath, vlan>>
  /\ UNCHANGED coreVars

(* addFlowItemToUniPort / createVlanFilterFsm for a flow that passes the   *)
(* metadata, IGMP and VLAN checks (a flow that fails them changes nothing): *)
(* refused while the UNI's VLAN FSM is in UniVlanConfigFsmMap, else a new   *)
(* FSM enters the map and gets vlanEvStart (vlanStStarting).               *)
AddFlowItemToUniPort(u) ==
  /\ vlan[u] = "none"
  /\ vlan' = [vlan EXCEPT ![u] = "starting"]

(* The VLAN FSM leaves vlanStStarting: it waits for the tech profile       *)
(* unless the UNI's configDone is set (omci_vlan_config.go, not in the     *)
(* source tree).                                                           *)
VlanStart(u) ==
  /\ vlan[u] = "starting"
  /\ vlan' = [vlan EXCEPT ![u] = IF configDone[u] THEN "configuring" ELSE "waitingTp"]
  /\ UNCHANGED <<devFsm, reconciling, onuUp, hPc, reason, ports, oper, gor,
                 events, downs, uploading, download, unlocking, ani, configDone,
                 tpPath, verifyGo>>
  /\ UNCHANGED coreVars

(* FlowUpdateIncremental with an upstream flow of UNI u: an in-port not in *)
(* uniEntityMap is an error; otherwise the flow goes to                    *)
(* addFlowItemToUniPort. Flows without a cookie or from the PON port are   *)
(* skipped and removals only logged: no state changes.                     *)
FlowUpdateIncremental(u) ==
  /\ NoLocalWork
  /\ u \in ports
  /\ AddFlowItemToUniPort(u)
  /\ UNCHANGED <<devFsm, reconciling, onuUp, hPc, reason, ports, oper, gor,
                 events, downs, uploading, download, unlocking, ani, configDone,
                 tpPath, verifyGo>>
  /\ UNCHANGED coreVars

(* verifyUniVlanConfigRequest: a VLAN FSM of the UNI waiting for its tech  *)
(* profile gets vlanEvContinueConfig; in any other state it is left alone. *)
VerifyUniVlanConfigRequest(u) ==
  /\ BagIn(u, verifyGo)
  /\ verifyGo' = BagRemove(verifyGo, u)
  /\ vlan' = IF vlan[u] = "waitingTp" THEN [vlan EXCEPT ![u] = "configuring"] ELSE vlan
  /\ UNCHANGED <<devFsm, reconciling, onuUp, hPc, reason, ports, oper, gor,
                 events, downs, uploading, download, unlocking, ani, configDone,
                 tpPath>>
  /\ UNCHANGED coreVars

(* The VLAN FSM finishes: processOmciVlanFilterDoneEvent sets             *)
(* omci-flows-pushed unless already set, and the FSM leaves                *)
(* UniVlanConfigFsmMap.                                                    *)
VlanFilterDone(u) ==
  /\ NoLocalWork
  /\ vlan[u] = "configuring" /\ onuUp
  /\ vlan' = [vlan EXCEPT ![u] = "none"]
  /\ reason' = "omci-flows-pushed"
  /\ UNCHANGED <<devFsm, reconciling, onuUp, hPc, ports, oper, gor, events,
                 downs, uploading, download, unlocking, ani, configDone, tpPath,
                 verifyGo>>
  /\ UNCHANGED coreVars

-----------------------------------------------------------------------------
Next ==
  \/ Adopt \/ ReconcileDeviceOnuInd \/ OnuIndUp \/ CreateInterfaceEnd
  \/ OnuIndDown \/ UpdateInterfaceEnd
  \/ MibUploadDone \/ ProcessMibDatabaseSync \/ MibDownloadFinished
  \/ ProcessMibDownloadDone \/ MibDownloadReset \/ MibDownloadTimeout \/ UnlockDone
  \/ ProcessUniUnlockStateDone \/ EnableUniPortStateUpdate \/ PortStateUpdate
  \/ ReconcileDeviceTechProf \/ RebootDevice
  \/ \E u \in Unis :
       \/ TechProfileDownload(u) \/ AniConfigDone(u) \/ AniConfigRestart(u)
       \/ FlowUpdateIncremental(u) \/ VlanStart(u)
       \/ VerifyUniVlanConfigRequest(u) \/ VlanFilterDone(u)

(* Goroutines and FSM steps are scheduled (weak fairness); the ONU answers *)
(* while up. The OLT's indications, tech-profile and flow requests are     *)
(* the environment and need not come.                                      *)
Fairness ==
  /\ WF_vars(Adopt) /\ WF_vars(ReconcileDeviceOnuInd) /\ WF_vars(CreateInterfaceEnd)
  /\ WF_vars(UpdateInterfaceEnd) /\ WF_vars(MibUploadDone)
  /\ WF_vars(ProcessMibDatabaseSync) /\ WF_vars(MibDownloadFinished)
  /\ WF_vars(ProcessMibDownloadDone) /\ WF_vars(MibDownloadReset)
  /\ WF_vars(MibDownloadTimeout)
  /\ WF_vars(UnlockDone) /\ WF_vars(ProcessUniUnlockStateDone)
  /\ WF_vars(EnableUniPortStateUpdate) /\ WF_vars(PortStateUpdate)
  /\ WF_vars(ReconcileDeviceTechProf)
  /\ \A u \in Unis : /\ WF_vars(AniConfigDone(u)) /\ WF_vars(AniConfigRestart(u))
                     /\ WF_vars(VlanStart(u)) /\ WF_vars(VerifyUniVlanConfigRequest(u))
                     /\ WF_vars(VlanFilterDone(u))

Spec == Init /\ [][Next]_vars /\ Fairness

-----------------------------------------------------------------------------
(* Reconciliation ends: after an adapter restart in reconciling mode, an *)
(* ONU that is up (or comes up again) gets through reconcileDeviceOnuInd  *)
(* and reconcileDeviceTechProf, which clear dh.reconciling, after which   *)
(* the handler reports to the core again; only the ONU going down may    *)
(* hold it up.                                                            *)
ReconcileEnds == (reconciling /\ onuUp) ~> (~reconciling \/ ~onuUp)

(* The core sees a down ONU as down: once updateInterface has finished for *)
(* an ONU that went down and no PortStateUpdate is in flight, the core has *)
(* the device UNREACHABLE and no UNI port ACTIVE.                          *)
CoreSeesOnuDown ==
  (~onuUp /\ downs > 0 /\ hPc = "idle" /\ portMsgs = EmptyBag)
    => /\ coreDev = "unreachable"
       /\ \A u \in StateUnis : corePort[u] # "ACTIVE"

=============================================================================
