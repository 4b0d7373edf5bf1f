--------------------------- MODULE MibDownloadFsm ---------------------------
(***************************************************************************)
(* The MIB download FSM of OnuDeviceEntry (mib_download.go) with the       *)
(* device-handler steps around it (device_handler.go): createInterface,    *)
(* the MIB-synchronized and MIB-download-done handlers, and                *)
(* updateInterface, which stops whatever deviceReason says is running.     *)
(*                                                                         *)
(* Actors: one Event call with its entry callback is one step; decoupled   *)
(* goroutines (pending) run later, also the device-event handlers;         *)
(* processMibDownloadMessages is a pump that reads commChan or is blocked  *)
(* on the unbuffered omciMessageReceived; performInitialBridgeSetup is a   *)
(* loop over the UNI ports; the ONU answers requests in order.             *)
(***************************************************************************)
EXTENDS Integers, Sequences, FiniteSets, Bags, BagsExt, SequencesExt, FiniteSetsExt

CONSTANTS
  Unis,       \* UNI-G / VEIP instances in the ONU's MIB
  MaxDowns,   \* bound on ONU down/unreachable indications
  QuickReturn,\* the ONU may be up again before a 30 s bridge wait has ended
  MaxFaults   \* bound on OMCI requests the ONU loses or rejects

States == {"dlStDisabled", "dlStStarting", "dlStCreatingGal", "dlStSettingOnu2G",
           "dlStBridgeInit", "dlStDownloaded", "dlStResetting"}

Reasons == {"", "starting-openomci", "discovery-mibsync-complete",
            "initial-mib-downloaded", "stopping-openomci"}

(* Managed entities the download creates or sets: class and instance. *)
Gal == [cls |-> "GalEthernetProfile", inst |-> "gal"]
Onu2g == [cls |-> "Onu2G", inst |-> "onu2g"]
Mbsp(u) == [cls |-> "MacBridgeServiceProfile", inst |-> u]
Mbpcd(u) == [cls |-> "MacBridgePortConfigurationData", inst |-> u]
Evtocd(u) == [cls |-> "ExtendedVlanTaggingOperationConfigurationData", inst |-> u]
BridgeMEs(u) == <<Mbsp(u), Mbpcd(u), Evtocd(u)>>
MEs == {Gal, Onu2g} \cup UNION {ToSet(BridgeMEs(u)) : u \in Unis}
NoMe == [cls |-> "none", inst |-> "none"]

(* performInitialBridgeSetup: the three creates of each UNI port, the      *)
(* ports in the (random) order of the uniEntityMap range.                  *)
BridgeOrder(order) == FoldLeft(LAMBDA acc, u : acc \o BridgeMEs(u), <<>>, order)

Req(op, me) == [op |-> op, me |-> me]
Resp(op, me, ok) == [kind |-> "omci", op |-> op, me |-> me, ok |-> ok]
Abort == [kind |-> "abort", op |-> "none", me |-> NoMe, ok |-> FALSE]

VARIABLES
  fsm,        \* pMibDownloadFsm.pFsm.Current()
  pending,    \* bag of decoupled goroutines: FSM events, and the device
              \* events MibDatabaseSync / MibDownloadDone on their way to
              \* deviceProcStatusUpdate
  commChan,   \* pMibDownloadFsm.commChan
  reading,    \* pumps waiting on commChan
  blocked,    \* pumps blocked in omciMessageReceived <- true
  loops,      \* running performInitialBridgeSetup goroutines
  lastTx,     \* omciCC.pLastTxMeInstance
  onuTx,      \* requests in flight, answered in order
  onuMe,      \* MEs created (or, for ONU2-G, set) on the ONU
  reason,     \* dh.deviceReason
  uniPorts,   \* dh.uniEntityMap
  uploading,  \* the MIB upload FSM runs (started by createInterface)
  reachable,  \* the ONU is up
  downPc,     \* updateInterface has branched and not yet set its reason
  downs, faults

vars == <<fsm, pending, commChan, reading, blocked, loops, lastTx, onuTx, onuMe,
          reason, uniPorts, uploading, reachable, downPc, downs, faults>>

Msg == {Abort} \cup [kind : {"omci"}, op : {"create", "set"}, me : MEs, ok : BOOLEAN]

TypeOK ==
  /\ fsm \in States
  /\ IsABag(pending)
  /\ commChan \in Seq(Msg)
  /\ reading \in Nat /\ blocked \in Nat
  /\ \A l \in loops : l.todo \in Seq(MEs) /\ l.pc \in {"tx", "wait"}
  /\ lastTx \in MEs \cup {NoMe}
  /\ onuMe \subseteq MEs
  /\ reason \in Reasons
  /\ uniPorts \subseteq Unis
  /\ downPc \in {"idle", "stopping"}

-----------------------------------------------------------------------------
(* The download table of OnuDeviceEntry: the chain, a reset from every     *)
(* running state, and the restart as the only way out of dlStResetting.    *)
Chain == <<"dlStDisabled", "dlStStarting", "dlStCreatingGal", "dlStSettingOnu2G",
           "dlStBridgeInit", "dlStDownloaded">>
ChainEvents == <<"dlEvStart", "dlEvCreateGal", "dlEvRxGalResp", "dlEvRxOnu2gResp",
                 "dlEvRxBridgeResp">>

ChainSteps == { <<ChainEvents[i], Chain[i], Chain[i + 1]>> : i \in 1..5 }

Table ==
  ChainSteps
  \cup { <<"dlEvReset", s, "dlStResetting">> : s \in ToSet(Chain) \ {"dlStDisabled"} }
  \cup { <<"dlEvRestart", "dlStResetting", "dlStDisabled">> }

Cur == [fsm |-> fsm, pending |-> pending, commChan |-> commChan,
        reading |-> reading, blocked |-> blocked, loops |-> loops,
        lastTx |-> lastTx, onuTx |-> onuTx, reason |-> reason,
        uniPorts |-> uniPorts]

Assign(s) ==
  /\ fsm' = s.fsm /\ pending' = s.pending /\ commChan' = s.commChan
  /\ reading' = s.reading /\ blocked' = s.blocked /\ loops' = s.loops
  /\ lastTx' = s.lastTx /\ onuTx' = s.onuTx /\ reason' = s.reason
  /\ uniPorts' = s.uniPorts

(* Send an OMCI request and make it pLastTxMeInstance. *)
Send(s, op, me) ==
  [s EXCEPT !.onuTx = Append(@, Req(op, me)), !.lastTx = me]

(* The entry callbacks of the download FSM. *)
EnterState(s, st) ==
  CASE st = "dlStStarting" ->
         \* enterDLStartingState: a new pump
         [s EXCEPT !.reading = @ + 1]
    [] st = "dlStCreatingGal" -> Send(s, "create", Gal)
    [] st = "dlStSettingOnu2G" -> Send(s, "set", Onu2g)
    [] st = "dlStBridgeInit" ->
         \* enterBridgeInitState: go performInitialBridgeSetup
         [s EXCEPT !.pending = BagAdd(@, "bridge")]
    [] st = "dlStDownloaded" ->
         \* enterDownloadedState: transferSystemEvent(MibDownloadDone),
         \* then the decoupled dlEvReset
         [s EXCEPT !.pending = BagAdd(BagAdd(@, "MibDownloadDone"), "dlEvReset")]
    [] st = "dlStResetting" ->
         \* enterResettingState: abort the pump, decoupled dlEvRestart
         [s EXCEPT !.commChan = Append(@, Abort),
                   !.pending = BagAdd(@, "dlEvRestart")]
    [] OTHER -> s

(* One pFsm.Event call. *)
FsmEvent(s, ev) ==
  LET tr == {t \in Table : t[1] = ev /\ t[2] = s.fsm}
  IN IF tr = {} THEN s
     ELSE LET dst == (CHOOSE t \in tr : TRUE)[3]
          IN EnterState([s EXCEPT !.fsm = dst], dst)

-----------------------------------------------------------------------------
(* Device handler *)

(* The MIB upload resets the ONU's MIB, reads it back and raises           *)
(* MibDatabaseSync (transferSystemEvent: a goroutine to the handler).      *)
MibUploadDone ==
  /\ uploading /\ reachable
  /\ uploading' = FALSE
  /\ onuMe' = {}
  /\ pending' = BagAdd(pending, "MibDatabaseSync")
  /\ UNCHANGED <<fsm, commChan, reading, blocked, loops, lastTx, onuTx, reason,
                 uniPorts, reachable, downPc, downs, faults>>

(* processMibDatabaseSyncEvent: reason discovery-mibsync-complete, a UNI   *)
(* port per UNI-G / VEIP instance (addUniPort skips a known port), and the *)
(* download is started only if its FSM is disabled ("wrong state" else).   *)
(* dlEvStart and dlEvCreateGal are two Event calls back to back on this    *)
(* goroutine; they are taken as one step (see the README on what a reset   *)
(* between them would do).                                                 *)
ProcessMibDatabaseSync ==
  /\ BagIn("MibDatabaseSync", pending)
  /\ LET s == [Cur EXCEPT !.pending = BagRemove(@, "MibDatabaseSync"),
                          !.reason = "discovery-mibsync-complete",
                          !.uniPorts = @ \cup Unis]
     IN Assign(IF s.fsm = "dlStDisabled"
               THEN FsmEvent(FsmEvent(s, "dlEvStart"), "dlEvCreateGal")
               ELSE s)
  /\ UNCHANGED <<onuMe, uploading, reachable, downPc, downs, faults>>

(* processMibDownloadDoneEvent: reason initial-mib-downloaded, then the    *)
(* unlock FSM is started (modelled in UniLockFsm).                         *)
ProcessMibDownloadDone ==
  /\ BagIn("MibDownloadDone", pending)
  /\ pending' = BagRemove(pending, "MibDownloadDone")
  /\ reason' = "initial-mib-downloaded"
  /\ UNCHANGED <<fsm, commChan, reading, blocked, loops, lastTx, onuTx, onuMe,
                 uniPorts, uploading, reachable, downPc, downs, faults>>

(* Mutant: updateInterface does not reset the download FSM. *)
DownBeginKeepingDownload ==
  /\ downs < MaxDowns /\ downPc = "idle"
  /\ reason # "stopping-openomci"
  /\ downs' = downs + 1
  /\ reachable' = FALSE
  /\ downPc' = "stopping"
  /\ uploading' = (uploading /\ reason # "starting-openomci")
  /\ UNCHANGED <<fsm, pending, commChan, reading, blocked, loops, lastTx, onuTx,
                 reason, uniPorts, onuMe, faults>>

(* updateInterface on an ONU down/unreachable indication, up to the core   *)
(* calls: it stops what deviceReason says runs -- the MIB upload, the MIB  *)
(* download, or (default) the lock, unlock, ANI and VLAN FSMs, which are   *)
(* not part of this model.                                                 *)
DownBegin ==
  /\ downs < MaxDowns /\ downPc = "idle"
  /\ reason # "stopping-openomci"
  /\ downs' = downs + 1
  /\ reachable' = FALSE
  /\ downPc' = "stopping"
  /\ uploading' = (uploading /\ reason # "starting-openomci")
  /\ Assign(IF reason = "discovery-mibsync-complete"
            THEN FsmEvent(Cur, "dlEvReset") ELSE Cur)
  /\ UNCHANGED <<onuMe, faults>>

(* updateInterface, after pDevEntry.stop and the core's reason update:     *)
(* deviceReason is set to stopping-openomci.                               *)
DownEnd ==
  /\ downPc = "stopping"
  /\ downPc' = "idle"
  /\ reason' = "stopping-openomci"
  /\ UNCHANGED <<fsm, pending, commChan, reading, blocked, loops, lastTx, onuTx,
                 onuMe, uniPorts, uploading, reachable, downs, faults>>

(* updateInterface when deviceReason is already stopping-openomci. *)
DownIgnored ==
  /\ downs < MaxDowns /\ downPc = "idle"
  /\ reason = "stopping-openomci"
  /\ downs' = downs + 1
  /\ reachable' = FALSE
  /\ UNCHANGED <<fsm, pending, commChan, reading, blocked, loops, lastTx, onuTx,
                 onuMe, reason, uniPorts, uploading, downPc, faults>>

-----------------------------------------------------------------------------
(* Download FSM goroutines *)

(* A decoupled "go func(){ pFsm.Event(ev) }" runs. *)
FireDecoupled ==
  \E e \in BagToSet(pending) \cap {"dlEvReset", "dlEvRestart"} :
    /\ Assign(FsmEvent([Cur EXCEPT !.pending = BagRemove(@, e)], e))
    /\ UNCHANGED <<onuMe, uploading, reachable, downPc, downs, faults>>

(* The FSM event a matching response drives, or "wait" when the response   *)
(* is handed to the bridge loop (handleOmciMibDownloadMessage).            *)
RespEvent(m) ==
  CASE m.op = "create" /\ m.me = Gal -> "dlEvRxGalResp"
    [] m.op = "set" /\ m.me = Onu2g -> "dlEvRxOnu2gResp"
    [] m.op = "create" /\ m.me.cls \in {"MacBridgeServiceProfile",
         "MacBridgePortConfigurationData",
         "ExtendedVlanTaggingOperationConfigurationData"} -> "wait"
    [] OTHER -> "none"

(* Mutant: a response is acted on whatever its result. *)
PumpReceiveIgnoringResult ==
  /\ reading > 0
  /\ commChan # <<>>
  /\ LET m == Head(commChan)
         s == [Cur EXCEPT !.commChan = Tail(@)]
     IN Assign(CASE m = Abort -> [s EXCEPT !.reading = @ - 1]
                 [] m.me # lastTx -> s
                 [] RespEvent(m) = "wait" ->
                      [s EXCEPT !.reading = @ - 1, !.blocked = @ + 1]
                 [] OTHER -> FsmEvent(s, RespEvent(m)))
  /\ UNCHANGED <<onuMe, uploading, reachable, downPc, downs, faults>>

(* processMibDownloadMessages: the pump takes the next message; an abort   *)
(* ends it, an error result or a response that does not match              *)
(* pLastTxMeInstance is dropped.                                           *)
PumpReceive ==
  /\ reading > 0
  /\ commChan # <<>>
  /\ LET m == Head(commChan)
         s == [Cur EXCEPT !.commChan = Tail(@)]
     IN Assign(CASE m = Abort -> [s EXCEPT !.reading = @ - 1]
                 [] ~m.ok \/ m.me # lastTx -> s
                 [] RespEvent(m) = "wait" ->
                      [s EXCEPT !.reading = @ - 1, !.blocked = @ + 1]
                 [] OTHER -> FsmEvent(s, RespEvent(m)))
  /\ UNCHANGED <<onuMe, uploading, reachable, downPc, downs, faults>>

(* performInitialBridgeSetup starts: it ranges over uniEntityMap. *)
LoopStart ==
  /\ BagIn("bridge", pending)
  /\ \E order \in SetToSeqs(uniPorts) :
       /\ pending' = BagRemove(pending, "bridge")
       /\ loops' = loops \cup {[todo |-> BridgeOrder(order), pc |-> "tx"]}
  /\ UNCHANGED <<fsm, commChan, reading, blocked, lastTx, onuTx, onuMe, reason,
                 uniPorts, uploading, reachable, downPc, downs, faults>>

(* The loop sends the create of its next entity. *)
LoopSend(l) ==
  /\ l.pc = "tx"
  /\ l.todo # <<>>
  /\ Assign([Send(Cur, "create", Head(l.todo))
               EXCEPT !.loops = (@ \ {l}) \cup {[todo |-> Tail(l.todo), pc |-> "wait"]}])
  /\ UNCHANGED <<onuMe, uploading, reachable, downPc, downs, faults>>

(* All UNI ports are set up: dlEvRxBridgeResp. *)
LoopFinish(l) ==
  /\ l.pc = "tx"
  /\ l.todo = <<>>
  /\ Assign(FsmEvent([Cur EXCEPT !.loops = @ \ {l}], "dlEvRxBridgeResp"))
  /\ UNCHANGED <<onuMe, uploading, reachable, downPc, downs, faults>>

(* Mutant: the loop goes on without a pump having sent on the channel. *)
LoopReceiveUnblocked(l) ==
  /\ l.pc = "wait"
  /\ blocked' = blocked - 1
  /\ reading' = reading + 1
  /\ loops' = (loops \ {l}) \cup {[l EXCEPT !.pc = "tx"]}
  /\ UNCHANGED <<fsm, pending, commChan, lastTx, onuTx, onuMe, reason, uniPorts,
                 uploading, reachable, downPc, downs, faults>>

(* waitforOmciResponse takes true from a blocked pump. *)
LoopReceive(l) ==
  /\ l.pc = "wait"
  /\ blocked > 0
  /\ blocked' = blocked - 1
  /\ reading' = reading + 1
  /\ loops' = (loops \ {l}) \cup {[l EXCEPT !.pc = "tx"]}
  /\ UNCHANGED <<fsm, pending, commChan, lastTx, onuTx, onuMe, reason, uniPorts,
                 uploading, reachable, downPc, downs, faults>>

(* waitforOmciResponse times out after 30 s: dlEvReset, the loop returns. *)
LoopTimeout(l) ==
  /\ l.pc = "wait"
  /\ Assign(FsmEvent([Cur EXCEPT !.loops = @ \ {l}], "dlEvReset"))
  /\ UNCHANGED <<onuMe, uploading, reachable, downPc, downs, faults>>

(* A step of a goroutine that is not waiting on a timer. *)
Runnable ==
  \/ FireDecoupled \/ PumpReceive \/ LoopStart
  \/ ProcessMibDatabaseSync \/ ProcessMibDownloadDone
  \/ \E l \in loops : LoopSend(l) \/ LoopFinish(l) \/ LoopReceive(l)

(* createInterface on an ONU "up" indication: reason starting-openomci,    *)
(* the MIB upload is started. Requests sent while the ONU was away are     *)
(* lost. Re-discovery takes seconds, so every goroutine that is not        *)
(* waiting on a 30 s timer has run by then; unless the ONU returns         *)
(* quickly, the bridge loops' 30 s waits have ended as well.               *)
DeviceUp ==
  /\ ~reachable
  /\ downPc = "idle"
  /\ ~ENABLED Runnable
  /\ QuickReturn \/ loops = {}
  /\ reachable' = TRUE
  /\ reason' = "starting-openomci"
  /\ uploading' = TRUE
  /\ onuTx' = <<>>
  /\ UNCHANGED <<fsm, pending, commChan, reading, blocked, loops, lastTx, onuMe,
                 uniPorts, downPc, downs, faults>>

-----------------------------------------------------------------------------
(* The ONU, while reachable, answers the oldest request. A Create of an    *)
(* entity that exists is refused ("instance exists"); the ONU2-G always    *)
(* exists, so its Set succeeds.                                            *)
OnuRespond ==
  /\ reachable
  /\ onuTx # <<>>
  /\ LET r == Head(onuTx)
         ok == r.op = "set" \/ r.me \notin onuMe
     IN /\ onuMe' = IF ok THEN onuMe \cup {r.me} ELSE onuMe
        /\ commChan' = Append(commChan, Resp(r.op, r.me, ok))
  /\ onuTx' = Tail(onuTx)
  /\ UNCHANGED <<fsm, pending, reading, blocked, loops, lastTx, reason, uniPorts,
                 uploading, reachable, downPc, downs, faults>>

(* The ONU rejects the oldest request, or it or its response is lost. *)
OnuFault ==
  /\ reachable
  /\ onuTx # <<>>
  /\ faults < MaxFaults
  /\ faults' = faults + 1
  /\ onuTx' = Tail(onuTx)
  /\ \/ commChan' = Append(commChan, Resp(Head(onuTx).op, Head(onuTx).me, FALSE))
     \/ UNCHANGED commChan
  /\ UNCHANGED <<fsm, pending, reading, blocked, loops, lastTx, onuMe, reason,
                 uniPorts, uploading, reachable, downPc, downs>>

-----------------------------------------------------------------------------
(* The device handler was adopted; the ONU is not yet up. *)
Init ==
  /\ fsm = "dlStDisabled"
  /\ pending = EmptyBag
  /\ commChan = <<>>
  /\ reading = 0 /\ blocked = 0
  /\ loops = {}
  /\ lastTx = NoMe
  /\ onuTx = <<>>
  /\ onuMe = {}
  /\ reason = ""
  /\ uniPorts = {}
  /\ uploading = FALSE
  /\ reachable = FALSE
  /\ downPc = "idle"
  /\ downs = 0 /\ faults = 0

Next ==
  \/ DeviceUp \/ MibUploadDone \/ ProcessMibDatabaseSync \/ ProcessMibDownloadDone
  \/ DownBegin \/ DownEnd \/ DownIgnored
  \/ FireDecoupled \/ PumpReceive \/ LoopStart
  \/ \E l \in loops : LoopSend(l) \/ LoopFinish(l) \/ LoopReceive(l) \/ LoopTimeout(l)
  \/ OnuRespond \/ OnuFault

Spec == Init /\ [][Next]_vars

(* Runnable goroutines eventually run, a started MIB upload finishes while *)
(* the ONU is up, updateInterface returns, and the ONU answers every       *)
(* request it has not lost. A loop still waiting is eventually woken by    *)
(* its 30 s timer; ONU indications need not happen.                        *)
Fairness ==
  /\ WF_vars(FireDecoupled) /\ WF_vars(PumpReceive) /\ WF_vars(LoopStart)
  /\ WF_vars(ProcessMibDatabaseSync) /\ WF_vars(ProcessMibDownloadDone)
  /\ WF_vars(\E l \in loops : LoopSend(l) \/ LoopFinish(l) \/ LoopReceive(l))
  /\ WF_vars(\E l \in loops : LoopTimeout(l))
  /\ WF_vars(MibUploadDone) /\ WF_vars(DownEnd) /\ WF_vars(OnuRespond)

FairSpec == Spec /\ Fairness

-----------------------------------------------------------------------------
(* Properties *)

(* The phase of the download FSM as the device handler sees it: it can   *)
(* start a download only in dlStDisabled, and dlStResetting goes back there *)
(* by the decoupled dlEvRestart alone.                                     *)
PhaseOf(st) ==
  CASE st \in {"dlStDisabled", "dlStResetting"} -> "disabled"
    [] st = "dlStDownloaded" -> "done"
    [] OTHER -> "running"

Phase == INSTANCE MibDownloadPhase
           WITH download <- PhaseOf(fsm),
                doneEvents <- CopiesIn("MibDownloadDone", pending),
                reachable <- reachable

(* The download FSM implements the phase abstraction DeviceHandler uses: *)
(* every transition of pFsm, every decoupled goroutine and every bridge   *)
(* loop step is a start from disabled, a completion while the ONU is up   *)
(* that raises one MibDownloadDone, a reset, or leaves the phase alone.   *)
PhaseRefinement == Phase!Spec

(* The baseline MIB of every known UNI port is on the ONU: the GAL         *)
(* profile, the ONU2-G set, and each port's MBSP, MBPCD and EVTOCD.        *)
Bridged ==
  {Gal, Onu2g} \cup UNION {ToSet(BridgeMEs(u)) : u \in uniPorts} \subseteq onuMe

(* The download FSM enters dlStDownloaded, which raises MibDownloadDone    *)
(* to the device handler, only while the ONU holds the baseline MIB: the   *)
(* bridge loop's dlEvRxBridgeResp follows the creates of every port.       *)
DownloadDoneMeansBridged ==
  [][fsm' = "dlStDownloaded" /\ fsm # "dlStDownloaded" => Bridged]_vars

(* Once updateInterface has stopped the device ("stop all running SM     *)
(* processing - make use of the DH-state as mirrored in the               *)
(* deviceReason") and no goroutine can still run, the MIB download FSM is  *)
(* disabled, so that the next MIB synchronization can start it again.      *)
DownStopsDownload ==
  (reason = "stopping-openomci" /\ ~reachable /\ downPc = "idle" /\ ~ENABLED Runnable)
    => fsm = "dlStDisabled"

====
