---------------------------- MODULE AniConfigFsm ----------------------------
(***************************************************************************)
(* The ANI-side configuration FSM of one UNI and tech profile              *)
(* (uniPonAniConfigFsm, omci_ani_config.go), with the two outside callers  *)
(* that drive it: the tech-profile handler that starts it, and the device  *)
(* handler's updateInterface that resets it when the ONU goes down.        *)
(*                                                                         *)
(* Actors, as in UniLockFsm: one Event call with its entry callback is one *)
(* step; decoupled goroutines (pending) run later; the message pump        *)
(* processOmciAniMessages reads commChan or is blocked on the unbuffered   *)
(* omciMIdsResponseReceived; the GEM NCTP, GEM IW and priority-queue loops *)
(* send one request at a time; the ONU answers requests in order.          *)
(* Entity ids are abstracted to an entity class and a GEM port or queue.   *)
(***************************************************************************)
EXTENDS Integers, Sequences, FiniteSets, Bags, BagsExt, SequencesExt, FiniteSetsExt

CONSTANTS
  Gems,       \* GEM ports of the tech profile (mapGemPortParams)
  Queues,     \* upstream priority queues of the ONU MIB
  UpQueue,    \* [Gems -> Queues]: the upstream queue found for each GEM port
  PbitOf,     \* [Gems -> SUBSET 0..7]: the pbits set in each GEM's pbitString
  MaxStarts,  \* bound on tech-profile starts of the FSM
  MaxDowns,   \* bound on ONU-down indications
  MaxFaults,  \* bound on OMCI requests the ONU loses or rejects
  MaxForeign  \* bound on sends of other FSMs on the same omciCC

ASSUME UpQueue \in [Gems -> Queues] /\ PbitOf \in [Gems -> SUBSET (0..7)]

States == {"aniStDisabled", "aniStStarting", "aniStCreatingDot1PMapper",
           "aniStCreatingMBPCD", "aniStSettingTconts", "aniStCreatingGemNCTPs",
           "aniStCreatingGemIWs", "aniStSettingPQs", "aniStSettingDot1PMapper",
           "aniStConfigDone", "aniStResetting"}

(* Managed entities the FSM configures: class and instance. *)
Mapper == [cls |-> "Ieee8021PMapperServiceProfile", inst |-> "sp0"]
Mbpcd == [cls |-> "MacBridgePortConfigurationData", inst |-> "bpcd0"]
Tcont == [cls |-> "TCont", inst |-> "tcont0"]
Nctp(g) == [cls |-> "GemPortNetworkCtp", inst |-> g]
GemIw(g) == [cls |-> "GemInterworkingTerminationPoint", inst |-> g]
Pq(q) == [cls |-> "PriorityQueue", inst |-> q]
MEs == {Mapper, Mbpcd, Tcont} \cup {Nctp(g) : g \in Gems}
       \cup {GemIw(g) : g \in Gems} \cup {Pq(q) : q \in Queues}

NoGem == "none"
NoMe == [cls |-> "none", inst |-> "none"]   \* pLastTxMeInstance before any send
OnuG == [cls |-> "OnuG", inst |-> "onug"]   \* addressed by the lock/unlock FSMs

(* enterSettingDot1PMapper: pbit i goes to the first GEM port of the slice *)
(* whose pbitString sets it; later claims of the same pbit are ignored.    *)
PbitTable(slice) ==
  [i \in 0..7 |->
     LET claims == {k \in DOMAIN slice : i \in PbitOf[slice[k]]}
     IN IF claims = {} THEN NoGem ELSE slice[Min(claims)]]

(* foundIwPtr: some pbit is mapped to a GEM interworking TP. *)
FoundIwPtr(slice) == \E i \in 0..7 : PbitTable(slice)[i] # NoGem

(* performSettingPQs: the upstream queues of the slice in order of first   *)
(* occurrence (the ordered loQueueMap).                                    *)
QueueOrder(slice) ==
  FoldLeft(LAMBDA acc, g : IF UpQueue[g] \in ToSet(acc) THEN acc
                           ELSE Append(acc, UpQueue[g]),
           <<>>, slice)

Req(op, me, val) == [op |-> op, me |-> me, val |-> val]
Resp(op, me, ok) == [kind |-> "omci", op |-> op, me |-> me, ok |-> ok]
Abort == [kind |-> "abort", op |-> "none", me |-> Mapper, ok |-> FALSE]

VARIABLES
  fsm,        \* pAdaptFsm.pFsm.Current()
  pending,    \* bag of decoupled goroutines: events, and "prepare"
              \* (prepareAndEnterConfigState)
  slice,      \* gemPortAttribsSlice
  commChan,   \* pAdaptFsm.commChan
  reading,    \* pumps waiting on commChan
  blocked,    \* pumps blocked in omciMIdsResponseReceived <- true
  loops,      \* running performCreatingGemNCTPs / GemIWs / SettingPQs
  lastTx,     \* omciCC.pLastTxMeInstance
  onuTx,      \* requests in flight, answered in order
  onuMe,      \* MEs created or set on the ONU
  onuMapper,  \* the pbit table last set in the ONU's 802.1p mapper
  completed,  \* aniConfigCompleted
  chanSet,    \* chanSet: a caller waits on chSuccess
  configDone, \* onuUniTechProf.setConfigDone / getConfigDone of this UNI
  signals,    \* Seq of what was reported: "chSuccess", "OmciAniConfigDone"
  stopped,    \* dh.deviceReason = "stopping-openomci" (ONU down, not yet back)
  tpSent,     \* the UNI's tech-profile path was downloaded since the ONU's MIB
              \* was last reset (updateOnuUniTpPath reports no modification)
  starts, downs, faults,
  foreign     \* sends of other FSMs on the omciCC so far

vars == <<fsm, pending, slice, commChan, reading, blocked, loops, lastTx, onuTx,
          onuMe, onuMapper, completed, chanSet, configDone, signals,
          stopped, tpSent, starts, downs, faults, foreign>>

Msg == {Abort} \cup [kind : {"omci"}, op : {"create", "set"}, me : MEs, ok : BOOLEAN]

TypeOK ==
  /\ fsm \in States
  /\ IsABag(pending)
  /\ slice \in Seq(Gems)
  /\ commChan \in Seq(Msg)
  /\ reading \in Nat /\ blocked \in Nat
  /\ \A l \in loops : l.kind \in {"nctp", "iw", "pq"} /\ l.pc \in {"tx", "wait"}
  /\ lastTx \in MEs \cup {NoMe, OnuG}
  /\ onuMe \subseteq MEs
  /\ completed \in BOOLEAN /\ chanSet \in BOOLEAN /\ configDone \in BOOLEAN
  /\ signals \in Seq({"chSuccess", "OmciAniConfigDone"})

-----------------------------------------------------------------------------
(* Transition table of newUniPonAniConfigFsm. *)
Chain == <<"aniStStarting", "aniStCreatingDot1PMapper", "aniStCreatingMBPCD",
           "aniStSettingTconts", "aniStCreatingGemNCTPs", "aniStCreatingGemIWs",
           "aniStSettingPQs", "aniStSettingDot1PMapper", "aniStConfigDone">>
ChainEvents == <<"aniEvStartConfig", "aniEvRxDot1pmapCResp", "aniEvRxMbpcdResp",
                 "aniEvRxTcontsResp", "aniEvRxGemntcpsResp", "aniEvRxGemiwsResp",
                 "aniEvRxPrioqsResp", "aniEvRxDot1pmapSResp">>

(* The configuration chain, from aniStStarting to aniStConfigDone. *)
ChainSteps == { <<ChainEvents[i], Chain[i], Chain[i + 1]>> : i \in 1..8 }

(* The only way from aniStResetting back to aniStDisabled. *)
RestartStep == { <<"aniEvRestart", "aniStResetting", "aniStDisabled">> }

Table ==
  { <<"aniEvStart", "aniStDisabled", "aniStStarting">> }
  \cup ChainSteps
  \cup { <<"aniEvTimeoutSimple", s, "aniStStarting">> :
           s \in {"aniStCreatingDot1PMapper", "aniStCreatingMBPCD",
                  "aniStSettingTconts", "aniStSettingDot1PMapper"} }
  \cup { <<"aniEvTimeoutMids", s, "aniStStarting">> :
           s \in {"aniStCreatingGemNCTPs", "aniStCreatingGemIWs", "aniStSettingPQs"} }
  \cup { <<"aniEvReset", s, "aniStResetting">> : s \in ToSet(Chain) }
  \cup RestartStep

Cur == [fsm |-> fsm, pending |-> pending, slice |-> slice, commChan |-> commChan,
        reading |-> reading, blocked |-> blocked, loops |-> loops,
        lastTx |-> lastTx, onuTx |-> onuTx, completed |-> completed,
        chanSet |-> chanSet, configDone |-> configDone, signals |-> signals]

Assign(s) ==
  /\ fsm' = s.fsm /\ pending' = s.pending /\ slice' = s.slice
  /\ commChan' = s.commChan /\ reading' = s.reading /\ blocked' = s.blocked
  /\ loops' = s.loops /\ lastTx' = s.lastTx /\ onuTx' = s.onuTx
  /\ completed' = s.completed /\ chanSet' = s.chanSet
  /\ configDone' = s.configDone /\ signals' = s.signals

(* Send an OMCI request and make it pLastTxMeInstance. *)
Send(s, op, me, val) ==
  [s EXCEPT !.onuTx = Append(@, Req(op, me, val)), !.lastTx = me]

NewLoop(s, kind, items) ==
  [s EXCEPT !.loops = @ \cup {[kind |-> kind, todo |-> items, pc |-> "tx",
                               gen |-> starts]}]

(* Mutant: enterDisabledState does not mark the tech profile configured. *)
EnterDisabledWithoutConfigDone(s) ==
  LET s1 == IF s.completed
            THEN [s EXCEPT !.signals = Append(@, "OmciAniConfigDone"),
                           !.completed = FALSE]
            ELSE s
  IN IF s1.chanSet
     THEN [s1 EXCEPT !.signals = Append(@, "chSuccess"), !.chanSet = FALSE]
     ELSE s1

(* enterDisabledState: notify the device handler if the run completed;     *)
(* mark the UNI's tech profile configured; report on chSuccess if a caller *)
(* waits.                                                                  *)
EnterDisabled(s) ==
  LET s1 == IF s.completed
            THEN [s EXCEPT !.signals = Append(@, "OmciAniConfigDone"),
                           !.completed = FALSE]
            ELSE s
      s2 == [s1 EXCEPT !.configDone = TRUE]
  IN IF s2.chanSet
     THEN [s2 EXCEPT !.signals = Append(@, "chSuccess"), !.chanSet = FALSE]
     ELSE s2

(* The entry callbacks of uniPonAniConfigFsm. *)
EnterState(s, st) ==
  CASE st = "aniStStarting" ->
         \* enterConfigStartingState: clear the slice, new pump,
         \* go prepareAndEnterConfigState
         [s EXCEPT !.slice = <<>>, !.reading = @ + 1,
                   !.pending = BagAdd(@, "prepare")]
    [] st = "aniStCreatingDot1PMapper" -> Send(s, "create", Mapper, 0)
    [] st = "aniStCreatingMBPCD" -> Send(s, "create", Mbpcd, 0)
    [] st = "aniStSettingTconts" -> Send(s, "set", Tcont, 0)
    [] st = "aniStCreatingGemNCTPs" ->
         NewLoop(s, "nctp", [k \in DOMAIN s.slice |-> Nctp(s.slice[k])])
    [] st = "aniStCreatingGemIWs" ->
         NewLoop(s, "iw", [k \in DOMAIN s.slice |-> GemIw(s.slice[k])])
    [] st = "aniStSettingPQs" ->
         NewLoop(s, "pq", [k \in DOMAIN QueueOrder(s.slice) |-> Pq(QueueOrder(s.slice)[k])])
    [] st = "aniStSettingDot1PMapper" ->
         \* enterSettingDot1PMapper: without any pbit a reset is spawned,
         \* and the Set is sent all the same
         LET s1 == IF FoundIwPtr(s.slice) THEN s
                   ELSE [s EXCEPT !.pending = BagAdd(@, "aniEvReset")]
         IN Send(s1, "set", Mapper, PbitTable(s.slice))
    [] st = "aniStConfigDone" ->
         \* enterAniConfigDone
         [s EXCEPT !.completed = TRUE,
                   !.pending = BagAdd(@, "aniEvReset")]
    [] st = "aniStResetting" ->
         \* enterResettingState
         [s EXCEPT !.commChan = Append(@, Abort),
                   !.pending = BagAdd(@, "aniEvRestart")]
    [] OTHER -> EnterDisabled(s)

(* One pFsm.Event call. *)
FsmEvent(s, ev) ==
  LET tr == {t \in Table : t[1] = ev /\ t[2] = s.fsm}
  IN IF tr = {} THEN s
     ELSE LET dst == (CHOOSE t \in tr : TRUE)[3]
          IN EnterState([s EXCEPT !.fsm = dst], dst)

-----------------------------------------------------------------------------
(* The tech-profile handler: setFsmCompleteChannel, then aniEvStart. The   *)
(* device handler refuses a tech-profile download while stopped, and       *)
(* configures only a path that is new for the UNI.                         *)
TpStart ==
  /\ ~stopped
  /\ ~tpSent
  /\ tpSent' = TRUE
  /\ fsm = "aniStDisabled"
  /\ starts < MaxStarts
  /\ starts' = starts + 1
  /\ Assign(FsmEvent([Cur EXCEPT !.chanSet = TRUE], "aniEvStart"))
  /\ UNCHANGED <<onuMe, onuMapper, stopped, downs, faults, foreign>>

(* updateInterface on an ONU down indication. In the default branch of its *)
(* switch on deviceReason: aniEvReset, then the UNI's configDone cleared.  *)
(* With deviceReason discovery-mibsync-complete (a tech-profile download   *)
(* is accepted then too) only the MIB download FSM is reset, and this FSM  *)
(* and configDone are left alone.                                          *)
DeviceDown ==
  /\ downs < MaxDowns
  /\ downs' = downs + 1
  /\ ~stopped
  /\ stopped' = TRUE
  /\ \/ Assign([FsmEvent(Cur, "aniEvReset") EXCEPT !.configDone = FALSE])
     \/ Assign(Cur)
  /\ UNCHANGED <<onuMe, onuMapper, tpSent, starts, faults, foreign>>

(* prepareAndEnterConfigState: append the GEM ports in map order, then     *)
(* aniEvStartConfig.                                                       *)
Prepare ==
  /\ BagIn("prepare", pending)
  /\ \E order \in SetToSeqs(Gems) :
       Assign(FsmEvent([Cur EXCEPT !.pending = BagRemove(@, "prepare"),
                                   !.slice = @ \o order], "aniEvStartConfig"))
  /\ UNCHANGED <<onuMe, onuMapper, stopped, tpSent, starts, downs, faults, foreign>>

(* A decoupled "go func(){ pFsm.Event(ev) }" runs. *)
FireDecoupled ==
  \E e \in BagToSet(pending) \ {"prepare"} :
    /\ Assign(FsmEvent([Cur EXCEPT !.pending = BagRemove(@, e)], e))
    /\ UNCHANGED <<onuMe, onuMapper, stopped, tpSent, starts, downs, faults, foreign>>

-----------------------------------------------------------------------------
(* The FSM event a matching response drives, or "wait" when the response   *)
(* is handed to a loop (handleOmciAniConfigCreate/SetResponseMessage).     *)
RespEvent(m) ==
  CASE m.op = "create" /\ m.me = Mapper -> "aniEvRxDot1pmapCResp"
    [] m.op = "create" /\ m.me = Mbpcd -> "aniEvRxMbpcdResp"
    [] m.op = "create" /\ m.me.cls \in {"GemPortNetworkCtp",
                                         "GemInterworkingTerminationPoint"} -> "wait"
    [] m.op = "set" /\ m.me = Tcont -> "aniEvRxTcontsResp"
    [] m.op = "set" /\ m.me.cls = "PriorityQueue" -> "wait"
    [] m.op = "set" /\ m.me = Mapper -> "aniEvRxDot1pmapSResp"
    [] OTHER -> "none"

(* Mutant: a response is acted on whatever its result. *)
PumpReceiveIgnoringResult ==
  /\ reading > 0
  /\ commChan # <<>>
  /\ LET m == Head(commChan)
         s == [Cur EXCEPT !.commChan = Tail(@)]
     IN Assign(CASE m = Abort -> [s EXCEPT !.reading = @ - 1]
                 [] m.me # lastTx -> s
                 [] RespEvent(m) = "wait" ->
                      [s EXCEPT !.reading = @ - 1, !.blocked = @ + 1]
                 [] OTHER -> FsmEvent(s, RespEvent(m)))
  /\ UNCHANGED <<onuMe, onuMapper, stopped, tpSent, starts, downs, faults, foreign>>

(* processOmciAniMessages: the pump takes the next message. *)
PumpReceive ==
  /\ reading > 0
  /\ commChan # <<>>
  /\ LET m == Head(commChan)
         s == [Cur EXCEPT !.commChan = Tail(@)]
     IN Assign(CASE m = Abort -> [s EXCEPT !.reading = @ - 1]
                 [] ~m.ok \/ m.me # lastTx -> s
                 [] RespEvent(m) = "wait" ->
                      [s EXCEPT !.reading = @ - 1, !.blocked = @ + 1]
                 [] OTHER -> FsmEvent(s, RespEvent(m)))
  /\ UNCHANGED <<onuMe, onuMapper, stopped, tpSent, starts, downs, faults, foreign>>

LoopDoneEvent(kind) ==
  CASE kind = "nctp" -> "aniEvRxGemntcpsResp"
    [] kind = "iw" -> "aniEvRxGemiwsResp"
    [] OTHER -> "aniEvRxPrioqsResp"

(* A loop sends the request for its next entity. *)
LoopSend(l) ==
  /\ l.pc = "tx"
  /\ l.todo # <<>>
  /\ Assign([Send(Cur, IF l.kind = "pq" THEN "set" ELSE "create", Head(l.todo), 0)
               EXCEPT !.loops = (@ \ {l}) \cup {[l EXCEPT !.todo = Tail(@), !.pc = "wait"]}])
  /\ UNCHANGED <<onuMe, onuMapper, stopped, tpSent, starts, downs, faults, foreign>>

(* The loop has done all entities: its Rx event. *)
LoopFinish(l) ==
  /\ l.pc = "tx"
  /\ l.todo = <<>>
  /\ Assign(FsmEvent([Cur EXCEPT !.loops = @ \ {l}], LoopDoneEvent(l.kind)))
  /\ UNCHANGED <<onuMe, onuMapper, stopped, tpSent, starts, downs, faults, foreign>>

(* Mutant: the loop goes on without a pump having sent on the channel. *)
LoopReceiveUnblocked(l) ==
  /\ l.pc = "wait"
  /\ blocked' = blocked - 1
  /\ reading' = reading + 1
  /\ loops' = (loops \ {l}) \cup {[l EXCEPT !.pc = "tx"]}
  /\ UNCHANGED <<fsm, pending, slice, commChan, lastTx, onuTx, onuMe, onuMapper,
                 completed, chanSet, configDone, signals,
                 stopped, tpSent, starts, downs, faults, foreign>>

(* waitforOmciResponse takes true from a blocked pump. *)
LoopReceive(l) ==
  /\ l.pc = "wait"
  /\ blocked > 0
  /\ blocked' = blocked - 1
  /\ reading' = reading + 1
  /\ loops' = (loops \ {l}) \cup {[l EXCEPT !.pc = "tx"]}
  /\ UNCHANGED <<fsm, pending, slice, commChan, lastTx, onuTx, onuMe, onuMapper,
                 completed, chanSet, configDone, signals,
                 stopped, tpSent, starts, downs, faults, foreign>>

(* waitforOmciResponse times out: aniEvReset, the loop returns. *)
LoopTimeout(l) ==
  /\ l.pc = "wait"
  /\ Assign(FsmEvent([Cur EXCEPT !.loops = @ \ {l}], "aniEvReset"))
  /\ UNCHANGED <<onuMe, onuMapper, stopped, tpSent, starts, downs, faults, foreign>>

(* A step of a goroutine that is not waiting on a timer. *)
Runnable ==
  \/ Prepare \/ FireDecoupled \/ PumpReceive
  \/ \E l \in loops : LoopSend(l) \/ LoopFinish(l) \/ LoopReceive(l)

(* The ONU comes back: createInterface resets its MIB, which removes the   *)
(* ANI configuration from the ONU; what was in flight to it is lost. The   *)
(* tech profile is then downloaded to the new MIB again. Re-discovery      *)
(* (MIB upload and download) takes seconds, so every goroutine of the      *)
(* reset run that is not waiting on a timer has run by then.               *)
DeviceUp ==
  /\ stopped
  /\ ~ENABLED Runnable
  /\ stopped' = FALSE
  /\ tpSent' = FALSE
  /\ onuMe' = {}
  /\ onuMapper' = [i \in 0..7 |-> NoGem]
  /\ onuTx' = <<>>
  /\ UNCHANGED <<fsm, pending, slice, commChan, reading, blocked, loops, lastTx,
                 completed, chanSet, configDone, signals,
                 starts, downs, faults, foreign>>

-----------------------------------------------------------------------------
(* The ONU, while reachable, answers the oldest request. A Create of an entity that exists  *)
(* is refused ("instance exists"), and so is a Set of the 802.1p mapper    *)
(* when it does not exist ("unknown instance"); T-CONTs and priority       *)
(* queues are created by the ONU itself.                                   *)
OnuRespond ==
  /\ ~stopped
  /\ onuTx # <<>>
  /\ LET r == Head(onuTx)
         ok == IF r.op = "create" THEN r.me \notin onuMe
               ELSE r.me # Mapper \/ Mapper \in onuMe
     IN /\ onuMe' = IF ok THEN onuMe \cup {r.me} ELSE onuMe
        /\ onuMapper' = IF ok /\ r.op = "set" /\ r.me = Mapper THEN r.val ELSE onuMapper
        /\ commChan' = Append(commChan, Resp(r.op, r.me, ok))
  /\ onuTx' = Tail(onuTx)
  /\ UNCHANGED <<fsm, pending, slice, reading, blocked, loops, lastTx, completed,
                 chanSet, configDone, signals, stopped, tpSent, starts, downs, faults, foreign>>

(* The ONU rejects the oldest request, or it or its response is lost. *)
OnuFault ==
  /\ ~stopped
  /\ onuTx # <<>>
  /\ faults < MaxFaults
  /\ faults' = faults + 1
  /\ onuTx' = Tail(onuTx)
  /\ \/ commChan' = Append(commChan, Resp(Head(onuTx).op, Head(onuTx).me, FALSE))
     \/ UNCHANGED commChan
  /\ UNCHANGED <<fsm, pending, slice, reading, blocked, loops, lastTx, onuMe,
                 onuMapper, completed, chanSet, configDone, signals,
                 stopped, tpSent, starts, downs, foreign>>

(* A lock or unlock FSM of the device (disableDevice, reEnableDevice or the *)
(* MIB-download unlock) sends its ONU-G Set on the same omciCC and writes    *)
(* pLastTxMeInstance (lockStateFsm.enterSettingOnuGState). Its response    *)
(* goes to its own commChan, outside this module.                           *)
LockSend ==
  /\ foreign < MaxForeign
  /\ foreign' = foreign + 1
  /\ lastTx' = OnuG
  /\ UNCHANGED <<fsm, pending, slice, commChan, reading, blocked, loops, onuTx,
                 onuMe, onuMapper, completed, chanSet, configDone, signals,
                 stopped, tpSent, starts, downs, faults>>

-----------------------------------------------------------------------------
Init ==
  /\ fsm = "aniStDisabled"
  /\ pending = EmptyBag
  /\ slice = <<>>
  /\ commChan = <<>>
  /\ reading = 0 /\ blocked = 0
  /\ loops = {}
  /\ lastTx = NoMe
  /\ onuTx = <<>>
  /\ onuMe = {}
  /\ onuMapper = [i \in 0..7 |-> NoGem]
  /\ completed = FALSE /\ chanSet = FALSE /\ configDone = FALSE
  /\ signals = <<>>
  /\ stopped = FALSE
  /\ tpSent = FALSE
  /\ starts = 0 /\ downs = 0 /\ faults = 0 /\ foreign = 0

Next ==
  \/ TpStart \/ DeviceDown \/ DeviceUp \/ Prepare \/ FireDecoupled \/ PumpReceive
  \/ \E l \in loops : LoopSend(l) \/ LoopFinish(l) \/ LoopReceive(l) \/ LoopTimeout(l)
  \/ OnuRespond \/ OnuFault \/ LockSend

Spec == Init /\ [][Next]_vars

(* Goroutines that are runnable eventually run and the ONU answers every   *)
(* request it has not lost; a loop still waiting is eventually woken by its *)
(* time.After(30 s) in waitforOmciResponse.                                 *)
Fairness ==
  /\ WF_vars(Prepare) /\ WF_vars(FireDecoupled) /\ WF_vars(PumpReceive)
  /\ WF_vars(\E l \in loops : LoopSend(l) \/ LoopFinish(l) \/ LoopReceive(l))
  /\ WF_vars(\E l \in loops : LoopTimeout(l))
  /\ WF_vars(OnuRespond)

FairSpec == Spec /\ Fairness

-----------------------------------------------------------------------------
(* Properties *)

(* The ANI configuration of the tech profile, complete on the ONU: the     *)
(* mapper, the bridge port, the T-CONT, an NCTP and an IW TP per GEM port, *)
(* the GEM ports' upstream queues, and every claimed pbit mapped.          *)
Configured ==
  /\ {Mapper, Mbpcd, Tcont} \cup {Nctp(g) : g \in Gems} \cup {GemIw(g) : g \in Gems}
       \cup {Pq(UpQueue[g]) : g \in Gems} \subseteq onuMe
  /\ \A i \in 0..7 : (\E g \in Gems : i \in PbitOf[g]) => onuMapper[i] # NoGem

(* How often OmciAniConfigDone was reported. *)
DoneReports(sig) == Len(SelectSeq(sig, LAMBDA x : x = "OmciAniConfigDone"))

(* OmciAniConfigDone is reported to the device handler only while the ONU  *)
(* holds the complete configuration (aniConfigCompleted is set in          *)
(* aniStConfigDone and reported later, in enterDisabledState).             *)
CompletionMeansConfigured ==
  [][DoneReports(signals') > DoneReports(signals) => Configured]_vars

(* The phase of the FSM as the device handler sees it. A run that has    *)
(* reached aniStConfigDone (aniConfigCompleted) still counts as running    *)
(* in aniStResetting: enterDisabledState will report it.                   *)
AniPhaseOf(st, done) ==
  CASE st = "aniStDisabled" -> "idle"
    [] st = "aniStResetting" /\ ~done -> "resetting"
    [] OTHER -> "running"

Phase == INSTANCE AniConfigPhase
           WITH ani <- AniPhaseOf(fsm, completed),
                configDone <- configDone,
                reports <- DoneReports(signals)

(* The ANI config FSM implements the phase abstraction DeviceHandler      *)
(* uses: every FSM transition, decoupled goroutine, loop step and          *)
(* updateInterface reset is a start from disabled, a completion with one   *)
(* OmciAniConfigDone and configDone set, an abort, a reset that clears     *)
(* configDone, a restart that sets it without a report, or leaves the      *)
(* phase alone.                                                            *)
PhaseRefinement == Phase!Spec

=============================================================================
