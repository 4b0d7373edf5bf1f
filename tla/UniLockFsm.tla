----------------------------- MODULE UniLockFsm -----------------------------
(***************************************************************************)
(* The two lockStateFsm instances of a device (uniportadmin.go): the lock  *)
(* FSM (adminState = true) and the unlock FSM, started by the device       *)
(* handler (deviceHandler.createUniLockFsm / runUniLockFsm) on             *)
(* disableDevice, reEnableDevice and the MIB-download-done event.          *)
(*                                                                         *)
(* Every goroutine of the code is an actor of the model:                   *)
(*  - the looplab FSM itself: an Event call is one atomic step that checks *)
(*    the transition table and runs the entry callback of the new state;   *)
(*  - the goroutines spawned "to decouple" an Event call (pending);        *)
(*  - the message pumps processOmciLockMessages, reading the FSM's         *)
(*    commChan or blocked on the unbuffered omciLockResponseReceived;      *)
(*  - the UNI loops performUniPortAdminSet;                                *)
(*  - the ONU, answering OMCI requests in order, possibly failing one.     *)
(* A response is delivered to the commChan of the FSM that sent the        *)
(* request, and accepted only if it matches the channel-wide               *)
(* pLastTxMeInstance (lastTx).                                             *)
(***************************************************************************)
EXTENDS Integers, Sequences, FiniteSets, Bags, BagsExt

CONSTANTS
  Unis,       \* UNI ports in dh.uniEntityMap (UNI-G / VEIP entities)
  OnuG,       \* the ONU-G managed entity
  MaxReqs,    \* bound on device handler requests (disable, re-enable, MIB done, down)
  MaxFaults,  \* bound on OMCI requests the ONU loses or answers with an error
  MaxForeign  \* bound on OMCI requests other FSMs send on the same omciCC

ASSUME OnuG \notin Unis /\ MaxReqs \in Nat /\ MaxFaults \in Nat /\ MaxForeign \in Nat

Dirs == {"lock", "unlock"}
Other(d) == IF d = "lock" THEN "unlock" ELSE "lock"
MEs == Unis \cup {OnuG}
AniMe == "aniMe"   \* an ME instance the ANI config FSM addresses

\* omciAdminState of enterSettingOnuGState and performUniPortAdminSet
AdminVal(d) == IF d = "lock" THEN 1 ELSE 0

States == {"uniStDisabled", "uniStStarting", "uniStSettingUnis",
           "uniStSettingOnuG", "uniStAdminDone", "uniStResetting"}
DevEvents == {"UniUnlockStateDone", "UniAdminStateDone"}

\* An OMCI Set request: sending FSM, entity, admin value.
Req(d, me) == [d |-> d, me |-> me, v |-> AdminVal(d)]
\* Messages on a commChan: an OMCI Set response, or the AbortMessageProcessing
\* test message of enterResettingState.
Resp(me, ok) == [kind |-> "omci", me |-> me, ok |-> ok]
Abort == [kind |-> "abort", me |-> "none", ok |-> FALSE]

VARIABLES
  fsm,        \* [Dirs -> States]: pAdaptFsm.pFsm.Current()
  created,    \* [Dirs -> BOOLEAN]: dh.pLockStateFsm / dh.pUnlockStateFsm # nil
  reqEvent,   \* [Dirs -> DevEvents]: lockStateFsm.requestEvent
  pending,    \* bag of <<d, event>>: "go func(){ pFsm.Event(ev) }" not yet run
  commChan,   \* [Dirs -> Seq(message)]: pAdaptFsm.commChan (capacity 2048)
  reading,    \* [Dirs -> Nat]: pumps waiting on commChan
  blocked,    \* [Dirs -> Nat]: pumps blocked in omciLockResponseReceived <- true
  loops,      \* set of running performUniPortAdminSet goroutines
  runs,       \* number of FSM starts so far: identifies a run's UNI loop
  lastTx,     \* omciCC.pLastTxMeInstance
  onuTx,      \* Seq of requests sent on the OMCI channel, answered in order
  onuAdmin,   \* [MEs -> {0, 1}]: AdministrativeState on the ONU
  notified,   \* Seq of events passed to deviceProcStatusUpdate
  lastReq,    \* history: direction of the latest device handler request
  doneReq,    \* history: its FSM has reached uniStAdminDone since
  reason,     \* dh.deviceReason
  reqs,       \* device handler requests so far
  faults,     \* ONU faults so far
  foreign     \* requests other FSMs sent on the omciCC so far

vars == <<fsm, created, reqEvent, pending, commChan, reading, blocked, loops,
          runs, lastTx, onuTx, onuAdmin, notified, lastReq, doneReq, reason, reqs, faults, foreign>>

Loop == [id : Nat, d : Dirs, todo : SUBSET Unis, pc : {"tx", "wait"}]

TypeOK ==
  /\ fsm \in [Dirs -> States]
  /\ created \in [Dirs -> BOOLEAN]
  /\ reqEvent \in [Dirs -> DevEvents]
  /\ IsABag(pending)
  /\ commChan \in [Dirs -> Seq({Abort} \cup [kind : {"omci"}, me : MEs, ok : BOOLEAN])]
  /\ reading \in [Dirs -> Nat] /\ blocked \in [Dirs -> Nat]
  /\ loops \subseteq Loop
  /\ lastTx \in MEs \cup {"none", AniMe}
  /\ onuTx \in Seq([d : Dirs, me : MEs, v : {0, 1}])
  /\ onuAdmin \in [MEs -> {0, 1}]
  /\ notified \in Seq(DevEvents)
  /\ lastReq \in Dirs \cup {"none"} /\ doneReq \in BOOLEAN

-----------------------------------------------------------------------------
(* The transition tables of newLockStateFsm: the lock and unlock variants   *)
(* differ only in the order of the ONU-G and UNI phases.                    *)
LockTable ==
  { <<"uniEvStart", "uniStDisabled", "uniStStarting">>,
    <<"uniEvStartAdmin", "uniStStarting", "uniStSettingUnis">>,
    <<"uniEvRxUnisResp", "uniStSettingUnis", "uniStSettingOnuG">>,
    <<"uniEvRxOnugResp", "uniStSettingOnuG", "uniStAdminDone">> }

UnlockTable ==
  { <<"uniEvStart", "uniStDisabled", "uniStStarting">>,
    <<"uniEvStartAdmin", "uniStStarting", "uniStSettingOnuG">>,
    <<"uniEvRxOnugResp", "uniStSettingOnuG", "uniStSettingUnis">>,
    <<"uniEvRxUnisResp", "uniStSettingUnis", "uniStAdminDone">> }

(* Variant of the common transitions whose uniEvReset also leaves           *)
(* uniStDisabled.                                                          *)
CommonTableResetFromAny ==
  { <<"uniEvTimeoutSimple", "uniStSettingOnuG", "uniStStarting">>,
    <<"uniEvTimeoutUnis", "uniStSettingUnis", "uniStStarting">> }
  \cup { <<"uniEvReset", s, "uniStResetting">> :
           s \in {"uniStDisabled", "uniStStarting", "uniStSettingOnuG",
                  "uniStSettingUnis", "uniStAdminDone"} }
  \cup { <<"uniEvRestart", s, "uniStDisabled">> :
           s \in {"uniStStarting", "uniStSettingOnuG", "uniStSettingUnis",
                  "uniStAdminDone", "uniStResetting"} }

CommonTable ==
  { <<"uniEvTimeoutSimple", "uniStSettingOnuG", "uniStStarting">>,
    <<"uniEvTimeoutUnis", "uniStSettingUnis", "uniStStarting">> }
  \cup { <<"uniEvReset", s, "uniStResetting">> :
           s \in {"uniStStarting", "uniStSettingOnuG", "uniStSettingUnis", "uniStAdminDone"} }
  \cup { <<"uniEvRestart", s, "uniStDisabled">> :
           s \in {"uniStStarting", "uniStSettingOnuG", "uniStSettingUnis",
                  "uniStAdminDone", "uniStResetting"} }

Table(d) == (IF d = "lock" THEN LockTable ELSE UnlockTable) \cup CommonTable

(* The variables an Event call and its entry callback may change, as one    *)
(* record, so that a handler making several calls composes them in order.  *)
Cur == [fsm |-> fsm, reqEvent |-> reqEvent, pending |-> pending,
        commChan |-> commChan, reading |-> reading, blocked |-> blocked,
        loops |-> loops, runs |-> runs, lastTx |-> lastTx, onuTx |-> onuTx,
        notified |-> notified, doneReq |-> doneReq]

Assign(s) ==
  /\ fsm' = s.fsm /\ reqEvent' = s.reqEvent /\ pending' = s.pending
  /\ commChan' = s.commChan /\ reading' = s.reading /\ blocked' = s.blocked
  /\ loops' = s.loops /\ runs' = s.runs /\ lastTx' = s.lastTx
  /\ onuTx' = s.onuTx /\ notified' = s.notified
  /\ doneReq' = s.doneReq

(* Sending an OMCI Set: the request goes out and becomes pLastTxMeInstance. *)
SendSet(s, d, me) ==
  [s EXCEPT !.onuTx = Append(@, Req(d, me)), !.lastTx = me]

(* The entry callbacks of lockStateFsm. *)
EnterState(s, d, st) ==
  CASE st = "uniStStarting" ->
         \* enterAdminStartingState: new pump, decoupled uniEvStartAdmin
         [s EXCEPT !.reading[d] = @ + 1, !.runs = @ + 1,
                   !.pending = BagAdd(@, <<d, "uniEvStartAdmin">>)]
    [] st = "uniStSettingOnuG" ->
         \* enterSettingOnuGState
         SendSet(s, d, OnuG)
    [] st = "uniStSettingUnis" ->
         \* enterSettingUnisState: go performUniPortAdminSet()
         [s EXCEPT !.loops = @ \cup {[id |-> s.runs, d |-> d, todo |-> Unis, pc |-> "tx"]}]
    [] st = "uniStAdminDone" ->
         \* enterAdminDoneState: notify the device handler, decoupled uniEvReset
         [s EXCEPT !.notified = Append(@, s.reqEvent[d]),
                   !.doneReq = @ \/ d = lastReq,
                   !.pending = BagAdd(@, <<d, "uniEvReset">>)]
    [] st = "uniStResetting" ->
         \* enterResettingState: abort the pump, decoupled uniEvRestart
         [s EXCEPT !.commChan[d] = Append(@, Abort),
                   !.pending = BagAdd(@, <<d, "uniEvRestart">>)]
    [] OTHER -> s   \* no callback on entering uniStDisabled

(* pFsm.Event(ev): a transition the table has, with its entry callback;     *)
(* an event the current state has no transition for changes nothing.       *)
FsmEvent(s, d, ev) ==
  LET tr == {t \in Table(d) : t[1] = ev /\ t[2] = s.fsm[d]}
  IN IF tr = {} THEN s
     ELSE LET dst == (CHOOSE t \in tr : TRUE)[3]
          IN EnterState([s EXCEPT !.fsm[d] = dst], d, dst)

(* Variant of runUniLockFsm that starts an FSM without terminating the    *)
(* opposite one.                                                           *)
RunUniLockFsmWithoutReset(s, d) ==
  IF s.fsm[d] = "uniStDisabled" THEN FsmEvent(s, d, "uniEvStart") ELSE s

(* runUniLockFsm: reset the opposite FSM unless it is disabled, then start  *)
(* this one if it is disabled.                                              *)
RunUniLockFsm(s, d) ==
  LET s1 == IF created[Other(d)] /\ s.fsm[Other(d)] # "uniStDisabled"
            THEN FsmEvent(s, Other(d), "uniEvReset") ELSE s
  IN IF s1.fsm[d] = "uniStDisabled" THEN FsmEvent(s1, d, "uniEvStart") ELSE s1

(* setSuccessEvent: the event the run will report on uniStAdminDone. Its    *)
(* comment assumes a disabled FSM; nothing checks that.                    *)
SetSuccessEvent(s, d, ev) == [s EXCEPT !.reqEvent[d] = ev]

(* createUniLockFsm on the first request, else setSuccessEvent and          *)
(* runUniLockFsm. A new FSM starts disabled on a fresh commChan.            *)
RequestAdmin(d, ev) ==
  /\ reqs < MaxReqs
  /\ reqs' = reqs + 1
  /\ created' = [created EXCEPT ![d] = TRUE]
  /\ lastReq' = d
  /\ Assign(RunUniLockFsm(SetSuccessEvent([Cur EXCEPT !.doneReq = FALSE], d, ev), d))

-----------------------------------------------------------------------------
(* Device handler entry points. *)

\* processMibDownloadDoneEvent (once per MIB download): unlock, notify
\* UniUnlockStateDone
MibDownloadDone ==
  /\ reason = "discovery-mibsync-complete"
  /\ reason' = "initial-mib-downloaded"
  /\ RequestAdmin("unlock", "UniUnlockStateDone")
  /\ UNCHANGED <<onuAdmin, faults, foreign>>

\* disableDevice: lock unless already admin-locked
DisableDevice ==
  /\ reason # "omci-admin-lock"
  /\ reason' = "omci-admin-lock"
  /\ RequestAdmin("lock", "UniAdminStateDone")
  /\ UNCHANGED <<onuAdmin, faults, foreign>>

\* reEnableDevice: unlock
ReEnableDevice ==
  /\ reason' = "initial-mib-downloaded"
  /\ RequestAdmin("unlock", "UniAdminStateDone")
  /\ UNCHANGED <<onuAdmin, faults, foreign>>

\* updateInterface on an ONU down indication, default branch of its switch
\* on deviceReason (lock/unlock may be active): uniEvReset to the unlock FSM,
\* then to the lock FSM, each if created; then deviceReason becomes
\* stopping-openomci. A down in discovery-mibsync-complete only resets the
\* MIB download FSM, and a second down finds the device already stopped.
DeviceDown ==
  /\ reason \notin {"discovery-mibsync-complete", "stopping-openomci"}
  /\ reqs < MaxReqs
  /\ reqs' = reqs + 1
  /\ reason' = "stopping-openomci"
  /\ LET ResetIfCreated(s, d) ==
          IF created[d] THEN FsmEvent(s, d, "uniEvReset") ELSE s
     IN Assign(ResetIfCreated(ResetIfCreated(Cur, "unlock"), "lock"))
  /\ UNCHANGED <<created, onuAdmin, lastReq, faults, foreign>>

(* A decoupled "go func(){ pFsm.Event(ev) }" goroutine runs. *)
FireDecoupled ==
  \E e \in BagToSet(pending) :
    /\ Assign(FsmEvent([Cur EXCEPT !.pending = BagRemove(@, e)], e[1], e[2]))
    /\ UNCHANGED <<created, onuAdmin, lastReq, reason, reqs, faults, foreign>>

-----------------------------------------------------------------------------
(* processOmciLockMessages / handleOmciLockStateMessage: a pump takes the   *)
(* next message. Abort ends the pump; an error result or a response not     *)
(* matching pLastTxMeInstance is dropped; a matching ONU-G response drives  *)
(* the FSM; a matching UNI response is handed to the UNI loop over the      *)
(* unbuffered omciLockResponseReceived, blocking the pump until taken.      *)
PumpReceive(d) ==
  /\ reading[d] > 0
  /\ commChan[d] # <<>>
  /\ LET m == Head(commChan[d])
         s == [Cur EXCEPT !.commChan[d] = Tail(@)]
     IN Assign(CASE m = Abort -> [s EXCEPT !.reading[d] = @ - 1]
                 [] ~m.ok \/ m.me # lastTx -> s
                 [] m.me = OnuG -> FsmEvent(s, d, "uniEvRxOnugResp")
                 [] OTHER -> [s EXCEPT !.reading[d] = @ - 1, !.blocked[d] = @ + 1])
  /\ UNCHANGED <<created, onuAdmin, lastReq, reason, reqs, faults, foreign>>

(* performUniPortAdminSet: Set the next UNI (Go map order: any one). *)
LoopSend(l) ==
  /\ l.pc = "tx"
  /\ \E u \in l.todo :
       Assign([SendSet(Cur, l.d, u) EXCEPT
                 !.loops = (@ \ {l}) \cup {[l EXCEPT !.todo = @ \ {u}, !.pc = "wait"]}])
  /\ UNCHANGED <<created, onuAdmin, lastReq, reason, reqs, faults, foreign>>

(* All UNIs done: uniEvRxUnisResp. *)
LoopFinish(l) ==
  /\ l.pc = "tx"
  /\ l.todo = {}
  /\ Assign(FsmEvent([Cur EXCEPT !.loops = @ \ {l}], l.d, "uniEvRxUnisResp"))
  /\ UNCHANGED <<created, onuAdmin, lastReq, reason, reqs, faults, foreign>>

(* Variant of the wait that takes a response nobody sent. *)
LoopReceiveUnsent(l) ==
  /\ l.pc = "wait"
  /\ blocked' = [blocked EXCEPT ![l.d] = @ - 1]
  /\ reading' = [reading EXCEPT ![l.d] = @ + 1]
  /\ loops' = (loops \ {l}) \cup {[l EXCEPT !.pc = "tx"]}
  /\ UNCHANGED <<fsm, created, reqEvent, pending, commChan, runs, lastTx, onuTx,
                 onuAdmin, notified, lastReq, doneReq, reason, reqs, faults, foreign>>

(* waitforOmciResponse receives true from some blocked pump of this FSM. *)
LoopReceive(l) ==
  /\ l.pc = "wait"
  /\ blocked[l.d] > 0
  /\ blocked' = [blocked EXCEPT ![l.d] = @ - 1]
  /\ reading' = [reading EXCEPT ![l.d] = @ + 1]
  /\ loops' = (loops \ {l}) \cup {[l EXCEPT !.pc = "tx"]}
  /\ UNCHANGED <<fsm, created, reqEvent, pending, commChan, runs, lastTx, onuTx,
                 onuAdmin, notified, lastReq, doneReq, reason, reqs, faults, foreign>>

(* waitforOmciResponse times out (30 s): uniEvReset, the loop returns. *)
LoopTimeout(l) ==
  /\ l.pc = "wait"
  /\ Assign(FsmEvent([Cur EXCEPT !.loops = @ \ {l}], l.d, "uniEvReset"))
  /\ UNCHANGED <<created, onuAdmin, lastReq, reason, reqs, faults, foreign>>

-----------------------------------------------------------------------------
(* The ONU answers the oldest request: it applies the Set and the response  *)
(* goes to the commChan registered with the request.                       *)
OnuRespond ==
  /\ onuTx # <<>>
  /\ LET r == Head(onuTx)
     IN /\ onuAdmin' = [onuAdmin EXCEPT ![r.me] = r.v]
        /\ commChan' = [commChan EXCEPT ![r.d] = Append(@, Resp(r.me, TRUE))]
  /\ onuTx' = Tail(onuTx)
  /\ UNCHANGED <<fsm, created, reqEvent, pending, reading, blocked, loops, runs,
                 lastTx, notified, lastReq, doneReq, reason, reqs, faults, foreign>>

(* The ONU rejects the oldest request, or it or its response is lost. *)
OnuFault ==
  /\ onuTx # <<>>
  /\ faults < MaxFaults
  /\ faults' = faults + 1
  /\ onuTx' = Tail(onuTx)
  /\ \/ commChan' = [commChan EXCEPT ![Head(onuTx).d] = Append(@, Resp(Head(onuTx).me, FALSE))]
     \/ UNCHANGED commChan
  /\ UNCHANGED <<fsm, created, reqEvent, pending, reading, blocked, loops, runs,
                 lastTx, onuAdmin, notified, lastReq, doneReq, reason, reqs, foreign>>

(* The ANI config FSM of a UNI, started by a tech-profile download at any  *)
(* time the device reason allows it, sends on the same omciCC and writes     *)
(* pLastTxMeInstance (enterCreatingDot1PMapper and the steps after it). Its  *)
(* responses go to its own commChan, outside this module.                    *)
AniConfigSend ==
  /\ foreign < MaxForeign
  /\ foreign' = foreign + 1
  /\ lastTx' = AniMe
  /\ UNCHANGED <<fsm, created, reqEvent, pending, commChan, reading, blocked, loops,
                 runs, onuTx, onuAdmin, notified, lastReq, doneReq, reason, reqs, faults>>

-----------------------------------------------------------------------------
Init ==
  /\ fsm = [d \in Dirs |-> "uniStDisabled"]
  /\ created = [d \in Dirs |-> FALSE]
  /\ reqEvent = [d \in Dirs |-> "UniAdminStateDone"]
  /\ pending = EmptyBag
  /\ commChan = [d \in Dirs |-> <<>>]
  /\ reading = [d \in Dirs |-> 0]
  /\ blocked = [d \in Dirs |-> 0]
  /\ loops = {}
  /\ runs = 0
  /\ lastTx = "none"
  /\ onuTx = <<>>
  /\ onuAdmin = [me \in MEs |-> 1]     \* UNIs are locked after MIB upload
  /\ notified = <<>>
  /\ lastReq = "none"
  /\ doneReq = FALSE
  /\ reason = "discovery-mibsync-complete"
  /\ reqs = 0
  /\ faults = 0
  /\ foreign = 0

Next ==
  \/ MibDownloadDone \/ DisableDevice \/ ReEnableDevice \/ DeviceDown
  \/ FireDecoupled
  \/ \E d \in Dirs : PumpReceive(d)
  \/ \E l \in loops : LoopSend(l) \/ LoopFinish(l) \/ LoopReceive(l) \/ LoopTimeout(l)
  \/ OnuRespond \/ OnuFault \/ AniConfigSend

Spec == Init /\ [][Next]_vars

(* Goroutines that are runnable eventually run, and the ONU answers every   *)
(* request it has not lost. A loop still waiting is eventually woken by its *)
(* time.After(30 s) (waitforOmciResponse), so its timeout is fair as well.  *)
Fairness ==
  /\ WF_vars(FireDecoupled)
  /\ \A d \in Dirs : WF_vars(PumpReceive(d))
  /\ WF_vars(\E l \in loops : LoopSend(l) \/ LoopFinish(l) \/ LoopReceive(l))
  /\ WF_vars(\E l \in loops : LoopTimeout(l))
  /\ WF_vars(OnuRespond)

FairSpec == Spec /\ Fairness

-----------------------------------------------------------------------------
(* Properties *)

(* Once the FSM of the latest disable / re-enable / MIB-done request has     *)
(* reported uniStAdminDone, the ONU-G and every UNI on the ONU carry that     *)
(* request's administrative state, and keep it until the next request: no    *)
(* Set of an earlier, reset run (its performUniPortAdminSet loop, or a Set   *)
(* still in flight) overrides it.                                           *)
AdminStateHolds ==
  doneReq => \A me \in MEs : onuAdmin[me] = AdminVal(lastReq)

(* Lock/unlock mutual exclusion (spec 8): runUniLockFsm resets the other  *)
(* FSM before starting one, so the two are never both running, whatever   *)
(* the order of requests and of the decoupled events still pending.       *)
Running == {"uniStStarting", "uniStSettingOnuG", "uniStSettingUnis", "uniStAdminDone"}

AdminFsmsExclusive ==
  ~(fsm["lock"] \in Running /\ fsm["unlock"] \in Running)

(* The phase of an FSM as the device handler sees it: a run is running     *)
(* until it reaches uniStAdminDone or is reset, and then finishing until   *)
(* its uniEvRestart brings it back to uniStDisabled.                       *)
AdminPhaseOf(st) ==
  CASE st = "uniStDisabled" -> "idle"
    [] st \in {"uniStAdminDone", "uniStResetting"} -> "finishing"
    [] OTHER -> "running"

Phase == INSTANCE UniAdminPhase
           WITH phase <- [d \in Dirs |-> AdminPhaseOf(fsm[d])],
                reports <- Len(notified)

(* The lock and unlock FSMs implement the phase abstraction: whatever the   *)
(* order of requests, decoupled events left over from earlier runs, pump   *)
(* and loop steps and ONU answers, every step is a request, a completion   *)
(* reporting one success event, an abort, a                                *)
(* return to uniStDisabled from a finished run, or leaves the phases and   *)
(* reports alone. In particular no stale uniEvReset or uniEvStartAdmin of  *)
(* an earlier run moves an idle FSM or completes a run twice.             *)
PhaseRefinement == Phase!Spec

=============================================================================
