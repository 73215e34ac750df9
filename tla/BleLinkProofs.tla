---------------------------- MODULE BleLinkProofs ----------------------------
(***************************************************************************)
(* Proofs about BleLink for any number of connection objects, of peers, of  *)
(* connections that come up, and for any studies.                          *)
(***************************************************************************)
EXTENDS BleLink, TLAPS

----------------------------------------------------------------------------
(* TypeOK in groups, one for each part of the state.                       *)

ConnTypes ==
    /\ active \in Conns \cup {NoConn} /\ pending \in Conns \cup {NoConn}
    /\ conn_err \in BOOLEAN /\ scan_matched \in BOOLEAN
    /\ scan_target \in Peers \cup {Anyone}

FlagTypes ==
    /\ advertising \in BOOLEAN /\ link_lost \in BOOLEAN /\ cached \in BOOLEAN
    /\ subscribed \in BOOLEAN /\ ccc_torn_down \in BOOLEAN /\ sec_failed \in BOOLEAN
    /\ filled \in BOOLEAN

SemTypes == sem \in [Sems -> 0..1]

Scanning ==
    {"scan_arm", "conn_arm", "scan_start", "scan_wait", "scan_stop", "scan_cancel", "scan_judge"}
Connecting ==
    Scanning \cup {"connect", "adv_arm", "adv_check", "adv_start", "adv_flag", "adv_wait",
                   "adv_judge", "drop_arm", "drop", "drop_wait"}
Securing == {"secure", "sec_arm", "sec_look", "sec_ask", "sec_wait", "sec_judge"}
Subscribing ==
    {"ccc_arm", "ccc_rearm", "ccc_call", "ccc_wait", "ccc_judge", "unsub_call", "unsub_wait",
     "subscribed"}
Exchanging ==
    Subscribing \cup {"exchange", "gatt_clear", "gatt_reset", "gatt_call", "gatt_wait",
                      "gatt_judge", "resolved", "await", "await_judge", "capture", "cap_wait"}
Stopping == {"reset_scan", "reset_adv", "reset_conn", "reset_drop", "reset_wait"}
Unbonding == {"unbond", "unpair", "unpair_wait", "unbond_wait", "unbonded"}

\* The step under way is where a step of its kind can be.
StepTypes ==
    /\ study \in Seq(Step) /\ step \in Step
    /\ at \in {"idle"} \cup Connecting \cup Securing \cup Exchanging \cup Stopping \cup Unbonding
    /\ phase \in {"discover", "operate"} /\ attempt \in 1..2 /\ others \in BOOLEAN
    /\ outcome \in {"none", "pass", "fail", "timed_out", "disconnected"}
    /\ at \in Exchanging => step.kind \in {"read", "await", "capture"}
    /\ at \in Subscribing => step.kind \in {"await", "capture"}
    /\ step.kind \in {"central", "peripheral"} => at \in {"idle"} \cup Connecting
    /\ at \in Scanning => step.kind = "central"

RxTypes == rx \in {"idle", "stopping", "creating"} /\ matched \in Peers

AirTypes ==
    /\ link \in [Conns -> {"free", "creating", "cancelling", "up", "closing"}]
    /\ peer \in [Conns -> Peers] /\ on_air \in BOOLEAN /\ scanning \in BOOLEAN
    /\ links \in 0..MaxLinks

HostTypes ==
    /\ level \in 1..2 /\ proc \in {"none", "own", "peer"} /\ req \in {"none", "gatt", "ccc"}
    /\ held \in BOOLEAN

HistoryTypes ==
    /\ lost \in BOOLEAN /\ cut \in BOOLEAN /\ late \in BOOLEAN /\ refused \in BOOLEAN
    /\ intruded \in BOOLEAN /\ fresh \in BOOLEAN

Types ==
    /\ ConnTypes /\ FlagTypes /\ SemTypes /\ StepTypes /\ RxTypes /\ AirTypes /\ HostTypes
    /\ HistoryTypes

----------------------------------------------------------------------------
(* What the helpers give.                                                  *)

\* A semaphore given or reset is a semaphore still, and the others keep their count.
LEMMA GiveFacts ==
  ASSUME SemTypes, NEW given \in SUBSET Sems, k_sem_give(given)
  PROVE  SemTypes' /\ \A s \in Sems : sem'[s] = IF s \in given THEN 1 ELSE sem[s]
BY DEF SemTypes, k_sem_give

LEMMA ResetFacts ==
  ASSUME SemTypes, NEW s \in Sems, k_sem_reset(s)
  PROVE  SemTypes' /\ sem'[s] = 0 /\ \A r \in Sems \ {s} : sem'[r] = sem[r]
BY DEF SemTypes, k_sem_reset

\* Only a connection made or up changes when it is disconnected, and the others never do.
LEMMA DisconnectedFacts ==
  ASSUME AirTypes, NEW c \in Conns
  PROVE  /\ Disconnected(c) \in [Conns -> {"free", "creating", "cancelling", "up", "closing"}]
         /\ \A d \in Conns \ {c} : Disconnected(c)[d] = link[d]
         /\ link[c] = "creating" => Disconnected(c)[c] = "cancelling"
         /\ link[c] = "up" => Disconnected(c)[c] = "closing"
         /\ link[c] \in {"free", "cancelling", "closing"} => Disconnected(c)[c] = link[c]
<1>1. link \in [Conns -> {"free", "creating", "cancelling", "up", "closing"}]
  BY DEF AirTypes
<1> DEFINE v == CASE link[c] = "creating" -> "cancelling" [] link[c] = "up" -> "closing"
                  [] OTHER -> link[c]
<1>2. Disconnected(c) = [link EXCEPT ![c] = v]
  BY DEF Disconnected
<1>3. /\ link[c] = "creating" => v = "cancelling"
      /\ link[c] = "up" => v = "closing"
      /\ link[c] \notin {"creating", "up"} => v = link[c]
  OBVIOUS
<1>4. v \in {"free", "creating", "cancelling", "up", "closing"}
  BY <1>1, <1>3
<1> HIDE DEF v
<1> QED
  BY <1>1, <1>2, <1>3, <1>4

\* Where a step of each kind begins.
LEMMA ExecuteFacts ==
  ASSUME StepTypes, ble_bridge_execute
  PROVE  /\ step' \in Step /\ study' \in Seq(Step)
         /\ at' \in {"adv_start", "connect", "exchange", "reset_scan", "secure", "unbond"}
         /\ at' = "exchange" => step'.kind \in {"read", "await", "capture"}
         /\ step'.kind \in {"central", "peripheral"} => at' = "connect"
         /\ step'.kind = "reset" <=> at' = "reset_scan"
         /\ phase' = "discover" /\ attempt' = 1 /\ others' = FALSE /\ outcome' = "none"
<1>1. study # <<>> /\ step' = Head(study) /\ study' = Tail(study) /\ at' = First(step'.kind)
  BY DEF ble_bridge_execute
<1>2. step' \in Step /\ study' \in Seq(Step)
  BY <1>1 DEF StepTypes
<1>3. step'.kind \in {"advertise", "central", "peripheral", "secure", "unbond", "read", "await",
                      "capture", "reset"}
  BY <1>2 DEF Step
<1>4. /\ step'.kind = "advertise" => at' = "adv_start"
      /\ step'.kind \in {"central", "peripheral"} => at' = "connect"
      /\ step'.kind \in {"read", "await", "capture"} => at' = "exchange"
      /\ step'.kind = "reset" => at' = "reset_scan"
      /\ step'.kind \in {"secure", "unbond"} => at' = step'.kind
  BY <1>1 DEF First
<1>5. phase' = "discover" /\ attempt' = 1 /\ others' = FALSE /\ outcome' = "none"
  BY DEF ble_bridge_execute
<1> QED
  BY <1>2, <1>3, <1>4, <1>5

\* A callback takes no semaphore, and moves no step.
LEMMA CallbackFacts ==
  ASSUME SemTypes, HostTypes, BtRx
  PROVE  UNCHANGED stepVars /\ \A s \in Sems : sem[s] = 1 => sem'[s] = 1
<1>1. ASSUME NEW c \in Conns, NEW err \in BOOLEAN, Created(c, err)
      PROVE  UNCHANGED stepVars /\ \A s \in Sems : sem[s] = 1 => sem'[s] = 1
  BY <1>1, GiveFacts DEF Created, connected_cb, Sems
<1>2. ASSUME NEW c \in Conns, NEW p \in Peers, Incoming(c, p)
      PROVE  UNCHANGED stepVars /\ \A s \in Sems : sem[s] = 1 => sem'[s] = 1
  BY <1>2, GiveFacts DEF Incoming, connected_cb, Sems
<1>3. ASSUME NEW c \in Conns, disconnected_cb(c)
      PROVE  UNCHANGED stepVars /\ \A s \in Sems : sem[s] = 1 => sem'[s] = 1
  <2>1. PICK given \in SUBSET Sems : k_sem_give(given)
    BY <1>3 DEF disconnected_cb, Sems
  <2> QED
    BY <1>3, <2>1, GiveFacts DEF disconnected_cb
<1>4. CASE security_changed_cb
  BY <1>4, GiveFacts DEF security_changed_cb, Sems
<1>5. CASE Answered
  BY <1>5, GiveFacts DEF Answered, Sems, HostTypes
<1>6. CASE notify_cb
  BY <1>6, GiveFacts DEF notify_cb, Sems
<1>7. CASE ScanStopped \/ ConnCreate
  BY <1>7, GiveFacts DEF ScanStopped, ConnCreate, Sems
<1>8. CASE PeerSecurity \/ \E p \in Peers : scan_cb(p)
  BY <1>8 DEF PeerSecurity, scan_cb
<1> QED
  BY <1>1, <1>2, <1>3, <1>4, <1>5, <1>6, <1>7, <1>8 DEF BtRx

----------------------------------------------------------------------------
(* Which steps change which part of the state; none of the others does.     *)

\* The steps that change the connections the bridge knows.
LEMMA ConnFrame ==
  ASSUME [Next]_vars
  PROVE  \/ UNCHANGED connVars
         \/ (\E c \in Conns, err \in BOOLEAN : Created(c, err))
         \/ (\E c \in Conns, p \in Peers : Incoming(c, p))
         \/ (\E c \in Conns : disconnected_cb(c)) \/ (\E p \in Peers : scan_cb(p)) \/ ScanStopped
         \/ ConnCreate \/ ScanTarget \/ ConnectArm \/ ScanCancel \/ ScanJudge \/ ResetConn
<1>1. CASE BtRx
  BY <1>1 DEF BtRx, PeerSecurity, connVars, security_changed_cb, k_sem_give, Answered, notify_cb
<1>2. CASE ble_bridge_execute
  BY <1>2 DEF ble_bridge_execute, connVars
<1>3. CASE Connect
  BY <1>3 DEF Connect, execute_connect, connVars, ScanStart, ConnectWait, ScanStop, AdvCheck,
     GoTo, start_advertising, AdvFlag, AdvJudge, DropArm, k_sem_reset, Drop, DropWait
<1>4. CASE Security
  BY <1>4 DEF Security, execute_set_security, connVars, SecArm, k_sem_reset, SecLook, SecAsk,
     SecWait, SecJudge
<1>5. CASE Exchange
  BY <1>5 DEF Exchange, execute_data_exchange, connVars, GattClear, SemReset, GattCall, GattWait,
     GattJudge, Resolved, CccJudge, Subscribed, await_notification, Capture, CaptureWait
<1>6. CASE Reset
  BY <1>6 DEF Reset, ResetScan, connVars, ResetAdv, ResetDrop, k_sem_reset, ResetWait, GoTo,
     Unbond, Unpair, UnbondWait, Unbonded, Finish
<1>7. CASE UNCHANGED vars
  BY <1>7 DEF vars, connVars
<1> QED
  BY <1>1, <1>2, <1>3, <1>4, <1>5, <1>6, <1>7 DEF Next

\* The steps that change the flags.
LEMMA FlagFrame ==
  ASSUME [Next]_vars
  PROVE  \/ UNCHANGED flagVars
         \/ (\E c \in Conns, err \in BOOLEAN : Created(c, err))
         \/ (\E c \in Conns, p \in Peers : Incoming(c, p))
         \/ (\E c \in Conns : disconnected_cb(c)) \/ security_changed_cb \/ Answered
         \/ ble_bridge_execute \/ AdvFlag \/ execute_set_security \/ GattClear \/ SemReset
         \/ GattCall \/ Resolved \/ Subscribed \/ Capture \/ ResetConn \/ Unbonded
<1>1. CASE BtRx
  BY <1>1 DEF BtRx, PeerSecurity, flagVars, notify_cb, k_sem_give, scan_cb, ScanStopped,
     ConnCreate
<1>2. CASE ble_bridge_execute
  BY <1>2 DEF flagVars
<1>3. CASE Connect
  BY <1>3 DEF Connect, execute_connect, flagVars, ScanTarget, ConnectArm, ScanStart, ConnectWait,
     ScanStop, ScanCancel, ScanJudge, Finish, AdvCheck, GoTo, start_advertising, AdvJudge,
     DropArm, k_sem_reset, Drop, DropWait
<1>4. CASE Security
  BY <1>4 DEF Security, SecArm, k_sem_reset, flagVars, SecLook, SecAsk, SecWait, SecJudge
<1>5. CASE Exchange
  BY <1>5 DEF Exchange, execute_data_exchange, flagVars, GattWait, GattJudge, CccJudge,
     await_notification, CaptureWait
<1>6. CASE Reset
  BY <1>6 DEF Reset, ResetScan, flagVars, ResetAdv, ResetDrop, k_sem_reset, ResetWait, GoTo,
     Unbond, Unpair, UnbondWait
<1>7. CASE UNCHANGED vars
  BY <1>7 DEF vars, flagVars
<1> QED
  BY <1>1, <1>2, <1>3, <1>4, <1>5, <1>6, <1>7 DEF Next

\* The steps that change scan_cb.
LEMMA RxFrame ==
  ASSUME [Next]_vars
  PROVE  \/ UNCHANGED rxVars
         \/ (\E p \in Peers : scan_cb(p)) \/ ScanStopped \/ ConnCreate
<1>1. CASE BtRx
  BY <1>1 DEF BtRx, Created, connected_cb, rxVars, Incoming, disconnected_cb, PeerSecurity,
     security_changed_cb, k_sem_give, Answered, notify_cb
<1>2. CASE ble_bridge_execute
  BY <1>2 DEF ble_bridge_execute, rxVars
<1>3. CASE Connect
  BY <1>3 DEF Connect, execute_connect, rxVars, ScanTarget, ConnectArm, ScanStart, ConnectWait,
     ScanStop, ScanCancel, ScanJudge, Finish, AdvCheck, GoTo, start_advertising, AdvFlag,
     AdvJudge, DropArm, k_sem_reset, Drop, DropWait
<1>4. CASE Security
  BY <1>4 DEF Security, execute_set_security, rxVars, SecArm, k_sem_reset, SecLook, SecAsk,
     SecWait, SecJudge
<1>5. CASE Exchange
  BY <1>5 DEF Exchange, execute_data_exchange, rxVars, GattClear, SemReset, GattCall, GattWait,
     GattJudge, Resolved, CccJudge, Subscribed, await_notification, Capture, CaptureWait
<1>6. CASE Reset
  BY <1>6 DEF Reset, ResetScan, rxVars, ResetAdv, ResetConn, GoTo, ResetDrop, k_sem_reset,
     ResetWait, Unbond, Unpair, UnbondWait, Unbonded, Finish
<1>7. CASE UNCHANGED vars
  BY <1>7 DEF vars, rxVars
<1> QED
  BY <1>1, <1>2, <1>3, <1>4, <1>5, <1>6, <1>7 DEF Next

\* The steps that change the connections and the air.
LEMMA AirFrame ==
  ASSUME [Next]_vars
  PROVE  \/ UNCHANGED airVars
         \/ (\E c \in Conns, err \in BOOLEAN : Created(c, err))
         \/ (\E c \in Conns, p \in Peers : Incoming(c, p))
         \/ (\E c \in Conns : disconnected_cb(c)) \/ ScanStopped \/ ConnCreate \/ ScanStart
         \/ ScanStop \/ ScanCancel \/ ScanJudge \/ start_advertising \/ Drop \/ ResetScan
         \/ ResetAdv \/ ResetConn \/ ResetDrop \/ Unpair
<1>1. CASE BtRx
  BY <1>1 DEF BtRx, PeerSecurity, airVars, security_changed_cb, k_sem_give, Answered, notify_cb,
     scan_cb
<1>2. CASE ble_bridge_execute
  BY <1>2 DEF ble_bridge_execute, airVars
<1>3. CASE Connect
  BY <1>3 DEF Connect, execute_connect, airVars, ScanTarget, ConnectArm, ConnectWait, AdvCheck,
     GoTo, AdvFlag, AdvJudge, DropArm, k_sem_reset, DropWait
<1>4. CASE Security
  BY <1>4 DEF Security, execute_set_security, airVars, SecArm, k_sem_reset, SecLook, SecAsk,
     SecWait, SecJudge
<1>5. CASE Exchange
  BY <1>5 DEF Exchange, execute_data_exchange, airVars, GattClear, SemReset, GattCall, GattWait,
     GattJudge, Resolved, CccJudge, Subscribed, await_notification, Capture, CaptureWait
<1>6. CASE Reset
  BY <1>6 DEF Reset, ResetWait, GoTo, airVars, Unbond, UnbondWait, Unbonded, Finish
<1>7. CASE UNCHANGED vars
  BY <1>7 DEF vars, airVars
<1> QED
  BY <1>1, <1>2, <1>3, <1>4, <1>5, <1>6, <1>7 DEF Next

\* The steps that change what the stack does for the active link.
LEMMA HostFrame ==
  ASSUME [Next]_vars
  PROVE  \/ UNCHANGED hostVars
         \/ (\E c \in Conns, err \in BOOLEAN : Created(c, err))
         \/ (\E c \in Conns, p \in Peers : Incoming(c, p))
         \/ (\E c \in Conns : disconnected_cb(c)) \/ PeerSecurity \/ security_changed_cb
         \/ Answered \/ SecAsk \/ GattCall \/ GattWait \/ ResetConn \/ Unpair
<1>1. CASE BtRx
  BY <1>1 DEF BtRx, notify_cb, k_sem_give, hostVars, scan_cb, ScanStopped, ConnCreate
<1>2. CASE ble_bridge_execute
  BY <1>2 DEF ble_bridge_execute, hostVars
<1>3. CASE Connect
  BY <1>3 DEF Connect, execute_connect, hostVars, ScanTarget, ConnectArm, ScanStart, ConnectWait,
     ScanStop, ScanCancel, ScanJudge, Finish, AdvCheck, GoTo, start_advertising, AdvFlag,
     AdvJudge, DropArm, k_sem_reset, Drop, DropWait
<1>4. CASE Security
  BY <1>4 DEF Security, execute_set_security, hostVars, SecArm, k_sem_reset, SecLook, SecWait,
     SecJudge
<1>5. CASE Exchange
  BY <1>5 DEF Exchange, execute_data_exchange, hostVars, GattClear, SemReset, GattJudge,
     Resolved, CccJudge, Subscribed, await_notification, Capture, CaptureWait
<1>6. CASE Reset
  BY <1>6 DEF Reset, ResetScan, hostVars, ResetAdv, ResetDrop, k_sem_reset, ResetWait, GoTo,
     Unbond, UnbondWait, Unbonded, Finish
<1>7. CASE UNCHANGED vars
  BY <1>7 DEF vars, hostVars
<1> QED
  BY <1>1, <1>2, <1>3, <1>4, <1>5, <1>6, <1>7 DEF Next

\* The steps that change the history.
LEMMA HistoryFrame ==
  ASSUME [Next]_vars
  PROVE  \/ UNCHANGED history
         \/ (\E c \in Conns, err \in BOOLEAN : Created(c, err))
         \/ (\E c \in Conns, p \in Peers : Incoming(c, p))
         \/ (\E c \in Conns : disconnected_cb(c)) \/ (\E p \in Peers : scan_cb(p))
         \/ ble_bridge_execute \/ ResetConn \/ ResetDrop \/ ResetWait \/ Unbonded
<1>1. CASE BtRx
  BY <1>1 DEF BtRx, history, PeerSecurity, security_changed_cb, k_sem_give, Answered, notify_cb,
     ScanStopped, ConnCreate
<1>2. CASE ble_bridge_execute
  BY <1>2 DEF history
<1>3. CASE Connect
  BY <1>3 DEF Connect, execute_connect, history, ScanTarget, ConnectArm, ScanStart, ConnectWait,
     ScanStop, ScanCancel, ScanJudge, Finish, AdvCheck, GoTo, start_advertising, AdvFlag,
     AdvJudge, DropArm, k_sem_reset, Drop, DropWait
<1>4. CASE Security
  BY <1>4 DEF Security, execute_set_security, history, SecArm, k_sem_reset, SecLook, SecAsk,
     SecWait, SecJudge
<1>5. CASE Exchange
  BY <1>5 DEF Exchange, execute_data_exchange, history, GattClear, SemReset, GattCall, GattWait,
     GattJudge, Resolved, CccJudge, Subscribed, await_notification, Capture, CaptureWait
<1>6. CASE Reset
  BY <1>6 DEF Reset, ResetScan, history, ResetAdv, k_sem_reset, Unbond, Unpair, UnbondWait, GoTo
<1>7. CASE UNCHANGED vars
  BY <1>7 DEF vars, history
<1> QED
  BY <1>1, <1>2, <1>3, <1>4, <1>5, <1>6, <1>7 DEF Next

\* The steps that change a semaphore.
LEMMA SemFrame ==
  ASSUME [Next]_vars
  PROVE  \/ UNCHANGED sem
         \/ (\E c \in Conns, err \in BOOLEAN : Created(c, err))
         \/ (\E c \in Conns, p \in Peers : Incoming(c, p))
         \/ (\E c \in Conns : disconnected_cb(c)) \/ security_changed_cb \/ Answered \/ notify_cb
         \/ ScanStopped \/ ConnCreate \/ ble_bridge_execute \/ ConnectArm \/ ConnectWait \/ DropArm
         \/ DropWait \/ SecArm \/ SecWait \/ SemReset \/ GattWait \/ await_notification \/ Capture
         \/ CaptureWait \/ ResetDrop \/ ResetWait \/ Unbond \/ UnbondWait
<1>1. CASE BtRx
  BY <1>1 DEF BtRx, PeerSecurity, scan_cb
<1>2. CASE ble_bridge_execute
  BY <1>2
<1>3. CASE Connect
  BY <1>3 DEF Connect, execute_connect, ScanTarget, ScanStart, ScanStop, ScanCancel, ScanJudge,
     Finish, AdvCheck, GoTo, start_advertising, AdvFlag, AdvJudge, Drop
<1>4. CASE Security
  BY <1>4 DEF Security, execute_set_security, SecLook, SecAsk, SecJudge
<1>5. CASE Exchange
  BY <1>5 DEF Exchange, execute_data_exchange, GattClear, GattCall, GattJudge, Resolved,
     CccJudge, Subscribed
<1>6. CASE Reset
  BY <1>6 DEF Reset, ResetScan, ResetAdv, ResetConn, GoTo, Unpair, Unbonded, Finish
<1>7. CASE UNCHANGED vars
  BY <1>7 DEF vars
<1> QED
  BY <1>1, <1>2, <1>3, <1>4, <1>5, <1>6, <1>7 DEF Next

----------------------------------------------------------------------------
(* Types.                                                                  *)

\* ConnTypes is kept.
LEMMA ConnStep ==
  ASSUME ConnTypes, RxTypes, AirTypes, StepTypes, [Next]_vars
  PROVE  ConnTypes'
<1> USE LinkAssumption
<1>1. ASSUME NEW c \in Conns, NEW err \in BOOLEAN, Created(c, err) PROVE ConnTypes'
  BY <1>1 DEF Created, connected_cb, k_sem_give, ConnTypes
<1>2. ASSUME NEW c \in Conns, NEW p \in Peers, Incoming(c, p) PROVE ConnTypes'
  BY <1>2 DEF Incoming, connected_cb, Unused, k_sem_give, ConnTypes
<1>3. ASSUME NEW c \in Conns, disconnected_cb(c) PROVE ConnTypes'
  BY <1>3 DEF disconnected_cb, k_sem_give, k_sem_reset, ConnTypes
<1>4. ASSUME NEW p \in Peers, scan_cb(p) PROVE ConnTypes'
  BY <1>4 DEF scan_cb, ConnTypes
<1>5. ASSUME ConnCreate PROVE ConnTypes'
  BY <1>5 DEF ConnCreate, k_sem_give, Unused, k_sem_reset, ConnTypes
<1>6. ASSUME ConnectArm PROVE ConnTypes'
  BY <1>6 DEF ConnectArm, k_sem_reset, GoTo, Finish, ConnTypes
<1>7. ASSUME ScanCancel PROVE ConnTypes'
  BY <1>7 DEF ScanCancel, Finish, release_pending_conn, Disconnected, ConnTypes
<1>8. ASSUME ScanJudge PROVE ConnTypes'
  BY <1>8 DEF ScanJudge, Finish, release_pending_conn, Disconnected, ConnTypes
<1>9. ASSUME ResetConn PROVE ConnTypes'
  BY <1>9 DEF ResetConn, GoTo, release_pending_conn, Unfinished, Finish, Disconnected, ConnTypes
<1>10. ASSUME UNCHANGED connVars PROVE ConnTypes'
  BY <1>10 DEF connVars, ConnTypes
<1>11. ASSUME ScanStopped PROVE ConnTypes'
  BY <1>11 DEF ScanStopped, k_sem_give, ConnTypes
<1>12. ASSUME ScanTarget PROVE ConnTypes'
  BY <1>12 DEF ScanTarget, ConnTypes, StepTypes, Step
<1> QED
  BY <1>1, <1>2, <1>3, <1>4, <1>5, <1>6, <1>7, <1>8, <1>9, <1>10, <1>11, <1>12, ConnFrame

\* FlagTypes is kept.
LEMMA FlagStep ==
  ASSUME FlagTypes, [Next]_vars
  PROVE  FlagTypes'
<1> USE LinkAssumption
<1>1. ASSUME NEW c \in Conns, NEW err \in BOOLEAN, Created(c, err) PROVE FlagTypes'
  BY <1>1 DEF Created, connected_cb, k_sem_give, FlagTypes
<1>2. ASSUME NEW c \in Conns, NEW p \in Peers, Incoming(c, p) PROVE FlagTypes'
  BY <1>2 DEF Incoming, connected_cb, Unused, k_sem_give, FlagTypes
<1>3. ASSUME NEW c \in Conns, disconnected_cb(c) PROVE FlagTypes'
  BY <1>3 DEF disconnected_cb, k_sem_give, k_sem_reset, FlagTypes
<1>4. ASSUME security_changed_cb PROVE FlagTypes'
  BY <1>4 DEF security_changed_cb, k_sem_give, Linked, k_sem_reset, FlagTypes
<1>5. ASSUME Answered PROVE FlagTypes'
  BY <1>5 DEF Answered, k_sem_give, Linked, k_sem_reset, FlagTypes
<1>6. ASSUME ble_bridge_execute PROVE FlagTypes'
  BY <1>6 DEF ble_bridge_execute, k_sem_reset, First, Unfinished, FlagTypes
<1>7. ASSUME AdvFlag PROVE FlagTypes'
  BY <1>7 DEF AdvFlag, GoTo, Finish, FlagTypes
<1>8. ASSUME execute_set_security PROVE FlagTypes'
  BY <1>8 DEF execute_set_security, GoTo, Finish, FlagTypes
<1>9. ASSUME GattClear PROVE FlagTypes'
  BY <1>9 DEF GattClear, GoTo, Finish, FlagTypes
<1>10. ASSUME SemReset PROVE FlagTypes'
  BY <1>10 DEF SemReset, k_sem_reset, GoTo, Finish, FlagTypes
<1>11. ASSUME GattCall PROVE FlagTypes'
  BY <1>11 DEF GattCall, GoTo, Finish, FlagTypes
<1>12. ASSUME Resolved PROVE FlagTypes'
  BY <1>12 DEF Resolved, Operation, FlagTypes
<1>13. ASSUME Subscribed PROVE FlagTypes'
  BY <1>13 DEF Subscribed, GoTo, Finish, FlagTypes
<1>14. ASSUME Capture PROVE FlagTypes'
  BY <1>14 DEF Capture, k_sem_reset, GoTo, Finish, FlagTypes
<1>15. ASSUME ResetConn PROVE FlagTypes'
  BY <1>15 DEF ResetConn, GoTo, release_pending_conn, Unfinished, Finish, Disconnected, FlagTypes
<1>16. ASSUME Unbonded PROVE FlagTypes'
  BY <1>16 DEF Unbonded, Finish, FlagTypes
<1>17. ASSUME UNCHANGED flagVars PROVE FlagTypes'
  BY <1>17 DEF flagVars, FlagTypes
<1> QED
  BY <1>1, <1>2, <1>3, <1>4, <1>5, <1>6, <1>7, <1>8, <1>9, <1>10, <1>11, <1>12, <1>13, <1>14,
     <1>15, <1>16, <1>17, FlagFrame

\* RxTypes is kept.
LEMMA RxStep ==
  ASSUME RxTypes, [Next]_vars
  PROVE  RxTypes'
<1> USE LinkAssumption
<1>1. ASSUME NEW p \in Peers, scan_cb(p) PROVE RxTypes'
  BY <1>1 DEF scan_cb, RxTypes
<1>2. ASSUME ScanStopped PROVE RxTypes'
  BY <1>2 DEF ScanStopped, RxTypes
<1>3. ASSUME ConnCreate PROVE RxTypes'
  BY <1>3 DEF ConnCreate, k_sem_give, Unused, k_sem_reset, RxTypes
<1>4. ASSUME UNCHANGED rxVars PROVE RxTypes'
  BY <1>4 DEF rxVars, RxTypes
<1> QED
  BY <1>1, <1>2, <1>3, <1>4, RxFrame

\* AirTypes is kept.
LEMMA AirStep ==
  ASSUME AirTypes, ConnTypes, RxTypes, [Next]_vars
  PROVE  AirTypes'
<1> USE LinkAssumption
<1>1. ASSUME NEW c \in Conns, NEW err \in BOOLEAN, Created(c, err) PROVE AirTypes'
  BY <1>1 DEF Created, connected_cb, k_sem_give, AirTypes
<1>2. ASSUME NEW c \in Conns, NEW p \in Peers, Incoming(c, p) PROVE AirTypes'
  <2>1. link' \in [Conns -> {"free", "creating", "cancelling", "up", "closing"}]
    BY <1>2 DEF Incoming, AirTypes
  <2>2. peer' \in [Conns -> Peers]
    BY <1>2 DEF Incoming, AirTypes
  <2>3. on_air' = FALSE /\ UNCHANGED scanning /\ links < MaxLinks /\ links' = links + 1
    BY <1>2 DEF Incoming
  <2>4. on_air' \in BOOLEAN
    BY <2>3
  <2>5. links \in 0..MaxLinks
    BY DEF AirTypes
  <2>6. links' \in 0..MaxLinks
    BY <2>3, <2>5, LinkAssumption
  <2> QED
    BY <2>1, <2>2, <2>3, <2>4, <2>6 DEF AirTypes
<1>3. ASSUME NEW c \in Conns, disconnected_cb(c) PROVE AirTypes'
  BY <1>3 DEF disconnected_cb, k_sem_give, k_sem_reset, AirTypes
<1>4. ASSUME ScanStopped PROVE AirTypes'
  BY <1>4 DEF ScanStopped, AirTypes
<1>5. ASSUME ConnCreate PROVE AirTypes'
  <2>1. link' \in [Conns -> {"free", "creating", "cancelling", "up", "closing"}]
    BY <1>5 DEF ConnCreate, Unused, AirTypes
  <2>2. peer' \in [Conns -> Peers]
    BY <1>5 DEF ConnCreate, Unused, AirTypes, RxTypes
  <2>3. UNCHANGED <<on_air, scanning, links>>
    BY <1>5 DEF ConnCreate
  <2> QED
    BY <2>1, <2>2, <2>3 DEF AirTypes
<1>6. ASSUME ScanStart PROVE AirTypes'
  BY <1>6 DEF ScanStart, GoTo, Finish, AirTypes
<1>7. ASSUME ScanStop PROVE AirTypes'
  BY <1>7 DEF ScanStop, GoTo, Finish, AirTypes
<1>8. ASSUME ScanCancel PROVE AirTypes'
  BY <1>8 DEF ScanCancel, Finish, release_pending_conn, Disconnected, AirTypes
<1>9. ASSUME ScanJudge PROVE AirTypes'
  BY <1>9 DEF ScanJudge, Finish, release_pending_conn, Disconnected, AirTypes
<1>10. ASSUME start_advertising PROVE AirTypes'
  BY <1>10 DEF start_advertising, GoTo, Finish, AirTypes
<1>11. ASSUME Drop PROVE AirTypes'
  BY <1>11 DEF Drop, Disconnected, GoTo, Finish, AirTypes
<1>12. ASSUME ResetScan PROVE AirTypes'
  BY <1>12 DEF ResetScan, GoTo, Finish, AirTypes
<1>13. ASSUME ResetAdv PROVE AirTypes'
  BY <1>13 DEF ResetAdv, GoTo, Finish, AirTypes
<1>14. ASSUME ResetConn PROVE AirTypes'
  BY <1>14 DEF ResetConn, GoTo, release_pending_conn, Unfinished, Finish, Disconnected, AirTypes
<1>15. ASSUME ResetDrop PROVE AirTypes'
  BY <1>15 DEF ResetDrop, k_sem_reset, Disconnected, GoTo, Finish, AirTypes
<1>16. ASSUME Unpair PROVE AirTypes'
  BY <1>16 DEF Unpair, GoTo, Finish, Unpaired, Disconnected, AirTypes
<1>17. ASSUME UNCHANGED airVars PROVE AirTypes'
  BY <1>17 DEF airVars, AirTypes
<1> QED
  BY <1>1, <1>2, <1>3, <1>4, <1>5, <1>6, <1>7, <1>8, <1>9, <1>10, <1>11, <1>12, <1>13, <1>14,
     <1>15, <1>16, <1>17, AirFrame

\* HostTypes is kept.
LEMMA HostStep ==
  ASSUME HostTypes, [Next]_vars
  PROVE  HostTypes'
<1> USE LinkAssumption
<1>1. ASSUME NEW c \in Conns, NEW err \in BOOLEAN, Created(c, err) PROVE HostTypes'
  BY <1>1 DEF Created, connected_cb, k_sem_give, HostTypes
<1>2. ASSUME NEW c \in Conns, NEW p \in Peers, Incoming(c, p) PROVE HostTypes'
  BY <1>2 DEF Incoming, connected_cb, Unused, k_sem_give, HostTypes
<1>3. ASSUME NEW c \in Conns, disconnected_cb(c) PROVE HostTypes'
  BY <1>3 DEF disconnected_cb, k_sem_give, k_sem_reset, HostTypes
<1>4. ASSUME PeerSecurity PROVE HostTypes'
  BY <1>4 DEF PeerSecurity, Linked, HostTypes
<1>5. ASSUME security_changed_cb PROVE HostTypes'
  <2>1. level' \in {level, 2} /\ proc' = "none" /\ UNCHANGED <<req, held>>
    BY <1>5 DEF security_changed_cb
  <2> QED
    BY <2>1 DEF HostTypes
<1>6. ASSUME Answered PROVE HostTypes'
  BY <1>6 DEF Answered, k_sem_give, Linked, k_sem_reset, HostTypes
<1>7. ASSUME SecAsk PROVE HostTypes'
  BY <1>7 DEF SecAsk, Finish, HostTypes
<1>8. ASSUME GattCall PROVE HostTypes'
  <2>1. req' \in {"none", "gatt", "ccc"}
    BY <1>8 DEF GattCall, HostTypes
  <2>2. held' \in BOOLEAN
    <3>1. held' = held \/ held' = (at = "ccc_call" \/ (at = "gatt_call" /\ held))
      BY <1>8 DEF GattCall
    <3> QED
      BY <3>1 DEF HostTypes
  <2>3. UNCHANGED <<level, proc>>
    BY <1>8 DEF GattCall
  <2> QED
    BY <2>1, <2>2, <2>3 DEF HostTypes
<1>9. ASSUME GattWait PROVE HostTypes'
  BY <1>9 DEF GattWait, k_sem_reset, GoTo, Finish, HostTypes
<1>10. ASSUME ResetConn PROVE HostTypes'
  BY <1>10 DEF ResetConn, GoTo, release_pending_conn, Unfinished, Finish, Disconnected, HostTypes
<1>11. ASSUME Unpair PROVE HostTypes'
  BY <1>11 DEF Unpair, GoTo, Finish, Unpaired, Disconnected, HostTypes
<1>12. ASSUME UNCHANGED hostVars PROVE HostTypes'
  BY <1>12 DEF hostVars, HostTypes
<1> QED
  BY <1>1, <1>2, <1>3, <1>4, <1>5, <1>6, <1>7, <1>8, <1>9, <1>10, <1>11, <1>12, HostFrame

\* HistoryTypes is kept.
LEMMA HistoryStep ==
  ASSUME HistoryTypes, [Next]_vars
  PROVE  HistoryTypes'
<1> USE LinkAssumption
<1>1. ASSUME NEW c \in Conns, NEW p \in Peers, Incoming(c, p) PROVE HistoryTypes'
  BY <1>1 DEF Incoming, connected_cb, Unused, k_sem_give, HistoryTypes
<1>2. ASSUME NEW c \in Conns, disconnected_cb(c) PROVE HistoryTypes'
  BY <1>2 DEF disconnected_cb, k_sem_give, k_sem_reset, HistoryTypes
<1>3. ASSUME ble_bridge_execute PROVE HistoryTypes'
  BY <1>3 DEF ble_bridge_execute, k_sem_reset, First, Unfinished, HistoryTypes
<1>4. ASSUME ResetConn PROVE HistoryTypes'
  BY <1>4 DEF ResetConn, GoTo, release_pending_conn, Unfinished, Finish, Disconnected,
     HistoryTypes
<1>5. ASSUME ResetWait PROVE HistoryTypes'
  BY <1>5 DEF ResetWait, k_sem_reset, GoTo, Finish, HistoryTypes
<1>6. ASSUME Unbonded PROVE HistoryTypes'
  BY <1>6 DEF Unbonded, Finish, HistoryTypes
<1>7. ASSUME UNCHANGED history PROVE HistoryTypes'
  BY <1>7 DEF history, HistoryTypes
<1>8. ASSUME NEW c \in Conns, NEW err \in BOOLEAN, Created(c, err) PROVE HistoryTypes'
  BY <1>8 DEF Created, connected_cb, HistoryTypes
<1>9. ASSUME NEW p \in Peers, scan_cb(p) PROVE HistoryTypes'
  BY <1>9 DEF scan_cb, HistoryTypes
<1>10. ASSUME ResetDrop PROVE HistoryTypes'
  BY <1>10 DEF ResetDrop, HistoryTypes
<1> QED
  BY <1>1, <1>2, <1>3, <1>4, <1>5, <1>6, <1>7, <1>8, <1>9, <1>10, HistoryFrame

\* SemTypes is kept.
LEMMA SemStep ==
  ASSUME SemTypes, HostTypes, [Next]_vars
  PROVE  SemTypes'
<1> USE LinkAssumption
<1>1. ASSUME NEW c \in Conns, NEW err \in BOOLEAN, Created(c, err) PROVE SemTypes'
  BY <1>1 DEF Created, connected_cb, k_sem_give, SemTypes
<1>2. ASSUME NEW c \in Conns, NEW p \in Peers, Incoming(c, p) PROVE SemTypes'
  BY <1>2 DEF Incoming, connected_cb, Unused, k_sem_give, SemTypes
<1>3. ASSUME NEW c \in Conns, disconnected_cb(c) PROVE SemTypes'
  BY <1>3 DEF disconnected_cb, k_sem_give, k_sem_reset, SemTypes
<1>4. ASSUME security_changed_cb PROVE SemTypes'
  BY <1>4 DEF security_changed_cb, k_sem_give, Linked, k_sem_reset, SemTypes
<1>5. ASSUME Answered PROVE SemTypes'
  BY <1>5 DEF Answered, k_sem_give, Linked, k_sem_reset, SemTypes
<1>6. ASSUME notify_cb PROVE SemTypes'
  BY <1>6 DEF notify_cb, k_sem_give, Linked, k_sem_reset, SemTypes
<1>7. ASSUME ConnCreate PROVE SemTypes'
  BY <1>7 DEF ConnCreate, k_sem_give, Unused, k_sem_reset, SemTypes
<1>8. ASSUME ble_bridge_execute PROVE SemTypes'
  BY <1>8 DEF ble_bridge_execute, k_sem_reset, First, Unfinished, SemTypes
<1>9. ASSUME ConnectArm PROVE SemTypes'
  <2>1. k_sem_reset("conn")
    BY <1>9 DEF ConnectArm
  <2> QED
    BY <2>1, ResetFacts DEF Sems
<1>10. ASSUME ConnectWait PROVE SemTypes'
  BY <1>10 DEF ConnectWait, k_sem_reset, GoTo, Finish, SemTypes
<1>11. ASSUME DropArm PROVE SemTypes'
  <2>1. k_sem_reset("disconn")
    BY <1>11 DEF DropArm
  <2> QED
    BY <2>1, ResetFacts DEF Sems
<1>12. ASSUME DropWait PROVE SemTypes'
  BY <1>12 DEF DropWait, k_sem_reset, GoTo, Finish, SemTypes
<1>13. ASSUME SecArm PROVE SemTypes'
  <2>1. k_sem_reset("sec")
    BY <1>13 DEF SecArm
  <2> QED
    BY <2>1, ResetFacts DEF Sems
<1>14. ASSUME SecWait PROVE SemTypes'
  BY <1>14 DEF SecWait, k_sem_reset, GoTo, Finish, SemTypes
<1>15. ASSUME SemReset PROVE SemTypes'
  BY <1>15 DEF SemReset, k_sem_reset, GoTo, Finish, SemTypes
<1>16. ASSUME GattWait PROVE SemTypes'
  BY <1>16 DEF GattWait, k_sem_reset, GoTo, Finish, SemTypes
<1>17. ASSUME await_notification PROVE SemTypes'
  BY <1>17 DEF await_notification, k_sem_reset, GoTo, Finish, SemTypes
<1>18. ASSUME Capture PROVE SemTypes'
  <2>1. k_sem_reset("disconn")
    BY <1>18 DEF Capture
  <2> QED
    BY <2>1, ResetFacts DEF Sems
<1>19. ASSUME CaptureWait PROVE SemTypes'
  BY <1>19 DEF CaptureWait, k_sem_reset, Finish, SemTypes
<1>20. ASSUME ResetDrop PROVE SemTypes'
  <2>1. k_sem_reset("disconn")
    BY <1>20 DEF ResetDrop
  <2> QED
    BY <2>1, ResetFacts DEF Sems
<1>21. ASSUME ResetWait PROVE SemTypes'
  BY <1>21 DEF ResetWait, k_sem_reset, GoTo, Finish, SemTypes
<1>22. ASSUME Unbond PROVE SemTypes'
  BY <1>22 DEF Unbond, k_sem_reset, GoTo, Finish, SemTypes
<1>23. ASSUME UnbondWait PROVE SemTypes'
  BY <1>23 DEF UnbondWait, k_sem_reset, GoTo, Finish, SemTypes
<1>24. ASSUME UNCHANGED sem PROVE SemTypes'
  BY <1>24 DEF SemTypes
<1>25. ASSUME ScanStopped PROVE SemTypes'
  BY <1>25 DEF ScanStopped, k_sem_give, SemTypes
<1> QED
  BY <1>1, <1>2, <1>3, <1>4, <1>5, <1>6, <1>7, <1>8, <1>9, <1>10, <1>11, <1>12, <1>13, <1>14,
     <1>15, <1>16, <1>17, <1>18, <1>19, <1>20, <1>21, <1>22, <1>23, <1>24, <1>25, SemFrame

\* No callback moves the dispatch thread.
LEMMA CallbackFrame ==
  ASSUME BtRx
  PROVE  UNCHANGED stepVars
<1>1. ASSUME NEW c \in Conns, NEW err \in BOOLEAN, Created(c, err) PROVE UNCHANGED stepVars
  BY <1>1 DEF Created, stepVars
<1>2. ASSUME NEW c \in Conns, NEW p \in Peers, Incoming(c, p) PROVE UNCHANGED stepVars
  BY <1>2 DEF Incoming, stepVars
<1>3. ASSUME NEW c \in Conns, disconnected_cb(c) PROVE UNCHANGED stepVars
  BY <1>3 DEF disconnected_cb, stepVars
<1>4. CASE PeerSecurity \/ security_changed_cb \/ notify_cb
  BY <1>4 DEF PeerSecurity, security_changed_cb, notify_cb, stepVars
<1>5. CASE Answered
  BY <1>5 DEF Answered, stepVars
<1>6. ASSUME NEW p \in Peers, scan_cb(p) PROVE UNCHANGED stepVars
  BY <1>6 DEF scan_cb, stepVars
<1>7. CASE ScanStopped \/ ConnCreate
  BY <1>7 DEF ScanStopped, ConnCreate, stepVars
<1> QED
  BY <1>1, <1>2, <1>3, <1>4, <1>5, <1>6, <1>7 DEF BtRx

\* The steps that change where the dispatch thread is.
LEMMA StepFrame ==
  ASSUME [Next]_vars
  PROVE  \/ UNCHANGED stepVars
         \/ ble_bridge_execute \/ execute_connect \/ ScanTarget \/ ConnectArm \/ ScanStart
         \/ ConnectWait \/ ScanStop \/ ScanCancel \/ ScanJudge \/ AdvCheck \/ start_advertising
         \/ AdvFlag \/ AdvJudge \/ DropArm \/ Drop \/ DropWait \/ execute_set_security
         \/ SecArm \/ SecLook \/ SecAsk \/ SecWait \/ SecJudge \/ execute_data_exchange \/ GattClear \/ SemReset
         \/ GattCall \/ GattWait \/ GattJudge \/ Resolved \/ CccJudge \/ Subscribed
         \/ await_notification \/ Capture \/ CaptureWait \/ ResetScan \/ ResetAdv \/ ResetConn
         \/ ResetDrop \/ ResetWait \/ Unbond \/ Unpair \/ UnbondWait \/ Unbonded
<1>1. CASE BtRx
  BY <1>1, CallbackFrame
<1>2. CASE ble_bridge_execute
  BY <1>2 DEF stepVars
<1>3. CASE Connect
  BY <1>3 DEF Connect, stepVars
<1>4. CASE Security
  BY <1>4 DEF Security, stepVars
<1>5. CASE Exchange
  BY <1>5 DEF Exchange, stepVars
<1>6. CASE Reset
  BY <1>6 DEF Reset, stepVars
<1>7. CASE UNCHANGED vars
  BY <1>7 DEF vars, stepVars
<1> QED
  BY <1>1, <1>2, <1>3, <1>4, <1>5, <1>6, <1>7 DEF Next

\* StepTypes is kept: a step stays where its kind can be.
LEMMA StepStep ==
  ASSUME StepTypes, [Next]_vars
  PROVE  StepTypes'
<1> USE LinkAssumption
<1>1. ASSUME ble_bridge_execute PROVE StepTypes'
  <2>1. /\ step' \in Step /\ study' \in Seq(Step)
        /\ at' \in {"adv_start", "connect", "exchange", "reset_scan", "secure", "unbond"}
        /\ at' = "exchange" => step'.kind \in {"read", "await", "capture"}
        /\ step'.kind \in {"central", "peripheral"} => at' = "connect"
        /\ phase' = "discover" /\ attempt' = 1 /\ others' = FALSE /\ outcome' = "none"
    BY <1>1, ExecuteFacts
  <2>2. others' \in BOOLEAN
    BY <2>1
  <2> QED
    BY <2>1, <2>2 DEF StepTypes, Connecting, Scanning, Securing, Subscribing, Exchanging,
       Stopping, Unbonding
<1>2. ASSUME execute_connect PROVE StepTypes'
  BY <1>2 DEF execute_connect, GoTo, Finish, StepTypes, Connecting, Scanning, Securing, Subscribing,
     Exchanging, Stopping, Unbonding
<1>3. ASSUME ConnectArm PROVE StepTypes'
  BY <1>3 DEF ConnectArm, GoTo, Finish, StepTypes, Connecting, Scanning, Securing, Subscribing,
     Exchanging, Stopping, Unbonding
<1>4. ASSUME ScanStart PROVE StepTypes'
  BY <1>4 DEF ScanStart, GoTo, Finish, StepTypes, Connecting, Scanning, Securing, Subscribing,
     Exchanging, Stopping, Unbonding
<1>5. ASSUME ConnectWait PROVE StepTypes'
  BY <1>5 DEF ConnectWait, GoTo, Finish, StepTypes, Connecting, Scanning, Securing, Subscribing,
     Exchanging, Stopping, Unbonding
<1>6. ASSUME ScanStop PROVE StepTypes'
  BY <1>6 DEF ScanStop, GoTo, Finish, StepTypes, Connecting, Scanning, Securing, Subscribing,
     Exchanging, Stopping, Unbonding
<1>7. ASSUME ScanCancel PROVE StepTypes'
  BY <1>7 DEF ScanCancel, Finish, StepTypes, Connecting, Scanning, Securing, Subscribing,
     Exchanging, Stopping, Unbonding
<1>8. ASSUME ScanJudge PROVE StepTypes'
  BY <1>8 DEF ScanJudge, Finish, StepTypes, Connecting, Scanning, Securing, Subscribing, Exchanging,
     Stopping, Unbonding
<1>9. ASSUME AdvCheck PROVE StepTypes'
  BY <1>9 DEF AdvCheck, GoTo, Finish, StepTypes, Connecting, Scanning, Securing, Subscribing,
     Exchanging, Stopping, Unbonding
<1>10. ASSUME start_advertising PROVE StepTypes'
  BY <1>10 DEF start_advertising, GoTo, Finish, StepTypes, Connecting, Scanning, Securing,
     Subscribing, Exchanging, Stopping, Unbonding
<1>11. ASSUME AdvFlag PROVE StepTypes'
  BY <1>11 DEF AdvFlag, GoTo, Finish, StepTypes, Connecting, Scanning, Securing, Subscribing,
     Exchanging, Stopping, Unbonding
<1>12. ASSUME AdvJudge PROVE StepTypes'
  BY <1>12 DEF AdvJudge, GoTo, Finish, StepTypes, Connecting, Scanning, Securing, Subscribing,
     Exchanging, Stopping, Unbonding
<1>13. ASSUME DropArm PROVE StepTypes'
  BY <1>13 DEF DropArm, GoTo, Finish, StepTypes, Connecting, Scanning, Securing, Subscribing,
     Exchanging, Stopping, Unbonding
<1>14. ASSUME Drop PROVE StepTypes'
  BY <1>14 DEF Drop, GoTo, Finish, StepTypes, Connecting, Scanning, Securing, Subscribing,
     Exchanging, Stopping, Unbonding
<1>15. ASSUME DropWait PROVE StepTypes'
  BY <1>15 DEF DropWait, GoTo, Finish, StepTypes, Connecting, Scanning, Securing, Subscribing,
     Exchanging, Stopping, Unbonding
<1>16. ASSUME execute_set_security PROVE StepTypes'
  BY <1>16 DEF execute_set_security, GoTo, Finish, StepTypes, Connecting, Scanning, Securing,
     Subscribing, Exchanging, Stopping, Unbonding
<1>17. ASSUME SecArm PROVE StepTypes'
  BY <1>17 DEF SecArm, GoTo, Finish, StepTypes, Connecting, Scanning, Securing, Subscribing,
     Exchanging, Stopping, Unbonding
<1>18. ASSUME SecLook PROVE StepTypes'
  BY <1>18 DEF SecLook, GoTo, Finish, StepTypes, Connecting, Scanning, Securing, Subscribing,
     Exchanging, Stopping, Unbonding
<1>19. ASSUME SecAsk PROVE StepTypes'
  BY <1>19 DEF SecAsk, Finish, StepTypes, Connecting, Scanning, Securing, Subscribing, Exchanging,
     Stopping, Unbonding
<1>20. ASSUME SecWait PROVE StepTypes'
  BY <1>20 DEF SecWait, GoTo, Finish, StepTypes, Connecting, Scanning, Securing, Subscribing,
     Exchanging, Stopping, Unbonding
<1>21. ASSUME SecJudge PROVE StepTypes'
  BY <1>21 DEF SecJudge, Finish, StepTypes, Connecting, Scanning, Securing, Subscribing, Exchanging,
     Stopping, Unbonding
<1>22. ASSUME execute_data_exchange PROVE StepTypes'
  BY <1>22 DEF execute_data_exchange, GoTo, Finish, Operation, StepTypes, Connecting, Scanning,
     Securing, Subscribing, Exchanging, Stopping, Unbonding
<1>23. ASSUME GattClear PROVE StepTypes'
  BY <1>23 DEF GattClear, GoTo, Finish, StepTypes, Connecting, Scanning, Securing, Subscribing,
     Exchanging, Stopping, Unbonding
<1>24. ASSUME SemReset PROVE StepTypes'
  BY <1>24 DEF SemReset, GoTo, Finish, StepTypes, Connecting, Scanning, Securing, Subscribing,
     Exchanging, Stopping, Unbonding
<1>25. ASSUME GattCall PROVE StepTypes'
  BY <1>25 DEF GattCall, GoTo, Finish, StepTypes, Connecting, Scanning, Securing, Subscribing,
     Exchanging, Stopping, Unbonding
<1>26. ASSUME GattWait PROVE StepTypes'
  BY <1>26 DEF GattWait, GoTo, Finish, StepTypes, Connecting, Scanning, Securing, Subscribing,
     Exchanging, Stopping, Unbonding
<1>27. ASSUME GattJudge PROVE StepTypes'
  BY <1>27 DEF GattJudge, GoTo, Finish, StepTypes, Connecting, Scanning, Securing, Subscribing,
     Exchanging, Stopping, Unbonding
<1>28. ASSUME Resolved PROVE StepTypes'
  BY <1>28 DEF Resolved, Operation, StepTypes, Connecting, Scanning, Securing, Subscribing,
     Exchanging, Stopping, Unbonding
<1>29. ASSUME CccJudge PROVE StepTypes'
  BY <1>29 DEF CccJudge, GoTo, Finish, StepTypes, Connecting, Scanning, Securing, Subscribing,
     Exchanging, Stopping, Unbonding
<1>30. ASSUME Subscribed PROVE StepTypes'
  BY <1>30 DEF Subscribed, GoTo, Finish, StepTypes, Connecting, Scanning, Securing, Subscribing,
     Exchanging, Stopping, Unbonding
<1>31. ASSUME await_notification PROVE StepTypes'
  BY <1>31 DEF await_notification, GoTo, Finish, StepTypes, Connecting, Scanning, Securing,
     Subscribing, Exchanging, Stopping, Unbonding
<1>32. ASSUME Capture PROVE StepTypes'
  BY <1>32 DEF Capture, GoTo, Finish, StepTypes, Connecting, Scanning, Securing, Subscribing,
     Exchanging, Stopping, Unbonding
<1>33. ASSUME CaptureWait PROVE StepTypes'
  BY <1>33 DEF CaptureWait, Finish, StepTypes, Connecting, Scanning, Securing, Subscribing,
     Exchanging, Stopping, Unbonding
<1>34. ASSUME ResetScan PROVE StepTypes'
  BY <1>34 DEF ResetScan, GoTo, Finish, StepTypes, Connecting, Scanning, Securing, Subscribing,
     Exchanging, Stopping, Unbonding
<1>35. ASSUME ResetAdv PROVE StepTypes'
  BY <1>35 DEF ResetAdv, GoTo, Finish, StepTypes, Connecting, Scanning, Securing, Subscribing,
     Exchanging, Stopping, Unbonding
<1>36. ASSUME ResetConn PROVE StepTypes'
  BY <1>36 DEF ResetConn, GoTo, Finish, StepTypes, Connecting, Scanning, Securing, Subscribing,
     Exchanging, Stopping, Unbonding
<1>37. ASSUME ResetDrop PROVE StepTypes'
  BY <1>37 DEF ResetDrop, GoTo, Finish, StepTypes, Connecting, Scanning, Securing, Subscribing,
     Exchanging, Stopping, Unbonding
<1>38. ASSUME ResetWait PROVE StepTypes'
  BY <1>38 DEF ResetWait, GoTo, Finish, StepTypes, Connecting, Scanning, Securing, Subscribing,
     Exchanging, Stopping, Unbonding
<1>39. ASSUME Unbond PROVE StepTypes'
  BY <1>39 DEF Unbond, GoTo, Finish, StepTypes, Connecting, Scanning, Securing, Subscribing,
     Exchanging, Stopping, Unbonding
<1>40. ASSUME Unpair PROVE StepTypes'
  BY <1>40 DEF Unpair, GoTo, Finish, StepTypes, Connecting, Scanning, Securing, Subscribing,
     Exchanging, Stopping, Unbonding
<1>41. ASSUME UnbondWait PROVE StepTypes'
  BY <1>41 DEF UnbondWait, GoTo, Finish, StepTypes, Connecting, Scanning, Securing, Subscribing,
     Exchanging, Stopping, Unbonding
<1>42. ASSUME Unbonded PROVE StepTypes'
  BY <1>42 DEF Unbonded, Finish, StepTypes, Connecting, Scanning, Securing, Subscribing, Exchanging,
     Stopping, Unbonding
<1>44. ASSUME ScanTarget PROVE StepTypes'
  BY <1>44 DEF ScanTarget, GoTo, StepTypes, Connecting, Scanning, Securing, Subscribing,
     Exchanging, Stopping, Unbonding
<1>43. ASSUME UNCHANGED stepVars PROVE StepTypes'
  BY <1>43 DEF stepVars, StepTypes, Connecting, Scanning, Securing, Subscribing, Exchanging,
     Stopping, Unbonding
<1> QED
  BY <1>1, <1>2, <1>3, <1>4, <1>5, <1>6, <1>7, <1>8, <1>9, <1>10, <1>11, <1>12, <1>13, <1>14,
     <1>15, <1>16, <1>17, <1>18, <1>19, <1>20, <1>21, <1>22, <1>23, <1>24, <1>25, <1>26, <1>27,
     <1>28, <1>29, <1>30, <1>31, <1>32, <1>33, <1>34, <1>35, <1>36, <1>37, <1>38, <1>39, <1>40,
     <1>41, <1>42, <1>43, <1>44, StepFrame

LEMMA TypesHold == Spec => []Types
<1> USE LinkAssumption
<1>1. Init => Types
  <2> SUFFICES ASSUME Init PROVE Types
    OBVIOUS
  <2>1. ConnTypes
    BY DEF Init, ConnTypes
  <2>2. FlagTypes
    BY Zenon DEF Init, FlagTypes
  <2>3. SemTypes /\ RxTypes
    BY DEF Init, SemTypes, RxTypes
  <2>4. StepTypes
    <3>1. study \in Seq(Step) /\ step \in Step
      BY DEF Init, Step
    <3>2. /\ at = "idle" /\ step.kind = "reset" /\ phase = "discover" /\ attempt = 1
          /\ others = FALSE /\ outcome = "none"
      BY DEF Init
    <3>3. others \in BOOLEAN
      BY <3>2
    <3> QED
      BY <3>1, <3>2, <3>3 DEF StepTypes, Scanning, Exchanging, Subscribing
  <2>5. AirTypes
    <3>1. /\ link \in [Conns -> {"free", "creating", "cancelling", "up", "closing"}]
          /\ peer \in [Conns -> Peers] /\ links \in 0..MaxLinks
      BY DEF Init
    <3>2. on_air \in BOOLEAN /\ scanning \in BOOLEAN
      BY Zenon DEF Init
    <3> QED
      BY <3>1, <3>2 DEF AirTypes
  <2>6. HostTypes
    <3>1. level \in 1..2 /\ proc = "none" /\ req = "none"
      BY DEF Init
    <3>2. held \in BOOLEAN
      BY Zenon DEF Init
    <3> QED
      BY <3>1, <3>2 DEF HostTypes
  <2>7. HistoryTypes
    BY Zenon DEF Init, HistoryTypes
  <2> QED
    BY <2>1, <2>2, <2>3, <2>4, <2>5, <2>6, <2>7 DEF Types
<1>2. Types /\ [Next]_vars => Types'
  BY ConnStep, FlagStep, SemStep, StepStep, RxStep, AirStep, HostStep, HistoryStep DEF Types
<1> QED
  BY <1>1, <1>2, PTL DEF Spec

\* Every variable of the link keeps a value of its type: the dispatch thread is always at one
\* of its places, a connection object in one of its states, and the links that came up within
\* the bound.
THEOREM TypeCorrect == Spec => []TypeOK
<1>1. Types => TypeOK
  <2> SUFFICES ASSUME Types PROVE TypeOK
    OBVIOUS
  <2>1. ConnTypes /\ FlagTypes /\ SemTypes /\ RxTypes /\ AirTypes /\ HostTypes /\ HistoryTypes
    BY DEF Types
  <2>2. /\ study \in Seq(Step) /\ step \in Step
        /\ phase \in {"discover", "operate"} /\ attempt \in 1..2 /\ others \in BOOLEAN
        /\ outcome \in {"none", "pass", "fail", "timed_out", "disconnected"}
        /\ at \in {"idle"} \cup Connecting \cup Securing \cup Exchanging \cup Stopping
                  \cup Unbonding
    BY DEF Types, StepTypes
  <2> QED
    BY <2>1, <2>2 DEF ConnTypes, FlagTypes, SemTypes, RxTypes, AirTypes, HostTypes, HistoryTypes,
      TypeOK, Connecting, Scanning, Securing, Exchanging, Subscribing, Stopping, Unbonding
<1> QED
  BY <1>1, TypesHold, PTL

----------------------------------------------------------------------------
(* Security: the elevation that comes between the look and the wait.        *)

\* From the look at the level to the end of the wait, a link that has become secure has its
\* semaphore given.
SecArmed == at \in {"sec_ask", "sec_wait"} /\ active # NoConn /\ level = 2 => sem["sec"] = 1

\* The steps that change the place, the link, its level or a semaphore.
LEMMA SecFrame ==
  ASSUME [Next]_vars
  PROVE  \/ UNCHANGED <<at, active, level, sem>>
         \/ (\E c \in Conns, err \in BOOLEAN : Created(c, err))
         \/ (\E c \in Conns, p \in Peers : Incoming(c, p))
         \/ (\E c \in Conns : disconnected_cb(c)) \/ security_changed_cb \/ Answered \/ notify_cb
         \/ ScanStopped \/ ConnCreate \/ ble_bridge_execute \/ execute_connect \/ ScanTarget
         \/ ConnectArm \/ ScanStart \/ ConnectWait \/ ScanStop \/ ScanCancel \/ ScanJudge
         \/ AdvCheck \/ start_advertising
         \/ AdvFlag \/ AdvJudge \/ DropArm \/ Drop \/ DropWait \/ execute_set_security \/ SecArm
         \/ SecLook \/ SecAsk \/ SecWait \/ SecJudge \/ execute_data_exchange \/ GattClear
         \/ SemReset \/ GattCall \/ GattWait \/ GattJudge \/ Resolved \/ CccJudge \/ Subscribed
         \/ await_notification \/ Capture \/ CaptureWait \/ ResetScan \/ ResetAdv \/ ResetConn
         \/ ResetDrop \/ ResetWait \/ Unbond \/ Unpair \/ UnbondWait \/ Unbonded
<1>1. CASE BtRx
  BY <1>1 DEF BtRx, PeerSecurity, connVars, stepVars, scan_cb, hostVars
<1>2. CASE ble_bridge_execute
  BY <1>2
<1>3. CASE Connect
  BY <1>3 DEF Connect
<1>4. CASE Security
  BY <1>4 DEF Security
<1>5. CASE Exchange
  BY <1>5 DEF Exchange
<1>6. CASE Reset
  BY <1>6 DEF Reset
<1>7. CASE UNCHANGED vars
  BY <1>7 DEF vars, connVars, stepVars, hostVars
<1> QED
  BY <1>1, <1>2, <1>3, <1>4, <1>5, <1>6, <1>7 DEF Next

\* SecArmed is kept: only the step itself resets the semaphore, before it looks.
LEMMA SecStep ==
  ASSUME SecArmed, Types, [Next]_vars
  PROVE  SecArmed'
<1> USE LinkAssumption
<1>1. ASSUME NEW c \in Conns, NEW err \in BOOLEAN, Created(c, err) PROVE SecArmed'
  <2>1. BtRx
    BY <1>1 DEF BtRx
  <2>2. UNCHANGED at /\ \A s \in Sems : sem[s] = 1 => sem'[s] = 1
    BY <2>1, CallbackFacts DEF Types, stepVars
  <2>3. active' # NoConn /\ level' = 2 => active # NoConn /\ level = 2
    BY <1>1 DEF Created, connected_cb
  <2> QED
    BY <2>2, <2>3 DEF SecArmed, Sems
<1>2. ASSUME NEW c \in Conns, NEW p \in Peers, Incoming(c, p) PROVE SecArmed'
  <2>1. BtRx
    BY <1>2 DEF BtRx
  <2>2. UNCHANGED at /\ \A s \in Sems : sem[s] = 1 => sem'[s] = 1
    BY <2>1, CallbackFacts DEF Types, stepVars
  <2>3. active' # NoConn /\ level' = 2 => active # NoConn /\ level = 2
    BY <1>2 DEF Incoming, connected_cb
  <2> QED
    BY <2>2, <2>3 DEF SecArmed, Sems
<1>3. ASSUME NEW c \in Conns, disconnected_cb(c) PROVE SecArmed'
  <2>1. BtRx
    BY <1>3 DEF BtRx
  <2>2. UNCHANGED at /\ \A s \in Sems : sem[s] = 1 => sem'[s] = 1
    BY <2>1, CallbackFacts DEF Types, stepVars
  <2>3. active' # NoConn /\ level' = 2 => active # NoConn /\ level = 2
    BY <1>3 DEF disconnected_cb
  <2> QED
    BY <2>2, <2>3 DEF SecArmed, Sems
<1>4. ASSUME security_changed_cb PROVE SecArmed'
  <2>1. UNCHANGED stepVars /\ k_sem_give({"sec"})
    BY <1>4 DEF security_changed_cb
  <2>2. sem'["sec"] = 1
    BY <2>1, GiveFacts DEF Types, Sems
  <2> QED
    BY <2>1, <2>2 DEF SecArmed, stepVars
<1>5. ASSUME Answered PROVE SecArmed'
  <2>1. BtRx
    BY <1>5 DEF BtRx
  <2>2. UNCHANGED at /\ \A s \in Sems : sem[s] = 1 => sem'[s] = 1
    BY <2>1, CallbackFacts DEF Types, stepVars
  <2>3. active' # NoConn /\ level' = 2 => active # NoConn /\ level = 2
    BY <1>5 DEF Answered, connVars
  <2> QED
    BY <2>2, <2>3 DEF SecArmed, Sems
<1>6. ASSUME notify_cb PROVE SecArmed'
  <2>1. BtRx
    BY <1>6 DEF BtRx
  <2>2. UNCHANGED at /\ \A s \in Sems : sem[s] = 1 => sem'[s] = 1
    BY <2>1, CallbackFacts DEF Types, stepVars
  <2>3. active' # NoConn /\ level' = 2 => active # NoConn /\ level = 2
    BY <1>6 DEF notify_cb, connVars, hostVars
  <2> QED
    BY <2>2, <2>3 DEF SecArmed, Sems
<1>7. ASSUME ScanStopped \/ ConnCreate PROVE SecArmed'
  <2>1. BtRx
    BY <1>7 DEF BtRx
  <2>2. UNCHANGED at /\ \A s \in Sems : sem[s] = 1 => sem'[s] = 1
    BY <2>1, CallbackFacts DEF Types, stepVars
  <2>3. active' # NoConn /\ level' = 2 => active # NoConn /\ level = 2
    BY <1>7 DEF ScanStopped, ConnCreate, hostVars
  <2> QED
    BY <2>2, <2>3 DEF SecArmed, Sems
<1>8. ASSUME ble_bridge_execute PROVE SecArmed'
  <2>1. at' \in {"adv_start", "connect", "exchange", "reset_scan", "secure", "unbond"}
    BY <1>8, ExecuteFacts DEF Types
  <2> QED
    BY <2>1 DEF SecArmed
<1>9. ASSUME execute_connect PROVE SecArmed'
  BY <1>9 DEF execute_connect, Fits, GoTo, Finish, connVars, hostVars, SecArmed, Types, SemTypes
<1>10. ASSUME ConnectArm PROVE SecArmed'
  BY <1>10 DEF ConnectArm, k_sem_reset, GoTo, Finish, hostVars, SecArmed, Types, SemTypes
<1>11. ASSUME ScanStart PROVE SecArmed'
  BY <1>11 DEF ScanStart, GoTo, Finish, connVars, hostVars, SecArmed, Types, SemTypes
<1>12. ASSUME ConnectWait PROVE SecArmed'
  BY <1>12 DEF ConnectWait, k_sem_reset, GoTo, Finish, connVars, hostVars, SecArmed, Types,
     SemTypes
<1>13. ASSUME ScanStop PROVE SecArmed'
  BY <1>13 DEF ScanStop, GoTo, Finish, connVars, hostVars, SecArmed, Types, SemTypes
<1>14. ASSUME ScanCancel PROVE SecArmed'
  BY <1>14 DEF ScanCancel, Finish, release_pending_conn, Disconnected, hostVars, SecArmed, Types,
     SemTypes
<1>15. ASSUME ScanJudge PROVE SecArmed'
  BY <1>15 DEF ScanJudge, Finish, release_pending_conn, Disconnected, hostVars, SecArmed, Types,
     SemTypes
<1>16. ASSUME AdvCheck PROVE SecArmed'
  BY <1>16 DEF AdvCheck, GoTo, Finish, connVars, hostVars, SecArmed, Types, SemTypes
<1>17. ASSUME start_advertising PROVE SecArmed'
  BY <1>17 DEF start_advertising, GoTo, Finish, connVars, hostVars, SecArmed, Types, SemTypes
<1>18. ASSUME AdvFlag PROVE SecArmed'
  BY <1>18 DEF AdvFlag, GoTo, Finish, connVars, hostVars, SecArmed, Types, SemTypes
<1>19. ASSUME AdvJudge PROVE SecArmed'
  BY <1>19 DEF AdvJudge, Fits, GoTo, Finish, connVars, hostVars, SecArmed, Types, SemTypes
<1>20. ASSUME DropArm PROVE SecArmed'
  BY <1>20 DEF DropArm, k_sem_reset, GoTo, Finish, connVars, hostVars, SecArmed, Types, SemTypes
<1>21. ASSUME Drop PROVE SecArmed'
  BY <1>21 DEF Drop, Disconnected, GoTo, Finish, connVars, hostVars, SecArmed, Types, SemTypes
<1>22. ASSUME DropWait PROVE SecArmed'
  BY <1>22 DEF DropWait, k_sem_reset, GoTo, Finish, connVars, hostVars, SecArmed, Types, SemTypes
<1>23. ASSUME execute_set_security PROVE SecArmed'
  BY <1>23 DEF execute_set_security, GoTo, Finish, connVars, hostVars, SecArmed, Types, SemTypes
<1>24. ASSUME SecArm PROVE SecArmed'
  BY <1>24 DEF SecArm, k_sem_reset, GoTo, Finish, connVars, hostVars, SecArmed, Types, SemTypes
<1>25. ASSUME SecLook PROVE SecArmed'
  BY <1>25 DEF SecLook, GoTo, Finish, connVars, hostVars, SecArmed, Types, SemTypes
<1>26. ASSUME SecAsk PROVE SecArmed'
  BY <1>26 DEF SecAsk, Finish, connVars, SecArmed, Types, SemTypes
<1>27. ASSUME SecWait PROVE SecArmed'
  BY <1>27 DEF SecWait, k_sem_reset, GoTo, Finish, connVars, hostVars, SecArmed, Types, SemTypes
<1>28. ASSUME SecJudge PROVE SecArmed'
  BY <1>28 DEF SecJudge, Finish, connVars, hostVars, SecArmed, Types, SemTypes
<1>29. ASSUME execute_data_exchange PROVE SecArmed'
  BY <1>29 DEF execute_data_exchange, GoTo, Finish, Operation, connVars, hostVars, SecArmed,
     Types, SemTypes
<1>30. ASSUME GattClear PROVE SecArmed'
  BY <1>30 DEF GattClear, GoTo, Finish, connVars, hostVars, SecArmed, Types, SemTypes
<1>31. ASSUME SemReset PROVE SecArmed'
  <2>1. at' \in {"gatt_call", "unsub_call", "ccc_call", "await", "capture"}
    BY <1>31 DEF SemReset, GoTo, Types, StepTypes, Subscribing
  <2> QED
    BY <2>1 DEF SecArmed
<1>32. ASSUME GattCall PROVE SecArmed'
  BY <1>32 DEF GattCall, GoTo, Finish, connVars, SecArmed, Types, SemTypes
<1>33. ASSUME GattWait PROVE SecArmed'
  BY <1>33 DEF GattWait, k_sem_reset, GoTo, Finish, connVars, SecArmed, Types, SemTypes
<1>34. ASSUME GattJudge PROVE SecArmed'
  BY <1>34 DEF GattJudge, GoTo, Finish, connVars, hostVars, SecArmed, Types, SemTypes
<1>35. ASSUME Resolved PROVE SecArmed'
  BY <1>35 DEF Resolved, Operation, connVars, hostVars, SecArmed, Types, SemTypes
<1>36. ASSUME CccJudge PROVE SecArmed'
  BY <1>36 DEF CccJudge, GoTo, Finish, connVars, hostVars, SecArmed, Types, SemTypes
<1>37. ASSUME Subscribed PROVE SecArmed'
  <2>1. at' \in {"await", "capture"}
    BY <1>37 DEF Subscribed, GoTo, Types, StepTypes, Subscribing
  <2> QED
    BY <2>1 DEF SecArmed
<1>38. ASSUME await_notification PROVE SecArmed'
  BY <1>38 DEF await_notification, k_sem_reset, GoTo, Finish, connVars, hostVars, SecArmed,
     Types, SemTypes
<1>39. ASSUME Capture PROVE SecArmed'
  BY <1>39 DEF Capture, k_sem_reset, GoTo, Finish, connVars, hostVars, SecArmed, Types, SemTypes
<1>40. ASSUME CaptureWait PROVE SecArmed'
  BY <1>40 DEF CaptureWait, k_sem_reset, Finish, connVars, hostVars, SecArmed, Types, SemTypes
<1>41. ASSUME ResetScan PROVE SecArmed'
  BY <1>41 DEF ResetScan, GoTo, Finish, connVars, hostVars, SecArmed, Types, SemTypes
<1>42. ASSUME ResetAdv PROVE SecArmed'
  BY <1>42 DEF ResetAdv, GoTo, Finish, connVars, hostVars, SecArmed, Types, SemTypes
<1>43. ASSUME ResetConn PROVE SecArmed'
  BY <1>43 DEF ResetConn, GoTo, release_pending_conn, Unfinished, Finish, Disconnected, SecArmed,
     Types, SemTypes
<1>44. ASSUME ResetDrop PROVE SecArmed'
  BY <1>44 DEF ResetDrop, k_sem_reset, Disconnected, GoTo, Finish, connVars, hostVars, SecArmed,
     Types, SemTypes
<1>45. ASSUME ResetWait PROVE SecArmed'
  BY <1>45 DEF ResetWait, k_sem_reset, GoTo, Finish, connVars, hostVars, SecArmed, Types, SemTypes
<1>46. ASSUME Unbond PROVE SecArmed'
  BY <1>46 DEF Unbond, k_sem_reset, GoTo, Finish, connVars, hostVars, SecArmed, Types, SemTypes
<1>47. ASSUME Unpair PROVE SecArmed'
  BY <1>47 DEF Unpair, GoTo, Finish, Unpaired, Disconnected, connVars, SecArmed, Types, SemTypes
<1>48. ASSUME UnbondWait PROVE SecArmed'
  BY <1>48 DEF UnbondWait, k_sem_reset, GoTo, Finish, connVars, hostVars, SecArmed, Types,
     SemTypes
<1>49. ASSUME Unbonded PROVE SecArmed'
  BY <1>49 DEF Unbonded, Finish, connVars, hostVars, SecArmed, Types, SemTypes
<1>51. ASSUME ScanTarget PROVE SecArmed'
  BY <1>51 DEF ScanTarget, GoTo, SecArmed
<1>50. ASSUME UNCHANGED <<at, active, level, sem>> PROVE SecArmed'
  BY <1>50 DEF SecArmed, Types, SemTypes
<1> QED
  BY <1>1, <1>2, <1>3, <1>4, <1>5, <1>6, <1>7, <1>8, <1>9, <1>10, <1>11, <1>12, <1>13, <1>14,
     <1>15, <1>16, <1>17, <1>18, <1>19, <1>20, <1>21, <1>22, <1>23, <1>24, <1>25, <1>26, <1>27,
     <1>28, <1>29, <1>30, <1>31, <1>32, <1>33, <1>34, <1>35, <1>36, <1>37, <1>38, <1>39, <1>40,
     <1>41, <1>42, <1>43, <1>44, <1>45, <1>46, <1>47, <1>48, <1>49, <1>50, <1>51, SecFrame

\* A security step never sleeps on a link that is secure already.
THEOREM ElevationIsTaken == Spec => []NoLostElevation
<1>1. Init => SecArmed
  BY DEF Init, SecArmed
<1>2. Types /\ SecArmed /\ [Next]_vars => SecArmed'
  BY SecStep
<1>3. SecArmed => NoLostElevation
  BY DEF SecArmed, NoLostElevation
<1> QED
  BY <1>1, <1>2, <1>3, TypesHold, PTL DEF Spec

----------------------------------------------------------------------------
(* A link that goes while a step waits.                                    *)

\* A loss in a wait is not forgotten: link_lost stays set until the step has looked, and what
\* the step sleeps on has been given.
LossHeld ==
    lost => \/ at = "idle" /\ outcome = "disconnected"
            \/ /\ at \in Waits /\ link_lost
               /\ at = "gatt_wait" => sem["gatt"] = 1
               /\ at = "await" => sem["notify"] = 1
               /\ at = "cap_wait" => sem["disconn"] = 1

\* The steps that change the place, the outcome, link_lost, a semaphore or the history of it.
LEMMA LossFrame ==
  ASSUME [Next]_vars
  PROVE  \/ UNCHANGED <<at, outcome, link_lost, sem, lost>>
         \/ (\E c \in Conns, err \in BOOLEAN : Created(c, err))
         \/ (\E c \in Conns, p \in Peers : Incoming(c, p))
         \/ (\E c \in Conns : disconnected_cb(c)) \/ security_changed_cb \/ Answered \/ notify_cb
         \/ ScanStopped \/ ConnCreate \/ ble_bridge_execute \/ execute_connect \/ ScanTarget
         \/ ConnectArm \/ ScanStart \/ ConnectWait \/ ScanStop \/ ScanCancel \/ ScanJudge
         \/ AdvCheck \/ start_advertising
         \/ AdvFlag \/ AdvJudge \/ DropArm \/ Drop \/ DropWait \/ execute_set_security \/ SecArm
         \/ SecLook \/ SecAsk \/ SecWait \/ SecJudge \/ execute_data_exchange \/ GattClear
         \/ SemReset \/ GattCall \/ GattWait \/ GattJudge \/ Resolved \/ CccJudge \/ Subscribed
         \/ await_notification \/ Capture \/ CaptureWait \/ ResetScan \/ ResetAdv \/ ResetConn
         \/ ResetDrop \/ ResetWait \/ Unbond \/ Unpair \/ UnbondWait \/ Unbonded
<1>1. CASE BtRx
  BY <1>1 DEF BtRx, PeerSecurity, flagVars, stepVars, history, scan_cb
<1>2. CASE ble_bridge_execute
  BY <1>2
<1>3. CASE Connect
  BY <1>3 DEF Connect
<1>4. CASE Security
  BY <1>4 DEF Security
<1>5. CASE Exchange
  BY <1>5 DEF Exchange
<1>6. CASE Reset
  BY <1>6 DEF Reset
<1>7. CASE UNCHANGED vars
  BY <1>7 DEF vars, flagVars, stepVars, history
<1> QED
  BY <1>1, <1>2, <1>3, <1>4, <1>5, <1>6, <1>7 DEF Next

\* LossHeld is kept: every way out of a wait looks at the link first.
LEMMA LossStep ==
  ASSUME LossHeld, Types, [Next]_vars
  PROVE  LossHeld'
<1> USE LinkAssumption
<1>1. ASSUME NEW c \in Conns, NEW err \in BOOLEAN, Created(c, err) PROVE LossHeld'
  <2>1. BtRx
    BY <1>1 DEF BtRx
  <2>2. UNCHANGED <<at, outcome>> /\ \A s \in Sems : sem[s] = 1 => sem'[s] = 1
    BY <2>1, CallbackFacts DEF Types, stepVars
  <2>3. UNCHANGED <<link_lost, lost>>
    BY <1>1 DEF Created, connected_cb, history
  <2> QED
    BY <2>2, <2>3 DEF LossHeld, Sems
<1>2. ASSUME NEW c \in Conns, NEW p \in Peers, Incoming(c, p) PROVE LossHeld'
  <2>1. BtRx
    BY <1>2 DEF BtRx
  <2>2. UNCHANGED <<at, outcome>> /\ \A s \in Sems : sem[s] = 1 => sem'[s] = 1
    BY <2>1, CallbackFacts DEF Types, stepVars
  <2>3. UNCHANGED <<link_lost, lost>>
    BY <1>2 DEF Incoming, connected_cb
  <2> QED
    BY <2>2, <2>3 DEF LossHeld, Sems
<1>3. ASSUME NEW c \in Conns, disconnected_cb(c) PROVE LossHeld'
  <2>1. BtRx
    BY <1>3 DEF BtRx
  <2>2. UNCHANGED <<at, outcome>> /\ \A s \in Sems : sem[s] = 1 => sem'[s] = 1
    BY <2>1, CallbackFacts DEF Types, stepVars
  <2>3. link_lost' = TRUE /\ lost' = (lost \/ at \in Waits)
    BY <1>3 DEF disconnected_cb
  <2>4. PICK given \in SUBSET Sems : /\ k_sem_give(given)
                                     /\ {"gatt", "notify", "disconn"} \subseteq given
    BY <1>3 DEF disconnected_cb, Sems
  <2>5. sem'["gatt"] = 1 /\ sem'["notify"] = 1 /\ sem'["disconn"] = 1
    BY <2>4, GiveFacts DEF Types, Sems
  <2>6. CASE at \in Waits
    BY <2>2, <2>3, <2>5, <2>6 DEF LossHeld
  <2>7. CASE at \notin Waits
    BY <2>2, <2>3, <2>7 DEF LossHeld
  <2> QED
    BY <2>6, <2>7
<1>4. ASSUME security_changed_cb PROVE LossHeld'
  <2>1. BtRx
    BY <1>4 DEF BtRx
  <2>2. UNCHANGED <<at, outcome>> /\ \A s \in Sems : sem[s] = 1 => sem'[s] = 1
    BY <2>1, CallbackFacts DEF Types, stepVars
  <2>3. UNCHANGED <<link_lost, lost>>
    BY <1>4 DEF security_changed_cb, history
  <2> QED
    BY <2>2, <2>3 DEF LossHeld, Sems
<1>5. ASSUME Answered PROVE LossHeld'
  <2>1. BtRx
    BY <1>5 DEF BtRx
  <2>2. UNCHANGED <<at, outcome>> /\ \A s \in Sems : sem[s] = 1 => sem'[s] = 1
    BY <2>1, CallbackFacts DEF Types, stepVars
  <2>3. UNCHANGED <<link_lost, lost>>
    BY <1>5 DEF Answered, history
  <2> QED
    BY <2>2, <2>3 DEF LossHeld, Sems
<1>6. ASSUME notify_cb PROVE LossHeld'
  <2>1. BtRx
    BY <1>6 DEF BtRx
  <2>2. UNCHANGED <<at, outcome>> /\ \A s \in Sems : sem[s] = 1 => sem'[s] = 1
    BY <2>1, CallbackFacts DEF Types, stepVars
  <2>3. UNCHANGED <<link_lost, lost>>
    BY <1>6 DEF notify_cb, flagVars, history
  <2> QED
    BY <2>2, <2>3 DEF LossHeld, Sems
<1>7. ASSUME ScanStopped \/ ConnCreate PROVE LossHeld'
  <2>1. BtRx
    BY <1>7 DEF BtRx
  <2>2. UNCHANGED <<at, outcome>> /\ \A s \in Sems : sem[s] = 1 => sem'[s] = 1
    BY <2>1, CallbackFacts DEF Types, stepVars
  <2>3. UNCHANGED <<link_lost, lost>>
    BY <1>7 DEF ScanStopped, ConnCreate, flagVars, history
  <2> QED
    BY <2>2, <2>3 DEF LossHeld, Sems
<1>8. ASSUME ble_bridge_execute PROVE LossHeld'
  <2>1. lost' = FALSE
    BY <1>8 DEF ble_bridge_execute
  <2> QED
    BY <2>1 DEF LossHeld
<1>9. ASSUME execute_connect PROVE LossHeld'
  BY <1>9 DEF execute_connect, Fits, GoTo, Finish, flagVars, history, LossHeld, Types, SemTypes,
     Waits
<1>10. ASSUME ConnectArm PROVE LossHeld'
  BY <1>10 DEF ConnectArm, k_sem_reset, GoTo, Finish, flagVars, history, LossHeld, Types,
     SemTypes, Waits
<1>11. ASSUME ScanStart PROVE LossHeld'
  BY <1>11 DEF ScanStart, GoTo, Finish, flagVars, history, LossHeld, Types, SemTypes, Waits
<1>12. ASSUME ConnectWait PROVE LossHeld'
  BY <1>12 DEF ConnectWait, k_sem_reset, GoTo, Finish, flagVars, history, LossHeld, Types,
     SemTypes, Waits
<1>13. ASSUME ScanStop PROVE LossHeld'
  BY <1>13 DEF ScanStop, GoTo, Finish, flagVars, history, LossHeld, Types, SemTypes, Waits
<1>14. ASSUME ScanCancel PROVE LossHeld'
  BY <1>14 DEF ScanCancel, Finish, release_pending_conn, Disconnected, flagVars, history,
     LossHeld, Types, SemTypes, Waits
<1>15. ASSUME ScanJudge PROVE LossHeld'
  BY <1>15 DEF ScanJudge, Finish, release_pending_conn, Disconnected, flagVars, history,
     LossHeld, Types, SemTypes, Waits
<1>16. ASSUME AdvCheck PROVE LossHeld'
  BY <1>16 DEF AdvCheck, GoTo, Finish, flagVars, history, LossHeld, Types, SemTypes, Waits
<1>17. ASSUME start_advertising PROVE LossHeld'
  BY <1>17 DEF start_advertising, GoTo, Finish, flagVars, history, LossHeld, Types, SemTypes,
     Waits
<1>18. ASSUME AdvFlag PROVE LossHeld'
  BY <1>18 DEF AdvFlag, GoTo, Finish, history, LossHeld, Types, SemTypes, Waits
<1>19. ASSUME AdvJudge PROVE LossHeld'
  BY <1>19 DEF AdvJudge, Fits, GoTo, Finish, flagVars, history, LossHeld, Types, SemTypes, Waits
<1>20. ASSUME DropArm PROVE LossHeld'
  BY <1>20 DEF DropArm, k_sem_reset, GoTo, Finish, flagVars, history, LossHeld, Types, SemTypes,
     Waits
<1>21. ASSUME Drop PROVE LossHeld'
  BY <1>21 DEF Drop, Disconnected, GoTo, Finish, flagVars, history, LossHeld, Types, SemTypes,
     Waits
<1>22. ASSUME DropWait PROVE LossHeld'
  BY <1>22 DEF DropWait, k_sem_reset, GoTo, Finish, flagVars, history, LossHeld, Types, SemTypes,
     Waits
<1>23. ASSUME execute_set_security PROVE LossHeld'
  BY <1>23 DEF execute_set_security, GoTo, Finish, history, LossHeld, Types, SemTypes, Waits
<1>24. ASSUME SecArm PROVE LossHeld'
  BY <1>24 DEF SecArm, k_sem_reset, GoTo, Finish, flagVars, history, LossHeld, Types, SemTypes,
     Waits
<1>25. ASSUME SecLook PROVE LossHeld'
  BY <1>25 DEF SecLook, GoTo, Finish, flagVars, history, LossHeld, Types, SemTypes, Waits
<1>26. ASSUME SecAsk PROVE LossHeld'
  BY <1>26 DEF SecAsk, Finish, flagVars, history, LossHeld, Types, SemTypes, Waits
<1>27. ASSUME SecWait PROVE LossHeld'
  BY <1>27 DEF SecWait, k_sem_reset, GoTo, Finish, flagVars, history, LossHeld, Types, SemTypes,
     Waits
<1>28. ASSUME SecJudge PROVE LossHeld'
  BY <1>28 DEF SecJudge, Finish, flagVars, history, LossHeld, Types, SemTypes, Waits
<1>29. ASSUME execute_data_exchange PROVE LossHeld'
  BY <1>29 DEF execute_data_exchange, GoTo, Finish, Operation, flagVars, history, LossHeld,
     Types, SemTypes, Waits
<1>30. ASSUME GattClear PROVE LossHeld'
  BY <1>30 DEF GattClear, GoTo, Finish, history, LossHeld, Types, SemTypes, Waits
<1>31. ASSUME SemReset PROVE LossHeld'
  BY <1>31 DEF SemReset, k_sem_reset, GoTo, Finish, history, LossHeld, Types, SemTypes, Waits
<1>32. ASSUME GattCall PROVE LossHeld'
  BY <1>32 DEF GattCall, GoTo, Finish, history, LossHeld, Types, SemTypes, Waits
<1>33. ASSUME GattWait PROVE LossHeld'
  BY <1>33 DEF GattWait, k_sem_reset, GoTo, Finish, flagVars, history, LossHeld, Types, SemTypes,
     Waits
<1>34. ASSUME GattJudge PROVE LossHeld'
  BY <1>34 DEF GattJudge, GoTo, Finish, flagVars, history, LossHeld, Types, SemTypes, Waits
<1>35. ASSUME Resolved PROVE LossHeld'
  BY <1>35 DEF Resolved, Operation, history, LossHeld, Types, SemTypes, Waits
<1>36. ASSUME CccJudge PROVE LossHeld'
  BY <1>36 DEF CccJudge, GoTo, Finish, flagVars, history, LossHeld, Types, SemTypes, Waits
<1>37. ASSUME Subscribed PROVE LossHeld'
  BY <1>37 DEF Subscribed, GoTo, Finish, history, LossHeld, Types, SemTypes, Waits
<1>38. ASSUME await_notification PROVE LossHeld'
  BY <1>38 DEF await_notification, k_sem_reset, GoTo, Finish, flagVars, history, LossHeld, Types,
     SemTypes, Waits
<1>39. ASSUME Capture PROVE LossHeld'
  BY <1>39 DEF Capture, k_sem_reset, GoTo, Finish, history, LossHeld, Types, SemTypes, Waits
<1>40. ASSUME CaptureWait PROVE LossHeld'
  BY <1>40 DEF CaptureWait, k_sem_reset, Finish, flagVars, history, LossHeld, Types, SemTypes,
     Waits
<1>41. ASSUME ResetScan PROVE LossHeld'
  BY <1>41 DEF ResetScan, GoTo, Finish, flagVars, history, LossHeld, Types, SemTypes, Waits
<1>42. ASSUME ResetAdv PROVE LossHeld'
  BY <1>42 DEF ResetAdv, GoTo, Finish, flagVars, history, LossHeld, Types, SemTypes, Waits
<1>43. ASSUME ResetConn PROVE LossHeld'
  BY <1>43 DEF ResetConn, GoTo, release_pending_conn, Unfinished, Finish, Disconnected, LossHeld,
     Types, SemTypes, Waits
<1>44. ASSUME ResetDrop PROVE LossHeld'
  BY <1>44 DEF ResetDrop, k_sem_reset, Disconnected, GoTo, Finish, flagVars, history, LossHeld,
     Types, SemTypes, Waits
<1>45. ASSUME ResetWait PROVE LossHeld'
  BY <1>45 DEF ResetWait, k_sem_reset, GoTo, Finish, flagVars, LossHeld, Types, SemTypes, Waits
<1>46. ASSUME Unbond PROVE LossHeld'
  BY <1>46 DEF Unbond, k_sem_reset, GoTo, Finish, flagVars, history, LossHeld, Types, SemTypes,
     Waits
<1>47. ASSUME Unpair PROVE LossHeld'
  BY <1>47 DEF Unpair, GoTo, Finish, Unpaired, Disconnected, flagVars, history, LossHeld, Types,
     SemTypes, Waits
<1>48. ASSUME UnbondWait PROVE LossHeld'
  BY <1>48 DEF UnbondWait, k_sem_reset, GoTo, Finish, flagVars, history, LossHeld, Types,
     SemTypes, Waits
<1>49. ASSUME Unbonded PROVE LossHeld'
  BY <1>49 DEF Unbonded, Finish, LossHeld, Types, SemTypes, Waits
<1>51. ASSUME ScanTarget PROVE LossHeld'
  BY <1>51 DEF ScanTarget, GoTo, history, LossHeld, Waits
<1>50. ASSUME UNCHANGED <<at, outcome, link_lost, sem, lost>> PROVE LossHeld'
  BY <1>50 DEF LossHeld, Types, SemTypes, Waits
<1> QED
  BY <1>1, <1>2, <1>3, <1>4, <1>5, <1>6, <1>7, <1>8, <1>9, <1>10, <1>11, <1>12, <1>13, <1>14,
     <1>15, <1>16, <1>17, <1>18, <1>19, <1>20, <1>21, <1>22, <1>23, <1>24, <1>25, <1>26, <1>27,
     <1>28, <1>29, <1>30, <1>31, <1>32, <1>33, <1>34, <1>35, <1>36, <1>37, <1>38, <1>39, <1>40,
     <1>41, <1>42, <1>43, <1>44, <1>45, <1>46, <1>47, <1>48, <1>49, <1>50, <1>51, LossFrame

----------------------------------------------------------------------------
(* A link that goes under a CCC write.                                     *)

\* The places of a subscription, from the taking back of an older one to the look at the answer.
Writing == Unwrites \cup {"ccc_wait", "ccc_judge"}

\* The step is told at each of its places: by the callback of the write, or by a link that is
\* not there; a write that is owed nothing any more has been answered.
CutHeld ==
    /\ cut => \/ at = "idle" /\ outcome = "fail"
              \/ at = "unsub_wait" /\ active = NoConn /\ sem["ccc"] = 1
              \/ at \in {"ccc_rearm", "ccc_call"} /\ active = NoConn
              \/ at = "ccc_wait" /\ ccc_torn_down /\ sem["ccc"] = 1
              \/ at = "ccc_judge" /\ ccc_torn_down
    /\ at = "unsub_wait" /\ req # "ccc" => sem["ccc"] = 1

LEMMA CutStep ==
  ASSUME CutHeld, Types, [Next]_vars
  PROVE  CutHeld'
<1> USE LinkAssumption
<1>0. SemTypes /\ StepTypes /\ HostTypes /\ active \in Conns \cup {NoConn}
  BY DEF Types, ConnTypes
\* A step elsewhere does not begin one.
<1>1. ASSUME UNCHANGED cut, at # "idle", at \notin Writing, at' # "unsub_wait" PROVE CutHeld'
  BY <1>1 DEF CutHeld, Writing, Unwrites
<1>2. CASE BtRx
  <2>1. UNCHANGED <<at, outcome>> /\ \A s \in Sems : sem[s] = 1 => sem'[s] = 1
    BY <1>0, <1>2, CallbackFacts DEF stepVars
  <2>2. ASSUME UNCHANGED <<active, ccc_torn_down, req, cut>> PROVE CutHeld'
    BY <2>1, <2>2 DEF CutHeld, Sems
  <2>3. ASSUME NEW c \in Conns, connected_cb(c, TRUE) \/ connected_cb(c, FALSE) PROVE CutHeld'
    <3>1. /\ UNCHANGED <<ccc_torn_down, req>>
          /\ cut' = (cut /\ (active' = active \/ ~(at \in Unwrites)))
      BY <2>3 DEF connected_cb
    <3> QED
      BY <2>1, <3>1 DEF CutHeld, Sems, Unwrites
  <2>4. ASSUME NEW c \in Conns, NEW err \in BOOLEAN, Created(c, err) PROVE CutHeld'
    BY <2>3, <2>4 DEF Created
  <2>5. ASSUME NEW c \in Conns, NEW p \in Peers, Incoming(c, p) PROVE CutHeld'
    BY <2>3, <2>5 DEF Incoming
  <2>6. ASSUME NEW c \in Conns, disconnected_cb(c) PROVE CutHeld'
    <3> DEFINE owed == c = active /\ req = "ccc"
    <3>1. /\ active' = IF active = c THEN NoConn ELSE active
          /\ ccc_torn_down' = (ccc_torn_down \/ owed)
          /\ cut' = (cut \/ (at = "ccc_wait" /\ owed) \/ (at \in Unwrites /\ c = active))
          /\ req' = IF c = active THEN "none" ELSE req
      BY <2>6 DEF disconnected_cb
    <3>2. owed => sem'["ccc"] = 1
      <4>1. ASSUME owed PROVE k_sem_give({"gatt", "notify", "disconn"} \cup {"ccc"})
        BY <2>6, <4>1 DEF disconnected_cb
      <4> QED
        BY <1>0, <4>1, GiveFacts DEF Sems
    <3>3. sem["ccc"] = 1 => sem'["ccc"] = 1
      BY <2>1 DEF Sems
    <3>4. at' = "unsub_wait" /\ req' # "ccc" => sem'["ccc"] = 1
      BY <2>1, <3>1, <3>2, <3>3 DEF CutHeld
    <3>5. CASE cut' /\ ~cut
      BY <2>1, <3>1, <3>2, <3>3, <3>4, <3>5 DEF CutHeld, Unwrites
    <3>6. CASE cut
      BY <1>0, <2>1, <3>1, <3>3, <3>4, <3>6 DEF CutHeld
    <3>7. CASE ~cut'
      BY <3>4, <3>7 DEF CutHeld
    <3> QED
      BY <3>5, <3>6, <3>7
  <2>7. CASE Answered
    <3>1. UNCHANGED <<active, cut>> /\ (ccc_torn_down => ccc_torn_down')
      BY <2>7 DEF Answered, connVars, history
    <3>2. req = "ccc" => sem'["ccc"] = 1
      <4>1. req \in Sems /\ k_sem_give({req})
        BY <2>7 DEF Answered, Sems, HostTypes, Types
      <4> QED
        BY <1>0, <4>1, GiveFacts DEF Sems
    <3> QED
      BY <2>1, <3>1, <3>2 DEF CutHeld, Sems
  <2>8. CASE PeerSecurity \/ security_changed_cb \/ notify_cb
    BY <2>2, <2>8 DEF PeerSecurity, security_changed_cb, notify_cb, connVars, flagVars, hostVars,
       history
  <2>9. CASE ScanStopped \/ ConnCreate \/ \E p \in Peers : scan_cb(p)
    BY <2>2, <2>9 DEF ScanStopped, ConnCreate, scan_cb, flagVars, hostVars, history
  <2> QED
    BY <1>2, <2>4, <2>5, <2>6, <2>7, <2>8, <2>9 DEF BtRx
<1>3. CASE ble_bridge_execute
  <2>1. at' # "unsub_wait"
    BY <1>0, <1>3, ExecuteFacts
  <2>2. ~cut'
    BY <1>3 DEF ble_bridge_execute
  <2> QED
    BY <2>1, <2>2 DEF CutHeld
<1>4. CASE Connect
  <2>1. at # "idle" /\ at \notin Writing /\ at' # "unsub_wait" /\ UNCHANGED cut
    BY <1>4 DEF Connect, Writing, Unwrites, history, GoTo, Finish, execute_connect, ScanTarget,
       ConnectArm, ScanStart, ConnectWait, ScanStop, ScanCancel, ScanJudge, AdvCheck,
       start_advertising, AdvFlag, AdvJudge, DropArm, Drop, DropWait
  <2> QED
    BY <1>1, <2>1
<1>5. CASE Security
  <2>1. at # "idle" /\ at \notin Writing /\ at' # "unsub_wait" /\ UNCHANGED cut
    BY <1>5 DEF Security, Writing, Unwrites, history, GoTo, Finish, execute_set_security, SecArm,
       SecLook, SecAsk, SecWait, SecJudge
  <2> QED
    BY <1>1, <2>1
<1>6. CASE GattCall
  <2>1. /\ at \in {"gatt_call", "unsub_call", "ccc_call"} /\ UNCHANGED cut
        /\ at' = "unsub_wait" => req' = "ccc"
        /\ at = "ccc_call" /\ active = NoConn => at' = "idle" /\ outcome' = "fail"
    BY <1>6 DEF GattCall, GoTo, Finish, history
  <2> QED
    BY <2>1 DEF CutHeld
<1>7. CASE GattWait
  <2>1. /\ at \in {"gatt_wait", "unsub_wait", "ccc_wait"}
        /\ UNCHANGED <<cut, active, ccc_torn_down>>
        /\ at' # "unsub_wait"
        /\ at = "unsub_wait" /\ sem["ccc"] = 1 => at' = "ccc_rearm"
        /\ at = "ccc_wait" /\ sem["ccc"] = 1 => at' = "ccc_judge"
    BY <1>7 DEF GattWait, GoTo, Finish, connVars, flagVars, history
  <2> QED
    BY <2>1 DEF CutHeld
<1>8. CASE SemReset
  <2>1. /\ at \in {"gatt_reset", "ccc_arm", "ccc_rearm"} /\ at' # "unsub_wait"
        /\ at = "ccc_rearm" => at' = "ccc_call"
        /\ UNCHANGED <<cut, active>>
    BY <1>0, <1>8 DEF SemReset, GoTo, connVars, history, StepTypes, Subscribing
  <2> QED
    BY <2>1 DEF CutHeld
<1>9. CASE CccJudge
  <2>1. /\ at = "ccc_judge" /\ at' \in {"idle", "subscribed"} /\ UNCHANGED cut
        /\ ccc_torn_down => at' = "idle" /\ outcome' = "fail"
    BY <1>9 DEF CccJudge, GoTo, Finish, history
  <2> QED
    BY <2>1 DEF CutHeld
<1>10. CASE \/ execute_data_exchange \/ GattClear \/ GattJudge \/ Resolved \/ Subscribed
            \/ await_notification \/ Capture \/ CaptureWait
  <2>1. at # "idle" /\ at \notin Writing /\ at' # "unsub_wait" /\ UNCHANGED cut
    BY <1>0, <1>10 DEF Writing, Unwrites, history, GoTo, Finish, Operation, execute_data_exchange,
       GattClear, GattJudge, Resolved, Subscribed, await_notification, Capture, CaptureWait,
       StepTypes, Subscribing
  <2> QED
    BY <1>1, <2>1
<1>11. CASE Reset
  <2>1. at # "idle" /\ at \notin Writing /\ at' # "unsub_wait" /\ UNCHANGED cut
    BY <1>11 DEF Reset, Writing, Unwrites, history, GoTo, Finish, ResetScan, ResetAdv, ResetConn,
       ResetDrop, ResetWait, Unbond, Unpair, UnbondWait, Unbonded
  <2> QED
    BY <1>1, <2>1
<1>12. CASE UNCHANGED vars
  BY <1>12 DEF vars, connVars, flagVars, stepVars, hostVars, history, CutHeld
<1> QED
  BY <1>2, <1>3, <1>4, <1>5, <1>6, <1>7, <1>8, <1>9, <1>10, <1>11, <1>12 DEF Next, Exchange

\* No step whose link goes while it waits passes or times out: it ends with disconnected, and
\* one whose link goes under its CCC write with fail.
THEOREM LossIsSaid == Spec => []LossIsNamed
<1>1. Init => LossHeld /\ CutHeld
  BY DEF Init, LossHeld, CutHeld
<1>2. Types /\ LossHeld /\ [Next]_vars => LossHeld'
  BY LossStep
<1>3. Types /\ CutHeld /\ [Next]_vars => CutHeld'
  BY CutStep
<1>4. LossHeld /\ CutHeld => LossIsNamed
  BY DEF LossHeld, CutHeld, LossIsNamed, Waits
<1> QED
  BY <1>1, <1>2, <1>3, <1>4, TypesHold, PTL DEF Spec

----------------------------------------------------------------------------
(* The reset of a Hello.                                                   *)

\* Nothing is on the air, nothing is being made, and only the link the bridge knows is left;
\* and that one is gone too.
Still ==
    /\ pending = NoConn /\ ~advertising /\ ~on_air /\ ~scanning /\ rx = "idle"
    /\ \A c \in Conns \ {active} : link[c] = "free"
Gone == Still /\ active = NoConn

\* What a reset has stopped at each of its places; the wait for the disconnect is over when
\* the link is gone.
Halts ==
    /\ at = "reset_adv" => ~scanning
    /\ at = "reset_conn" => ~scanning /\ ~on_air
    /\ at \in {"reset_drop", "reset_wait"} /\ ~late => Still
    /\ at = "reset_wait" /\ ~late /\ sem["disconn"] = 1 => active = NoConn
    /\ at \in Unbonding /\ step.kind = "reset" /\ ~late /\ ~refused => Gone
    /\ fresh => at = "idle"
    /\ fresh /\ ~late /\ ~refused => Gone
    /\ at \in Stopping => step.kind = "reset"

\* What is still stays so, whatever the radio does.
LEMMA CallbackStill ==
  ASSUME Types, Still, BtRx
  PROVE  /\ Still' /\ (active = NoConn => active' = NoConn)
         /\ sem'["disconn"] = 1 => sem["disconn"] = 1 \/ active' = NoConn
<1> USE LinkAssumption
<1>0. /\ SemTypes /\ HostTypes /\ active \in Conns \cup {NoConn}
      /\ link \in [Conns -> {"free", "creating", "cancelling", "up", "closing"}]
  BY DEF Types, ConnTypes, AirTypes
<1> DEFINE Goal == /\ Still' /\ (active = NoConn => active' = NoConn)
                   /\ sem'["disconn"] = 1 => sem["disconn"] = 1 \/ active' = NoConn
<1>1. ASSUME NEW c \in Conns, NEW err \in BOOLEAN, Created(c, err) PROVE Goal
  <2>1. c = active /\ active # NoConn
    BY <1>1 DEF Created, Still
  <2>2. active' = active /\ advertising' = FALSE
    BY <1>1, <2>1 DEF Created, connected_cb
  <2>3. UNCHANGED <<pending, on_air, scanning, rx>>
    BY <1>1 DEF Created, connected_cb, rxVars
  <2>4. \A d \in Conns \ {active'} : link'[d] = "free"
    BY <1>0, <1>1, <2>1, <2>2 DEF Created, Still
  <2>5. sem'["disconn"] = sem["disconn"]
    BY <1>0, <1>1, GiveFacts DEF Created, connected_cb, Sems
  <2> QED
    BY <2>1, <2>2, <2>3, <2>4, <2>5 DEF Still
<1>2. ASSUME NEW c \in Conns, NEW p \in Peers, Incoming(c, p) PROVE Goal
  BY <1>2 DEF Incoming, Still
<1>3. ASSUME NEW c \in Conns, disconnected_cb(c) PROVE Goal
  <2>1. c = active /\ active' = NoConn
    BY <1>3 DEF disconnected_cb, Still
  <2>2. UNCHANGED <<pending, advertising, on_air, scanning, rx>>
    BY <1>3 DEF disconnected_cb, rxVars
  <2>3. \A d \in Conns : link'[d] = "free"
    BY <1>0, <1>3, <2>1 DEF disconnected_cb, Still
  <2> QED
    BY <2>1, <2>2, <2>3 DEF Still
<1>4. CASE security_changed_cb
  BY <1>0, <1>4, GiveFacts DEF security_changed_cb, connVars, rxVars, airVars, Still, Sems
<1>5. CASE Answered
  <2>1. sem'["disconn"] = sem["disconn"]
    BY <1>0, <1>5, GiveFacts DEF Answered, Sems, HostTypes
  <2> QED
    BY <1>5, <2>1 DEF Answered, connVars, rxVars, airVars, Still
<1>6. CASE notify_cb
  BY <1>0, <1>6, GiveFacts DEF notify_cb, connVars, flagVars, rxVars, airVars, Still, Sems
<1>7. CASE ScanStopped \/ ConnCreate \/ \E p \in Peers : scan_cb(p)
  BY <1>7 DEF ScanStopped, ConnCreate, scan_cb, Still
<1>8. CASE PeerSecurity
  BY <1>8 DEF PeerSecurity, connVars, flagVars, rxVars, airVars, Still
<1> QED
  BY <1>1, <1>2, <1>3, <1>4, <1>5, <1>6, <1>7, <1>8 DEF BtRx

\* No callback turns scanning or advertising on, or touches the history of a reset.
LEMMA CallbackQuiet ==
  ASSUME BtRx
  PROVE  (scanning' => scanning) /\ (on_air' => on_air) /\ UNCHANGED <<late, refused, fresh>>
<1>1. CASE \E c \in Conns, err \in BOOLEAN : Created(c, err)
  BY <1>1 DEF Created, history
<1>2. CASE \E c \in Conns, p \in Peers : Incoming(c, p)
  BY <1>2 DEF Incoming
<1>3. CASE \E c \in Conns : disconnected_cb(c)
  BY <1>3 DEF disconnected_cb
<1>4. CASE PeerSecurity \/ security_changed_cb \/ Answered \/ notify_cb
  <2>1. UNCHANGED <<scanning, on_air, late, refused, fresh>>
    BY <1>4 DEF PeerSecurity, security_changed_cb, Answered, notify_cb, airVars, history
  <2> QED
    BY <2>1
<1>5. CASE ScanStopped \/ ConnCreate \/ \E p \in Peers : scan_cb(p)
  BY <1>5 DEF ScanStopped, ConnCreate, scan_cb, airVars, history
<1> QED
  BY <1>1, <1>2, <1>3, <1>4, <1>5 DEF BtRx

\* Other steps neither enter a reset nor run when one has just ended.
LEMMA OtherPlaces ==
  ASSUME StepTypes, Connect \/ Security \/ Exchange
  PROVE  at # "idle" /\ at' \notin Stopping \cup Unbonding /\ UNCHANGED fresh
<1>1. CASE Connect
  BY <1>1 DEF Connect, Stopping, Unbonding, history, GoTo, Finish, execute_connect, ScanTarget,
     ConnectArm, ScanStart, ConnectWait, ScanStop, ScanCancel, ScanJudge, AdvCheck,
     start_advertising, AdvFlag, AdvJudge, DropArm, Drop, DropWait
<1>2. CASE Security
  BY <1>2 DEF Security, Stopping, Unbonding, history, GoTo, Finish, execute_set_security, SecArm,
    SecLook, SecAsk, SecWait, SecJudge
<1>3. CASE Exchange
  <2>1. at \in Subscribing => step.kind \in {"await", "capture"}
    BY DEF StepTypes
  <2>2. CASE execute_data_exchange \/ GattClear \/ SemReset \/ GattCall \/ GattWait
    BY <2>1, <2>2 DEF Stopping, Unbonding, Subscribing, history, GoTo, Finish, Operation,
      execute_data_exchange, GattClear, SemReset, GattCall, GattWait
  <2>3. CASE GattJudge \/ Resolved
    BY <2>1, <2>3 DEF Stopping, Unbonding, Subscribing, history, GoTo, Finish, Operation,
      GattJudge, Resolved
  <2>4. CASE CccJudge \/ Subscribed
    BY <2>1, <2>4 DEF Stopping, Unbonding, Subscribing, history, GoTo, Finish, Operation,
      CccJudge, Subscribed
  <2>5. CASE await_notification \/ Capture \/ CaptureWait
    BY <2>1, <2>5 DEF Stopping, Unbonding, Subscribing, history, GoTo, Finish, Operation,
      await_notification, Capture, CaptureWait
  <2> QED
    BY <1>3, <2>2, <2>3, <2>4, <2>5 DEF Exchange
<1> QED
  BY <1>1, <1>2, <1>3

LEMMA HaltsStep ==
  ASSUME Halts, Types, [Next]_vars
  PROVE  Halts'
<1> USE LinkAssumption
<1>0. SemTypes /\ StepTypes /\ HostTypes
  BY DEF Types
<1>1. CASE BtRx
  <2>1. /\ UNCHANGED <<at, step, late, refused, fresh>>
        /\ (scanning' => scanning) /\ (on_air' => on_air)
    BY <1>0, <1>1, CallbackFacts, CallbackQuiet DEF stepVars
  <2>2. Still => /\ Still' /\ (active = NoConn => active' = NoConn)
                 /\ sem'["disconn"] = 1 => sem["disconn"] = 1 \/ active' = NoConn
    BY <1>1, CallbackStill
  <2>3. Gone => Gone'
    BY <2>2 DEF Gone
  <2> QED
    BY <2>1, <2>2, <2>3 DEF Halts
<1>2. CASE ble_bridge_execute
  <2>1. /\ at' \in {"adv_start", "connect", "exchange", "reset_scan", "secure", "unbond"}
        /\ step'.kind = "reset" <=> at' = "reset_scan"
    BY <1>0, <1>2, ExecuteFacts
  <2>2. ~fresh'
    BY <1>2 DEF ble_bridge_execute
  <2> QED
    BY <2>1, <2>2 DEF Halts, Stopping, Unbonding
<1>3. CASE Connect \/ Security \/ Exchange
  <2>1. at # "idle" /\ at' \notin Stopping \cup Unbonding /\ UNCHANGED fresh
    BY <1>0, <1>3, OtherPlaces
  <2>2. ~fresh'
    BY <2>1 DEF Halts
  <2> QED
    BY <2>1, <2>2 DEF Halts, Stopping
<1>4. CASE ResetScan
  BY <1>4 DEF ResetScan, GoTo, Halts, Stopping, Unbonding, history
<1>5. CASE ResetAdv
  BY <1>5 DEF ResetAdv, GoTo, Halts, Stopping, Unbonding, history
<1>6. CASE ResetConn
  <2>1. /\ at = "reset_conn" /\ step.kind = "reset" /\ ~fresh /\ ~scanning /\ ~on_air
        /\ UNCHANGED <<step, fresh, scanning, on_air, active>>
    BY <1>6 DEF ResetConn, GoTo, Halts, Stopping
  <2>2. at' \in {"reset_drop", "unbond"} /\ (at' = "unbond" => active' = NoConn)
    BY <1>6 DEF ResetConn, GoTo
  <2>3. ASSUME ~late' PROVE Still'
    <3>1. ~Unfinished /\ \A c \in Conns \ {active} : link[c] \notin {"up", "closing"}
      BY <1>6, <2>3 DEF ResetConn
    <3>2. rx = "idle" /\ \A c \in Conns \ {active} : link[c] = "free"
      BY <3>1 DEF Unfinished, Types, AirTypes
    <3>3. pending' = NoConn /\ advertising' = FALSE /\ UNCHANGED rx
      BY <1>6 DEF ResetConn, release_pending_conn, rxVars
    <3>4. link' = link \/ (pending \in Conns /\ link' = Disconnected(pending))
      BY <1>6 DEF ResetConn, release_pending_conn, Types, ConnTypes
    <3>5. \A c \in Conns \ {active} : link'[c] = "free"
      BY <3>2, <3>4, DisconnectedFacts DEF Types
    <3> QED
      BY <2>1, <3>2, <3>3, <3>5 DEF Still
  <2> QED
    BY <2>1, <2>2, <2>3 DEF Halts, Stopping, Unbonding, Gone
<1>7. CASE ResetDrop
  <2>1. /\ at = "reset_drop" /\ step.kind = "reset" /\ ~fresh
        /\ UNCHANGED <<step, fresh, late, active>>
    BY <1>7 DEF ResetDrop, GoTo, Halts, Stopping, connVars, history
  <2>2. at' \in {"reset_wait", "unbond"} /\ (at' = "unbond" => active' = NoConn \/ refused')
    BY <1>7 DEF ResetDrop, GoTo, connVars
  <2>3. sem'["disconn"] = 0
    BY <1>0, <1>7, ResetFacts DEF ResetDrop, Sems
  <2>4. Still => Still'
    <3>1. UNCHANGED <<pending, advertising, on_air, scanning, rx, active>>
      BY <1>7 DEF ResetDrop, connVars, flagVars, rxVars
    <3>2. link' = link \/ (active \in Conns /\ link' = Disconnected(active))
      BY <1>7 DEF ResetDrop, Types, ConnTypes
    <3>3. \A c \in Conns \ {active} : link'[c] = link[c]
      BY <3>2, DisconnectedFacts DEF Types
    <3> QED
      BY <3>1, <3>3 DEF Still
  <2> QED
    BY <2>1, <2>2, <2>3, <2>4 DEF Halts, Stopping, Unbonding, Gone
<1>8. CASE ResetWait
  <2>1. /\ at = "reset_wait" /\ at' = "unbond" /\ step.kind = "reset" /\ ~fresh
        /\ UNCHANGED <<step, fresh, refused>> /\ (Still => Still') /\ UNCHANGED active
    BY <1>8 DEF ResetWait, GoTo, Halts, Stopping, connVars, flagVars, rxVars, airVars, Still
  <2>2. ~late' => ~late /\ sem["disconn"] = 1
    BY <1>8 DEF ResetWait
  <2> QED
    BY <2>1, <2>2 DEF Halts, Stopping, Unbonding, Gone
<1>9. CASE Unbond \/ UnbondWait
  <2>1. /\ at \in Unbonding /\ at' \in Unbonding /\ ~fresh
        /\ UNCHANGED <<step, fresh, late, refused>> /\ (Gone => Gone')
    BY <1>9 DEF Unbond, UnbondWait, Unbonding, GoTo, Halts, connVars, flagVars, rxVars, airVars,
      history, Still, Gone
  <2> QED
    BY <2>1 DEF Halts, Stopping, Unbonding
<1>10. CASE Unpair
  <2>1. /\ at \in Unbonding /\ at' \in {"unbonded", "unbond_wait", "idle"} /\ ~fresh
        /\ UNCHANGED <<step, fresh, late, refused>>
    BY <1>10 DEF Unpair, Unbonding, GoTo, Finish, Halts, history
  <2>2. Gone => Gone'
    BY <1>10 DEF Unpair, Unpaired, connVars, flagVars, rxVars, Still, Gone
  <2> QED
    BY <2>1, <2>2 DEF Halts, Stopping, Unbonding
<1>11. CASE Unbonded
  <2>1. /\ at \in Unbonding /\ at' = "idle" /\ ~fresh /\ UNCHANGED <<step, late, refused>>
        /\ fresh' = (step.kind = "reset") /\ (Gone => Gone')
    BY <1>11 DEF Unbonded, Unbonding, Finish, Halts, connVars, rxVars, airVars, Still, Gone
  <2> QED
    BY <2>1 DEF Halts, Stopping, Unbonding
<1>12. CASE UNCHANGED vars
  BY <1>12 DEF vars, connVars, flagVars, stepVars, rxVars, airVars, history, Halts, Still, Gone
<1> QED
  BY <1>1, <1>2, <1>3, <1>4, <1>5, <1>6, <1>7, <1>8, <1>9, <1>10, <1>11, <1>12 DEF Next, Reset

\* After the reset of a Hello nothing is connected, and nothing the last study began can
\* connect any more.
THEOREM ResetStops == Spec => []ResetIsHard
<1>1. Init => Halts
  BY DEF Init, Halts, Stopping, Unbonding
<1>2. Types /\ Halts /\ [Next]_vars => Halts'
  BY HaltsStep
<1>3. Halts => ResetIsHard
  BY LinkAssumption DEF Halts, ResetIsHard, Gone, Still
<1> QED
  BY <1>1, <1>2, <1>3, TypesHold, PTL DEF Spec

----------------------------------------------------------------------------
(* A connect step passes with the peer it is for.                          *)

\* Unless a device it is not for came in, what scan_cb has matched, what is being made, and what
\* is connected while a step scans is what the step asks for.
Meant ==
    ~intruded =>
        /\ rx # "idle" => Wanted(step.target, matched)
        /\ \A c \in Conns : link[c] \in {"creating", "cancelling"} => Fits(c)
        /\ at \in {"scan_arm", "conn_arm", "scan_start", "scan_wait", "scan_judge"}
             /\ active # NoConn => Fits(active)

\* A call to disconnect makes no connection.
LEMMA NothingMade ==
  ASSUME AirTypes, NEW c \in Conns, NEW d \in Conns,
         Disconnected(c)[d] \in {"creating", "cancelling"}
  PROVE  link[d] \in {"creating", "cancelling"}
<1>1. CASE c = d
  BY <1>1, DisconnectedFacts DEF AirTypes
<1>2. CASE c # d
  BY <1>2, DisconnectedFacts
<1> QED
  BY <1>1, <1>2

\* A step of the dispatch thread makes no connection and touches no peer.
LEMMA DispatchMakes ==
  ASSUME AirTypes, ConnTypes, Connect \/ Security \/ Exchange \/ Reset
  PROVE  /\ UNCHANGED <<active, rx, matched, peer, step, intruded>>
         /\ \A c \in Conns : link'[c] \in {"creating", "cancelling"}
                               => link[c] \in {"creating", "cancelling"}
<1>1. CASE ScanCancel \/ ScanJudge \/ ResetConn
  <2>1. UNCHANGED <<active, rx, matched, peer, step, intruded>>
    BY <1>1 DEF ScanCancel, ScanJudge, ResetConn, rxVars, history, GoTo, Finish
  <2>2. link' = link \/ (pending \in Conns /\ link' = Disconnected(pending))
    BY <1>1 DEF ScanCancel, ScanJudge, ResetConn, release_pending_conn, ConnTypes
  <2> QED
    BY <2>1, <2>2, NothingMade
<1>2. CASE Drop \/ ResetDrop \/ Unpair
  <2>1. UNCHANGED <<active, rx, matched, peer, step, intruded>>
    BY <1>2 DEF Drop, ResetDrop, Unpair, connVars, rxVars, history, GoTo, Finish
  <2>2. link' = link \/ (active \in Conns /\ link' = Disconnected(active))
    BY <1>2 DEF Drop, ResetDrop, Unpair, Unpaired, ConnTypes
  <2> QED
    BY <2>1, <2>2, NothingMade
<1>3. CASE \/ execute_connect \/ ScanTarget \/ ConnectArm \/ ScanStart \/ ConnectWait
           \/ ScanStop \/ AdvCheck \/ start_advertising \/ AdvFlag \/ AdvJudge \/ DropArm
           \/ DropWait
  BY <1>3 DEF execute_connect, ScanTarget, ConnectArm, ScanStart, ConnectWait, ScanStop, AdvCheck,
    start_advertising, AdvFlag, AdvJudge, DropArm, DropWait, connVars, rxVars, airVars, history,
    GoTo, Finish
<1>4. CASE \/ execute_set_security \/ SecArm \/ SecLook \/ SecAsk \/ SecWait \/ SecJudge
  BY <1>4 DEF execute_set_security, SecArm, SecLook, SecAsk, SecWait, SecJudge, connVars, rxVars,
    airVars, history, GoTo, Finish
<1>5. CASE \/ execute_data_exchange \/ GattClear \/ SemReset \/ GattCall \/ GattWait \/ GattJudge
           \/ Resolved \/ CccJudge \/ Subscribed \/ await_notification \/ Capture \/ CaptureWait
  BY <1>5 DEF execute_data_exchange, GattClear, SemReset, GattCall, GattWait, GattJudge,
    Resolved, CccJudge, Subscribed, await_notification, Capture, CaptureWait, connVars, rxVars,
    airVars, history, GoTo, Finish
<1>6. CASE \/ ResetScan \/ ResetAdv \/ ResetWait \/ Unbond \/ UnbondWait \/ Unbonded
  BY <1>6 DEF ResetScan, ResetAdv, ResetWait, Unbond, UnbondWait, Unbonded, connVars, rxVars,
    airVars, history, GoTo, Finish
<1> QED
  BY <1>1, <1>2, <1>3, <1>4, <1>5, <1>6 DEF Connect, Security, Exchange, Reset

LEMMA MeantStep ==
  ASSUME Meant, Types, [Next]_vars
  PROVE  Meant'
<1> USE LinkAssumption
<1>0. /\ AirTypes /\ ConnTypes /\ StepTypes /\ SemTypes /\ HostTypes
      /\ link \in [Conns -> {"free", "creating", "cancelling", "up", "closing"}]
      /\ peer \in [Conns -> Peers]
  BY DEF Types, AirTypes
<1> DEFINE Scans == {"scan_arm", "conn_arm", "scan_start", "scan_wait", "scan_judge"}
<1>1. ASSUME NEW c \in Conns, NEW err \in BOOLEAN, Created(c, err) PROVE Meant'
  <2>1. UNCHANGED <<at, step, rx, matched, peer, intruded>>
    BY <1>1 DEF Created, stepVars, rxVars, history
  <2>2. link[c] \in {"creating", "cancelling"} /\ active' \in {active, c}
    BY <1>1 DEF Created, connected_cb
  <2>3. \A d \in Conns : link'[d] \in {"creating", "cancelling"}
                           => link[d] \in {"creating", "cancelling"}
    BY <1>0, <1>1 DEF Created
  <2> QED
    BY <1>0, <2>1, <2>2, <2>3 DEF Meant, Fits
<1>2. ASSUME NEW c \in Conns, NEW p \in Peers, Incoming(c, p) PROVE Meant'
  <2>1. /\ c \in Unused /\ UNCHANGED <<at, step, rx, matched>> /\ active' \in {active, c}
        /\ intruded' = (intruded \/ ~Wanted(step.target, p))
    BY <1>2 DEF Incoming, connected_cb, stepVars, rxVars
  <2>2. c \in Conns /\ c # active
    BY <2>1 DEF Unused
  <2>3. /\ peer'[c] = p /\ link'[c] = "up"
        /\ \A d \in Conns \ {c} : peer'[d] = peer[d] /\ link'[d] = link[d]
    BY <1>0, <1>2, <2>2 DEF Incoming
  <2> QED
    BY <1>0, <2>1, <2>2, <2>3 DEF Meant, Fits, Wanted, ConnTypes
<1>3. ASSUME NEW c \in Conns, disconnected_cb(c) PROVE Meant'
  <2>1. UNCHANGED <<at, step, rx, matched, peer, intruded>> /\ active' \in {active, NoConn}
    BY <1>3 DEF disconnected_cb, stepVars, rxVars
  <2>2. \A d \in Conns : link'[d] \in {"creating", "cancelling"}
                           => link[d] \in {"creating", "cancelling"}
    BY <1>0, <1>3 DEF disconnected_cb
  <2> QED
    BY <2>1, <2>2 DEF Meant, Fits
<1>4. CASE PeerSecurity \/ security_changed_cb \/ Answered \/ notify_cb \/ ScanStopped
  <2>1. /\ UNCHANGED <<at, step, matched, active, link, peer, intruded>>
        /\ (rx = "idle" => rx' = "idle")
    BY <1>4 DEF PeerSecurity, security_changed_cb, Answered, notify_cb, ScanStopped, connVars,
      stepVars, rxVars, airVars, history
  <2> QED
    BY <2>1 DEF Meant, Fits
<1>5. ASSUME NEW p \in Peers, scan_cb(p) PROVE Meant'
  <2>1. /\ UNCHANGED <<at, step, active, link, peer>> /\ matched' = p
        /\ intruded' = (intruded \/ ~Wanted(step.target, p))
    BY <1>5 DEF scan_cb, stepVars, airVars
  <2> QED
    BY <2>1 DEF Meant, Fits
<1>6. CASE ConnCreate
  <2>1. UNCHANGED <<at, step, matched, active, intruded>> /\ rx = "creating" /\ rx' = "idle"
    BY <1>6 DEF ConnCreate, stepVars, history
  <2>2. \/ UNCHANGED <<link, peer>>
        \/ \E c \in Unused : /\ link' = [link EXCEPT ![c] = "creating"]
                             /\ peer' = [peer EXCEPT ![c] = matched]
    BY <1>6 DEF ConnCreate
  <2>3. CASE UNCHANGED <<link, peer>>
    BY <2>1, <2>3 DEF Meant, Fits
  <2>4. ASSUME NEW c \in Unused, link' = [link EXCEPT ![c] = "creating"],
               peer' = [peer EXCEPT ![c] = matched]
        PROVE  Meant'
    <3>1. c \in Conns /\ c # active
      BY DEF Unused
    <3>2. peer'[c] = matched /\ \A d \in Conns \ {c} : peer'[d] = peer[d] /\ link'[d] = link[d]
      BY <1>0, <2>4, <3>1
    <3> QED
      BY <1>0, <2>1, <3>1, <3>2 DEF Meant, Fits, ConnTypes
  <2> QED
    BY <2>2, <2>3, <2>4
<1>7. CASE ble_bridge_execute
  <2>1. /\ at' \notin Scans /\ UNCHANGED <<rx, matched, link, peer>>
        /\ intruded' = \E p \in Underway : ~Wanted(step'.target, p)
    BY <1>0, <1>7, ExecuteFacts DEF ble_bridge_execute, rxVars, airVars
  <2>2. /\ rx # "idle" => matched \in Underway
        /\ \A c \in Conns : link[c] \in {"creating", "cancelling"} => peer[c] \in Underway
    BY DEF Underway, Types, RxTypes
  <2> QED
    BY <2>1, <2>2 DEF Meant, Fits
<1>8. CASE Connect \/ Security \/ Exchange \/ Reset
  <2>1. /\ UNCHANGED <<active, rx, matched, peer, step, intruded>>
        /\ \A c \in Conns : link'[c] \in {"creating", "cancelling"}
                              => link[c] \in {"creating", "cancelling"}
    BY <1>0, <1>8, DispatchMakes
  <2>2. at' \in Scans => active = NoConn \/ at \in Scans
    <3>1. CASE Connect
      BY <3>1 DEF Connect, GoTo, Finish, execute_connect, ScanTarget, ConnectArm, ScanStart,
         ConnectWait, ScanStop, ScanCancel, ScanJudge, AdvCheck, start_advertising, AdvFlag,
         AdvJudge, DropArm, Drop, DropWait
    <3>2. CASE Security
      BY <3>2 DEF Security, GoTo, Finish, execute_set_security, SecArm, SecLook, SecAsk, SecWait,
        SecJudge
    <3>3. CASE Exchange
      <4>1. at \in Subscribing => step.kind \in {"await", "capture"}
        BY <1>0 DEF StepTypes
      <4> QED
        BY <3>3, <4>1 DEF Exchange, Subscribing, GoTo, Finish, Operation, execute_data_exchange,
          GattClear, SemReset, GattCall, GattWait, GattJudge, Resolved, CccJudge, Subscribed,
          await_notification, Capture, CaptureWait
    <3>4. CASE Reset
      BY <3>4 DEF Reset, GoTo, Finish, ResetScan, ResetAdv, ResetConn, ResetDrop, ResetWait,
        Unbond, Unpair, UnbondWait, Unbonded
    <3> QED
      BY <1>8, <3>1, <3>2, <3>3, <3>4
  <2> QED
    BY <2>1, <2>2 DEF Meant, Fits
<1>9. CASE UNCHANGED vars
  BY <1>9 DEF vars, connVars, stepVars, rxVars, airVars, history, Meant, Fits
<1> QED
  BY <1>1, <1>2, <1>3, <1>4, <1>5, <1>6, <1>7, <1>8, <1>9 DEF Next, BtRx

\* A connect step for one peer that passes has that peer: one as a peripheral whoever comes in,
\* one as a central unless a device it is not for came in or was still being connected to.
THEOREM ConnectsToItsPeer == Spec => PassNamesTarget
<1> USE LinkAssumption
<1> DEFINE Passes == at # "idle" /\ at' = "idle" /\ outcome' = "pass"
                     /\ step.kind \in {"central", "peripheral"}
           Named == \/ step.target = Anyone
                    \/ active # NoConn /\ peer[active] = step.target
                    \/ step.kind = "central" /\ intruded
<1>1. Init => Meant
  BY DEF Init, Meant
<1>2. Types /\ Meant /\ [Next]_vars => Meant'
  BY MeantStep
<1>3. ASSUME Types, Meant, [Next]_vars PROVE [Passes => Named]_vars
  <2> SUFFICES ASSUME Passes PROVE Named
    OBVIOUS
  <2>1. SemTypes /\ HostTypes /\ StepTypes /\ at \in Connecting
    <3>1. SemTypes /\ HostTypes /\ StepTypes
      BY <1>3 DEF Types
    <3> QED
      BY <3>1 DEF StepTypes
  <2>2. ~BtRx /\ ~ble_bridge_execute
    BY <2>1, CallbackFacts, ExecuteFacts DEF stepVars
  <2>3. ~UNCHANGED vars
    BY DEF vars, stepVars
  <2>4. ~Security /\ ~Exchange /\ ~Reset
    <3>1. ~Security
      BY <2>1 DEF Connecting, Scanning, Security, execute_set_security, SecArm, SecLook, SecAsk,
         SecWait, SecJudge
    <3>2. ~Exchange
      BY <2>1 DEF Connecting, Scanning, Exchange, execute_data_exchange, GattClear, SemReset,
         GattCall, GattWait, GattJudge, Resolved, CccJudge, Subscribed, await_notification,
         Capture, CaptureWait
    <3>3. ~Reset
      BY <2>1 DEF Connecting, Scanning, Reset, ResetScan, ResetAdv, ResetConn, ResetDrop, ResetWait,
        Unbond, Unpair, UnbondWait, Unbonded
    <3> QED
      BY <3>1, <3>2, <3>3
  <2>5. \/ at = "connect" /\ active # NoConn /\ Fits(active)
        \/ at = "scan_judge" /\ active # NoConn /\ step.kind = "central"
        \/ at = "adv_judge" /\ (step.target = Anyone \/ (active # NoConn /\ Fits(active)))
    <3>1. Connect
      BY <1>3, <2>2, <2>3, <2>4 DEF Next
    <3>2. ASSUME execute_connect PROVE at = "connect" /\ active # NoConn /\ Fits(active)
      BY <3>2 DEF execute_connect, GoTo, Finish
    <3>3. ASSUME ScanJudge PROVE at = "scan_judge" /\ active # NoConn /\ step.kind = "central"
      BY <2>1, <3>3 DEF ScanJudge, Finish, StepTypes, Scanning
    <3>4. ASSUME AdvJudge
          PROVE  at = "adv_judge" /\ (step.target = Anyone \/ (active # NoConn /\ Fits(active)))
      BY <3>4 DEF AdvJudge, GoTo, Finish
    <3>5. ~ScanTarget /\ ~ConnectArm /\ ~ScanStop /\ ~AdvCheck /\ ~DropArm /\ ~Drop
      BY DEF ScanTarget, ConnectArm, ScanStop, AdvCheck, DropArm, Drop, GoTo
    <3>6. ~ScanStart /\ ~ConnectWait /\ ~ScanCancel /\ ~start_advertising /\ ~AdvFlag /\ ~DropWait
      BY DEF ScanStart, ConnectWait, ScanCancel, start_advertising, AdvFlag, DropWait, GoTo, Finish
    <3> QED
      BY <3>1, <3>2, <3>3, <3>4, <3>5, <3>6 DEF Connect
  <2> QED
    BY <1>3, <2>5 DEF Meant, Fits, Wanted
<1> QED
  BY <1>1, <1>2, <1>3, TypesHold, PTL DEF Spec, PassNamesTarget

----------------------------------------------------------------------------
(* The CCC write whose parameters the reset zeroes.                        *)

\* The link the bridge knows is up or on its way down.
Live == active # NoConn => link[active] \in {"up", "closing"}

\* What a request to disconnect leaves of it.
LEMMA DisconnectedLive ==
  ASSUME AirTypes, NEW c \in Conns, NEW d \in Conns, link[d] \in {"up", "closing"}
  PROVE  /\ Disconnected(c)[d] \in {"up", "closing"}
         /\ link[d] = "closing" \/ c = d => Disconnected(c)[d] = "closing"
<1>1. CASE c = d
  BY <1>1, DisconnectedFacts
<1>2. CASE c # d
  BY <1>2, DisconnectedFacts
<1> QED
  BY <1>1, <1>2

\* No step but the disconnect takes the active link from the bridge, and none brings a link
\* that is closing up again.
Stays ==
    /\ UNCHANGED active
    /\ active # NoConn => /\ link'[active] \in {"up", "closing"}
                          /\ link[active] = "closing" => link'[active] = "closing"

LEMMA DispatchStays ==
  ASSUME Types, Live, ble_bridge_execute \/ Connect \/ Security \/ Exchange \/ Reset
  PROVE  Stays
<1> USE LinkAssumption
<1>0. /\ AirTypes /\ active \in Conns \cup {NoConn} /\ pending \in Conns \cup {NoConn}
      /\ active # NoConn => active \in Conns
  BY DEF Types, ConnTypes
<1>1. ASSUME UNCHANGED <<active, link>> PROVE Stays
  BY <1>1 DEF Stays, Live
<1>2. ASSUME NEW c \in Conns, link' = Disconnected(c), UNCHANGED active PROVE Stays
  BY <1>0, <1>2, DisconnectedLive DEF Stays, Live
<1>3. CASE ble_bridge_execute
  BY <1>1, <1>3 DEF ble_bridge_execute, connVars, airVars
<1>4. CASE Connect
  <2>1. CASE ScanCancel \/ ScanJudge
    BY <1>0, <1>1, <1>2, <2>1 DEF ScanCancel, ScanJudge, release_pending_conn
  <2>2. CASE Drop
    BY <1>0, <1>1, <1>2, <2>2 DEF Drop, connVars
  <2>3. CASE \/ execute_connect \/ ScanTarget \/ ConnectArm \/ ScanStart \/ ConnectWait
             \/ ScanStop \/ AdvCheck \/ start_advertising \/ AdvFlag \/ AdvJudge \/ DropArm
           \/ DropWait
    BY <1>1, <2>3 DEF execute_connect, ScanTarget, ConnectArm, ScanStart, ConnectWait, ScanStop,
       AdvCheck, start_advertising, AdvFlag, AdvJudge, DropArm, DropWait, connVars, airVars
  <2> QED
    BY <1>4, <2>1, <2>2, <2>3 DEF Connect
<1>5. CASE Security
  BY <1>1, <1>5 DEF Security, execute_set_security, SecArm, SecLook, SecAsk, SecWait, SecJudge,
     connVars, airVars
<1>6. CASE Exchange
  BY <1>1, <1>6 DEF Exchange, execute_data_exchange, GattClear, SemReset, GattCall, GattWait,
     GattJudge, Resolved, CccJudge, Subscribed, await_notification, Capture, CaptureWait,
     connVars, airVars
<1>7. CASE Reset
  <2>1. CASE ResetConn
    BY <1>0, <1>1, <1>2, <2>1 DEF ResetConn, release_pending_conn
  <2>2. CASE ResetDrop
    BY <1>0, <1>1, <1>2, <2>2 DEF ResetDrop, connVars
  <2>3. CASE Unpair
    BY <1>0, <1>1, <1>2, <2>3 DEF Unpair, Unpaired, connVars
  <2>4. CASE ResetScan \/ ResetAdv \/ ResetWait \/ Unbond \/ UnbondWait \/ Unbonded
    BY <1>1, <2>4 DEF ResetScan, ResetAdv, ResetWait, Unbond, UnbondWait, Unbonded, connVars,
       airVars
  <2> QED
    BY <1>7, <2>1, <2>2, <2>3, <2>4 DEF Reset
<1> QED
  BY <1>3, <1>4, <1>5, <1>6, <1>7

\* A callback keeps the link, brings one up where there was none, or ends it.
LEMMA CallbackStays ==
  ASSUME Types, Live, BtRx
  PROVE  /\ UNCHANGED <<filled, at, refused>>
         /\ \/ Stays /\ req' \in {req, "none"}
            \/ active = NoConn /\ active' \in Conns /\ link'[active'] = "up" /\ UNCHANGED req
            \/ active' = NoConn /\ req' = "none"
<1> USE LinkAssumption
<1> DEFINE Goal == /\ UNCHANGED <<filled, at, refused>>
                   /\ \/ Stays /\ req' \in {req, "none"}
                      \/ /\ active = NoConn /\ active' \in Conns /\ link'[active'] = "up"
                         /\ UNCHANGED req
                      \/ active' = NoConn /\ req' = "none"
<1>0. /\ link \in [Conns -> {"free", "creating", "cancelling", "up", "closing"}]
      /\ active # NoConn => active \in Conns
  BY DEF Types, ConnTypes, AirTypes
<1>1. ASSUME NEW c \in Conns, NEW err \in BOOLEAN, Created(c, err) PROVE Goal
  <2>1. c # active /\ UNCHANGED <<filled, at, req, refused>>
    BY <1>1 DEF Created, connected_cb, Live, stepVars
  <2>2. active' = active \/ (active = NoConn /\ active' = c /\ ~err)
    BY <1>1 DEF Created, connected_cb
  <2>3. link' = [link EXCEPT ![c] = IF err THEN "free" ELSE "up"]
    BY <1>1 DEF Created
  <2> QED
    BY <1>0, <2>1, <2>2, <2>3 DEF Stays, Live
<1>2. ASSUME NEW c \in Conns, NEW p \in Peers, Incoming(c, p) PROVE Goal
  <2>1. c # active /\ UNCHANGED <<filled, at, req, refused>> /\ link' = [link EXCEPT ![c] = "up"]
    BY <1>2 DEF Incoming, connected_cb, Unused, stepVars
  <2>2. active' = active \/ (active = NoConn /\ active' = c)
    BY <1>2 DEF Incoming, connected_cb
  <2> QED
    BY <1>0, <2>1, <2>2 DEF Stays, Live
<1>3. ASSUME NEW c \in Conns, disconnected_cb(c) PROVE Goal
  <2>1. UNCHANGED <<filled, at, refused>> /\ link' = [link EXCEPT ![c] = "free"]
    BY <1>3 DEF disconnected_cb, stepVars
  <2>2. CASE c = active
    BY <1>3, <2>1, <2>2 DEF disconnected_cb
  <2>3. CASE c # active
    <3>1. UNCHANGED <<active, req>>
      BY <1>3, <2>3 DEF disconnected_cb
    <3> QED
      BY <1>0, <2>1, <2>3, <3>1 DEF Stays, Live
  <2> QED
    BY <2>2, <2>3
<1>4. CASE PeerSecurity \/ security_changed_cb \/ Answered \/ notify_cb
  <2>1. UNCHANGED <<active, link, filled, at, refused>> /\ req' \in {req, "none"}
    BY <1>4 DEF PeerSecurity, security_changed_cb, Answered, notify_cb, connVars, flagVars, airVars,
       stepVars, hostVars, history
  <2> QED
    BY <2>1 DEF Stays, Live
<1>5. CASE ScanStopped \/ \E p \in Peers : scan_cb(p)
  <2>1. UNCHANGED <<active, link, filled, at, req, refused>>
    BY <1>5 DEF ScanStopped, scan_cb, connVars, flagVars, airVars, stepVars, hostVars, history
  <2> QED
    BY <2>1 DEF Stays, Live
<1>6. CASE ConnCreate
  <2>1. UNCHANGED <<active, filled, at, req, refused>>
    BY <1>6 DEF ConnCreate, flagVars, stepVars, hostVars, history
  <2>2. link' = link \/ \E c \in Unused : link' = [link EXCEPT ![c] = "creating"]
    BY <1>6 DEF ConnCreate
  <2>3. active # NoConn => link'[active] = link[active]
    BY <1>0, <2>2 DEF Unused
  <2> QED
    BY <2>1, <2>3 DEF Stays, Live
<1> QED
  BY <1>1, <1>2, <1>3, <1>4, <1>5, <1>6 DEF BtRx

\* The stack owes an answer only on the active link, and one to zeroed parameters only from
\* the reset that zeroed them, which disconnects next, to the end of that link.
Zeroed ==
    /\ Live
    /\ req # "none" => active # NoConn
    /\ at = "unsub_call" => filled
    /\ req = "ccc" /\ ~filled => at = "reset_drop" \/ link[active] = "closing" \/ refused

LEMMA ZeroedStep ==
  ASSUME Zeroed, Types, [Next]_vars
  PROVE  Zeroed'
<1> USE LinkAssumption
<1>0. /\ Live /\ HostTypes /\ (active # NoConn => active \in Conns)
      /\ link \in [Conns -> {"free", "creating", "cancelling", "up", "closing"}]
  BY DEF Zeroed, Types, ConnTypes, AirTypes
\* A step that leaves the link and brings no write to zeroed parameters.
<1>1. ASSUME Stays, at' = "unsub_call" => filled', req' # "none" => active # NoConn,
             req' = "ccc" /\ ~filled' => at' = "reset_drop"
                                          \/ (req = "ccc" /\ ~filled /\ at # "reset_drop"
                                               /\ UNCHANGED refused)
      PROVE  Zeroed'
  BY <1>1 DEF Stays, Zeroed, Live
<1>2. CASE BtRx
  <2>1. /\ UNCHANGED <<filled, at, refused>>
        /\ \/ Stays /\ req' \in {req, "none"}
           \/ active = NoConn /\ active' \in Conns /\ link'[active'] = "up" /\ UNCHANGED req
           \/ active' = NoConn /\ req' = "none"
    BY <1>0, <1>2, CallbackStays
  <2> QED
    BY <2>1 DEF Stays, Zeroed, Live
<1>3. ASSUME ble_bridge_execute \/ Connect \/ Security \/ Exchange \/ Reset PROVE Stays
  BY <1>0, <1>3, DispatchStays
<1>4. CASE ResetConn
  <2>1. Stays /\ at = "reset_conn"
    BY <1>3, <1>4 DEF Reset, ResetConn
  <2>2. req' # "none" => active # NoConn
    BY <1>4 DEF ResetConn, Zeroed
  <2>3. at' = IF active # NoConn THEN "reset_drop" ELSE "unbond"
    BY <1>4 DEF ResetConn, GoTo
  <2> QED
    BY <1>1, <2>1, <2>2, <2>3
<1>5. CASE ResetDrop
  <2>1. Stays /\ at = "reset_drop" /\ at' # "unsub_call" /\ UNCHANGED <<req, filled>>
    BY <1>3, <1>5 DEF Reset, ResetDrop, GoTo, flagVars, hostVars
  <2>2. active # NoConn => link'[active] = "closing" \/ refused'
    <3>1. active # NoConn => link' = Disconnected(active) \/ refused'
      BY <1>5 DEF ResetDrop
    <3> QED
      BY <1>0, <3>1, DisconnectedLive DEF Types, Live
  <2> QED
    BY <2>1, <2>2 DEF Stays, Zeroed, Live
<1>6. CASE GattCall
  <2>1. Stays
    BY <1>3, <1>6 DEF Exchange
  <2>2. /\ at \in {"gatt_call", "unsub_call", "ccc_call"} /\ at' # "unsub_call"
        /\ filled' = (filled \/ at = "ccc_call")
        /\ \/ UNCHANGED req
           \/ active # NoConn /\ req' = "gatt"
           \/ active # NoConn /\ req' = "ccc" /\ at \in {"unsub_call", "ccc_call"}
        /\ UNCHANGED refused
    BY <1>6 DEF GattCall, GoTo, Finish, history
  <2>3. at \in {"unsub_call", "ccc_call"} => filled'
    BY <2>2 DEF Zeroed
  <2> QED
    BY <1>1, <2>1, <2>2, <2>3 DEF Zeroed
<1>7. CASE GattWait
  <2>1. Stays
    BY <1>3, <1>7 DEF Exchange
  <2>2. /\ req' \in {req, "none"} /\ UNCHANGED <<filled, refused>> /\ at' # "unsub_call"
        /\ at # "reset_drop"
    BY <1>7 DEF GattWait, GoTo, Finish, flagVars, history
  <2> QED
    BY <1>1, <2>1, <2>2 DEF Zeroed
<1>8. CASE SemReset
  <2>1. Stays
    BY <1>3, <1>8 DEF Exchange
  <2>2. /\ UNCHANGED <<req, filled, refused>> /\ (at' = "unsub_call" => filled)
        /\ at # "reset_drop"
    BY <1>8 DEF SemReset, GoTo, hostVars, history, StepTypes, Types, Step
  <2> QED
    BY <1>1, <2>1, <2>2 DEF Zeroed
\* The other steps touch neither.
<1>9. ASSUME Stays, UNCHANGED <<req, filled, refused>>, at' # "unsub_call", at # "reset_drop"
      PROVE  Zeroed'
  BY <1>1, <1>9 DEF Zeroed
<1>10. CASE ble_bridge_execute
  <2>1. at' # "unsub_call" /\ at # "reset_drop"
    BY <1>10, ExecuteFacts DEF Types, ble_bridge_execute
  <2> QED
    BY <1>3, <1>9, <1>10, <2>1 DEF ble_bridge_execute, hostVars
<1>11. CASE Connect
  <2>1. at' # "unsub_call" /\ at # "reset_drop" /\ UNCHANGED <<req, filled, refused>>
    BY <1>11 DEF Connect, GoTo, Finish, execute_connect, ScanTarget, ConnectArm, ScanStart,
       ConnectWait, ScanStop, ScanCancel, ScanJudge, AdvCheck, start_advertising, AdvFlag,
       AdvJudge, DropArm, Drop, DropWait, flagVars, hostVars, history
  <2> QED
    BY <1>3, <1>9, <1>11, <2>1
<1>12. CASE Security
  <2>1. at' # "unsub_call" /\ at # "reset_drop" /\ UNCHANGED <<req, filled, refused>>
    BY <1>12 DEF Security, GoTo, Finish, execute_set_security, SecArm, SecLook, SecAsk, SecWait,
       SecJudge, flagVars, hostVars, history
  <2> QED
    BY <1>3, <1>9, <1>12, <2>1
<1>13. CASE \/ execute_data_exchange \/ GattClear \/ GattJudge \/ Resolved \/ CccJudge
            \/ Subscribed \/ await_notification \/ Capture \/ CaptureWait
  <2>1. at' # "unsub_call" /\ at # "reset_drop" /\ UNCHANGED <<req, filled, refused>>
    BY <1>13 DEF GoTo, Finish, Operation, execute_data_exchange, GattClear, GattJudge, Resolved,
       CccJudge, Subscribed, await_notification, Capture, CaptureWait, flagVars, hostVars,
       history, Types, StepTypes, Subscribing
  <2> QED
    BY <1>3, <1>9, <1>13, <2>1 DEF Exchange
<1>14. CASE ResetScan \/ ResetAdv \/ ResetWait \/ Unbond \/ Unpair \/ UnbondWait \/ Unbonded
  <2>1. at' # "unsub_call" /\ at # "reset_drop" /\ UNCHANGED <<req, filled, refused>>
    BY <1>14 DEF GoTo, Finish, ResetScan, ResetAdv, ResetWait, Unbond, Unpair, UnbondWait,
       Unbonded, flagVars, hostVars, history
  <2> QED
    BY <1>3, <1>9, <1>14, <2>1 DEF Reset
<1>15. CASE UNCHANGED vars
  BY <1>15 DEF vars, connVars, flagVars, stepVars, airVars, hostVars, history, Zeroed, Live
<1> QED
  BY <1>2, <1>4, <1>5, <1>6, <1>7, <1>8, <1>10, <1>11, <1>12, <1>13, <1>14, <1>15
     DEF Next, Exchange, Reset

\* The stack never keeps the zeroed parameters of the bridge longer than the link the reset
\* ends: with the link every such write is gone, however late that is and whatever the next
\* study has begun.
THEOREM ZeroedDieWithLink == Spec => []WriteDiesWithLink
<1>1. Init => Zeroed
  BY DEF Init, Zeroed, Live
<1>2. Types /\ Zeroed /\ [Next]_vars => Zeroed'
  BY ZeroedStep
<1>3. Zeroed => WriteDiesWithLink
  BY DEF Zeroed, WriteDiesWithLink
<1> QED
  BY <1>1, <1>2, <1>3, TypesHold, PTL DEF Spec

\* The reset leaves the next study nothing of the last one, whatever the last study was and
\* wherever the Hello finds it.
THEOREM ResetIsComplete == Spec => []ResetLeavesNothing
<1>1. ResetIsHard /\ WriteDiesWithLink => ResetLeavesNothing
  BY DEF ResetLeavesNothing
<1> QED
  BY <1>1, ResetStops, ZeroedDieWithLink, PTL
=============================================================================
