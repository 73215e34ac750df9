------------------------------- MODULE BleLink -------------------------------
(***************************************************************************)
(* The link of app/src/ble_bridge_real.c: advertise, connect in both roles, *)
(* security, unbond, the data exchange and the reset of a Hello.  The       *)
(* dispatch thread runs a step, waits on semaphores and gives up at its     *)
(* deadline; the connection callbacks run on BT RX, which preempts it       *)
(* between any two calls.  scan_cb itself waits twice, for the scan to stop *)
(* and for the connection to be made, and the dispatch thread runs then.    *)
(*                                                                         *)
(* The host stack and the peers are external: the connection objects, what  *)
(* is on the air, a security procedure, a GATT request.  A cancelled        *)
(* connection may be up already.  A call without a connection fails.  Time  *)
(* is left open: a wait may end whenever nothing was given.                *)
(***************************************************************************)
EXTENDS Integers, Sequences

CONSTANTS
    Conns,      \* the connection objects of the stack (BT_MAX_CONN)
    NoConn,
    Peers,      \* devices in the room
    Studies,    \* the sequences of steps a host may run
    MaxLinks    \* bound: connections that come up

\* A step, and whom it is for: a peer, or anybody.  A reset is a Hello.
Anyone == "anyone"
Step == [kind : {"advertise", "central", "peripheral", "secure", "unbond", "read", "await",
                 "capture", "reset"},
         target : Peers \cup {Anyone}]

ASSUME LinkAssumption ==
    /\ NoConn \notin Conns /\ Anyone \notin Peers
    /\ Studies \subseteq Seq(Step) /\ MaxLinks \in Nat

VARIABLES
    \* the bridge
    active, pending, conn_err, scan_matched, scan_target,
    advertising, link_lost, cached, subscribed, ccc_torn_down, sec_failed,
    filled,         \* subscribe_params is in use, not all zero
    sem,            \* the semaphores, 0 or 1
    \* the dispatch thread: where it is, the steps to come, the step, a security step's
    \* attempt and whether it waits for a procedure of the peer, and the last outcome
    at, study, step, phase, attempt, others, outcome,
    \* BT RX inside scan_cb, and the advertiser it has matched
    rx, matched,
    \* the stack: per connection its state and its peer; the air; the active link's security
    \* level, the procedure raising it, the GATT request it waits an answer to, and whether it
    \* has the subscription
    link, peer, on_air, scanning, level, proc, req, held, links,
    \* history: the link went in a wait; or under a CCC write; a wait of a reset was too short,
    \* or a link could no longer be stopped or was not known; the stack would not end the link
    \* for a reset; during the step a device it is not for came in, or was being connected to;
    \* a reset was the last thing done
    lost, cut, late, refused, intruded, fresh

connVars == <<active, pending, conn_err, scan_matched, scan_target>>
flagVars == <<advertising, link_lost, cached, subscribed, ccc_torn_down, sec_failed, filled>>
stepVars == <<at, study, step, phase, attempt, others, outcome>>
rxVars == <<rx, matched>>
airVars == <<link, peer, on_air, scanning, links>>
hostVars == <<level, proc, req, held>>
history == <<lost, cut, late, refused, intruded, fresh>>
vars == <<connVars, flagVars, sem, stepVars, rxVars, airVars, hostVars, history>>

Sems == {"conn", "gatt", "notify", "disconn", "ccc", "sec"}
k_sem_give(given) == sem' = [s \in Sems |-> IF s \in given THEN 1 ELSE sem[s]]
k_sem_reset(s) == sem' = [sem EXCEPT ![s] = 0]

Wanted(target, p) == target \in {Anyone, p}
Fits(c) == Wanted(step.target, peer[c])

----------------------------------------------------------------------------
(* The stack.                                                              *)

\* An object nothing refers to any more.
Unused == {c \in Conns : link[c] = "free" /\ c \notin {active, pending}}

\* bt_conn_disconnect: a connection being made is cancelled.
Disconnected(c) ==
    [link EXCEPT ![c] = CASE @ = "creating" -> "cancelling" [] @ = "up" -> "closing" [] OTHER -> @]

\* The waits in which a lost link is asked after; and where a subscription of old is being taken
\* back, for the new one to be written on the same link.
Waits == {"gatt_wait", "gatt_judge", "await", "await_judge", "sec_wait", "sec_judge", "cap_wait"}
Unwrites == {"unsub_wait", "ccc_rearm", "ccc_call"}

\* A connection comes up, or does not: a connectable advertiser stops when it does.
connected_cb(c, err) ==
    /\ conn_err' = err /\ advertising' = FALSE
    /\ active' = IF ~err /\ active = NoConn THEN c ELSE active
    /\ k_sem_give({"conn"})
    /\ level' = IF ~err /\ active = NoConn THEN 1 ELSE level
    /\ cut' = (cut /\ (active' = active \/ ~(at \in Unwrites)))
    /\ UNCHANGED <<pending, scan_matched, scan_target, link_lost, cached, subscribed,
                   ccc_torn_down, sec_failed, filled, proc, req, held>>

\* The bridge's own connection, established, refused, or cancelled too late.
Created(c, err) ==
    /\ rx = "idle" /\ link[c] \in {"creating", "cancelling"}
    /\ err \/ links < MaxLinks
    /\ links' = IF err THEN links ELSE links + 1
    /\ link' = [link EXCEPT ![c] = IF err THEN "free" ELSE "up"]
    /\ connected_cb(c, err)
    /\ UNCHANGED <<stepVars, rxVars, peer, on_air, scanning, lost, late, refused, intruded, fresh>>

\* A device in the room answers the advertising.
Incoming(c, p) ==
    /\ rx = "idle" /\ on_air /\ c \in Unused /\ links < MaxLinks
    /\ links' = links + 1
    /\ link' = [link EXCEPT ![c] = "up"] /\ peer' = [peer EXCEPT ![c] = p]
    /\ on_air' = FALSE /\ intruded' = (intruded \/ ~Wanted(step.target, p))
    /\ connected_cb(c, FALSE)
    /\ UNCHANGED <<stepVars, rxVars, scanning, lost, late, refused, fresh>>

\* A connection is being made.
Unfinished == rx # "idle" \/ \E c \in Conns : link[c] \in {"creating", "cancelling"}

\* Whom it is being made to.
Underway ==
    {peer[c] : c \in {d \in Conns : link[d] \in {"creating", "cancelling"}}}
        \cup {p \in Peers : rx # "idle" /\ p = matched}

\* The stack drops what the link still owed, and the subscription unless there is a bond; a
\* CCC write in flight is reported dead.
disconnected_cb(c) ==
    /\ rx = "idle" /\ link[c] \in {"up", "closing"}
    /\ link' = [link EXCEPT ![c] = "free"]
    /\ active' = IF active = c THEN NoConn ELSE active
    /\ cached' = FALSE /\ subscribed' = FALSE /\ link_lost' = TRUE
    /\ LET owed == c = active /\ req = "ccc"
       IN  /\ ccc_torn_down' = (ccc_torn_down \/ owed)
           /\ k_sem_give({"gatt", "notify", "disconn"} \cup (IF owed THEN {"ccc"} ELSE {}))
           /\ cut' = (cut \/ (at = "ccc_wait" /\ owed) \/ (at \in Unwrites /\ c = active))
    /\ proc' = IF c = active THEN "none" ELSE proc
    /\ req' = IF c = active THEN "none" ELSE req
    /\ held' = (held /\ (c # active \/ level = 2))
    /\ lost' = (lost \/ at \in Waits)
    /\ UNCHANGED <<pending, conn_err, scan_matched, scan_target, advertising, sec_failed, filled,
                   stepVars, rxVars, peer, on_air, scanning, links, level, late, refused, intruded,
                   fresh>>

Linked == rx = "idle" /\ active # NoConn /\ link[active] = "up"

\* The peer asks for security on its own.
PeerSecurity ==
    /\ Linked /\ proc = "none" /\ level = 1
    /\ proc' = "peer"
    /\ UNCHANGED <<connVars, flagVars, sem, stepVars, rxVars, airVars, level, req, held, history>>

\* security_changed, at the level asked or short of it, or pairing_failed.
security_changed_cb ==
    /\ Linked /\ proc # "none"
    /\ proc' = "none"
    /\ \/ level' = 2 /\ sec_failed' \in {sec_failed, FALSE}
       \/ UNCHANGED level /\ sec_failed' \in BOOLEAN
    /\ k_sem_give({"sec"})
    /\ UNCHANGED <<connVars, advertising, link_lost, cached, subscribed, ccc_torn_down, filled,
                   stepVars, rxVars, airVars, req, held, history>>

\* read_cb, write_cb, the end of a discovery, subscribe_cb, or notify_cb without data.
Answered ==
    /\ Linked /\ req # "none"
    /\ req' = "none" /\ k_sem_give({req})
    /\ \/ UNCHANGED <<ccc_torn_down, held>>
       \/ req = "ccc" /\ ccc_torn_down' = TRUE /\ held' = FALSE
    /\ UNCHANGED <<connVars, advertising, link_lost, cached, subscribed, sec_failed, filled,
                   stepVars, rxVars, airVars, level, proc, history>>

\* A pushed value; one that comes while a capture runs goes to the stream.
notify_cb ==
    /\ Linked /\ held /\ at # "cap_wait"
    /\ k_sem_give({"notify"})
    /\ UNCHANGED <<connVars, flagVars, stepVars, rxVars, airVars, hostVars, history>>

----------------------------------------------------------------------------
(* BT RX in scan_cb.                                                       *)

\* An advertiser that fits the filters, which are those of the last step that set them.
scan_cb(p) ==
    /\ rx = "idle" /\ scanning /\ ~scan_matched
    /\ Wanted(scan_target, p)
    /\ scan_matched' = TRUE
    /\ rx' = "stopping" /\ matched' = p
    /\ intruded' = (intruded \/ ~Wanted(step.target, p))
    /\ UNCHANGED <<active, pending, conn_err, scan_target, flagVars, sem, stepVars, airVars,
                   hostVars, lost, cut, late, refused, fresh>>

\* bt_le_scan_stop returns; a scan it could not stop goes on, and its match is given up.
ScanStopped ==
    /\ rx = "stopping"
    /\ \/ scanning' = FALSE /\ rx' = "creating" /\ UNCHANGED <<conn_err, sem>>
       \/ rx' = "idle" /\ conn_err' = TRUE /\ k_sem_give({"conn"}) /\ UNCHANGED scanning
    /\ UNCHANGED <<active, pending, scan_matched, scan_target, flagVars, stepVars, matched, link,
                   peer, on_air, links, hostVars, history>>

\* bt_conn_le_create returns: the connection is being made, or an error.
ConnCreate ==
    /\ rx = "creating" /\ rx' = "idle"
    /\ \/ \E c \in Unused :
             /\ link' = [link EXCEPT ![c] = "creating"] /\ peer' = [peer EXCEPT ![c] = matched]
             /\ pending' = c
             /\ UNCHANGED <<conn_err, sem>>
       \/ conn_err' = TRUE /\ k_sem_give({"conn"}) /\ UNCHANGED <<link, peer, pending>>
    /\ UNCHANGED <<active, scan_matched, scan_target, flagVars, stepVars, matched, on_air, scanning,
                   links, hostVars, history>>

----------------------------------------------------------------------------
(* The dispatch thread: a step begins and ends.                            *)

GoTo(where) == at' = where /\ UNCHANGED <<study, step, phase, attempt, others, outcome>>
Finish(result) ==
    at' = "idle" /\ outcome' = result /\ UNCHANGED <<study, step, phase, attempt, others>>

First(kind) ==
    CASE kind = "advertise" -> "adv_start"
      [] kind \in {"central", "peripheral"} -> "connect"
      [] kind \in {"read", "await", "capture"} -> "exchange"
      [] kind = "reset" -> "reset_scan"
      [] OTHER -> kind

\* ble_bridge_execute, or ble_bridge_reset.
ble_bridge_execute ==
    /\ at = "idle" /\ study # <<>>
    /\ step' = Head(study) /\ study' = Tail(study)
    /\ at' = First(Head(study).kind) /\ outcome' = "none"
    /\ phase' = "discover" /\ attempt' = 1 /\ others' = FALSE
    /\ IF Head(study).kind = "reset"
       THEN UNCHANGED <<link_lost, sem>>
       ELSE link_lost' = FALSE /\ k_sem_reset("notify")
    /\ lost' = FALSE /\ cut' = FALSE /\ late' = FALSE /\ fresh' = FALSE
    /\ intruded' = \E p \in Underway : ~Wanted(Head(study).target, p)
    /\ UNCHANGED <<connVars, advertising, cached, subscribed, ccc_torn_down, sec_failed, filled,
                   rxVars, airVars, hostVars, refused>>

----------------------------------------------------------------------------
(* Advertise and connect.                                                  *)

\* Releases the reference of bt_conn_le_create, and with cancel ends the connection.
release_pending_conn(cancel) ==
    /\ link' = IF cancel /\ pending # NoConn THEN Disconnected(pending) ELSE link
    /\ pending' = NoConn

\* Already connected is no error, if it is to the right peer.
execute_connect ==
    /\ at = "connect"
    /\ IF active # NoConn
       THEN Finish(IF Fits(active) THEN "pass" ELSE "fail")
       ELSE GoTo(IF step.kind = "central" THEN "scan_arm" ELSE "adv_arm")
    /\ UNCHANGED <<connVars, flagVars, sem, rxVars, airVars, hostVars, history>>

\* Whom scan_cb is to look for; a scan that was never stopped may find it at once.
ScanTarget ==
    /\ at = "scan_arm"
    /\ scan_target' = step.target /\ scan_matched' = FALSE
    /\ GoTo("conn_arm")
    /\ UNCHANGED <<active, pending, conn_err, flagVars, sem, rxVars, airVars, hostVars, history>>

\* A wait for the connection begins: what an earlier one left is forgotten.
ConnectArm ==
    /\ at \in {"conn_arm", "adv_arm"}
    /\ conn_err' = FALSE /\ k_sem_reset("conn")
    /\ GoTo(IF at = "conn_arm" THEN "scan_start" ELSE "adv_check")
    /\ UNCHANGED <<active, pending, scan_matched, scan_target, flagVars, rxVars, airVars, hostVars,
                   history>>

ScanStart ==
    /\ at = "scan_start"
    /\ \/ scanning' = TRUE /\ GoTo("scan_wait")
       \/ UNCHANGED scanning /\ Finish("fail")
    /\ UNCHANGED <<connVars, flagVars, sem, rxVars, link, peer, on_air, links, hostVars, history>>

\* The connection is there or has failed, or the step's time is over.
ConnectWait ==
    /\ at \in {"scan_wait", "adv_wait"}
    /\ IF sem["conn"] = 1
       THEN k_sem_reset("conn") /\ GoTo(IF at = "scan_wait" THEN "scan_judge" ELSE "adv_judge")
       ELSE UNCHANGED sem /\ IF at = "scan_wait" THEN GoTo("scan_stop") ELSE Finish("timed_out")
    /\ UNCHANGED <<connVars, flagVars, rxVars, airVars, hostVars, history>>

ScanStop ==
    /\ at = "scan_stop"
    /\ scanning' = FALSE /\ GoTo("scan_cancel")
    /\ UNCHANGED <<connVars, flagVars, sem, rxVars, link, peer, on_air, links, hostVars, history>>

\* A connection still being made is cancelled.
ScanCancel ==
    /\ at = "scan_cancel"
    /\ release_pending_conn(TRUE) /\ Finish("timed_out")
    /\ UNCHANGED <<active, conn_err, scan_matched, scan_target, flagVars, sem, rxVars, peer, on_air,
                   scanning, links, hostVars, history>>

ScanJudge ==
    /\ at = "scan_judge"
    /\ release_pending_conn(FALSE)
    /\ Finish(IF conn_err \/ active = NoConn THEN "fail" ELSE "pass")
    /\ UNCHANGED <<active, conn_err, scan_matched, scan_target, flagVars, sem, rxVars, peer, on_air,
                   scanning, links, hostVars, history>>

AdvCheck ==
    /\ at = "adv_check"
    /\ GoTo(IF advertising THEN "adv_wait" ELSE "adv_start")
    /\ UNCHANGED <<connVars, flagVars, sem, rxVars, airVars, hostVars, history>>

\* start_advertising: off, then on with what this step wants; and then the flag.
start_advertising ==
    /\ at = "adv_start"
    /\ \/ on_air' = TRUE /\ GoTo("adv_flag")
       \/ on_air' = FALSE /\ Finish("fail")
    /\ UNCHANGED <<connVars, flagVars, sem, rxVars, link, peer, scanning, links, hostVars, history>>

AdvFlag ==
    /\ at = "adv_flag"
    /\ advertising' = TRUE
    /\ IF step.kind = "advertise" THEN Finish("pass") ELSE GoTo("adv_wait")
    /\ UNCHANGED <<connVars, link_lost, cached, subscribed, ccc_torn_down, sec_failed, filled,
                   sem, rxVars, airVars, hostVars, history>>

\* Mutant: whoever has connected will do, as for a central.
AdvJudge_any ==
    /\ at = "adv_judge"
    /\ Finish(IF conn_err \/ active = NoConn THEN "fail" ELSE "pass")
    /\ UNCHANGED <<connVars, flagVars, sem, rxVars, airVars, hostVars, history>>

\* Any central may have connected: only the one the step is for ends it.
AdvJudge ==
    /\ at = "adv_judge"
    /\ IF conn_err THEN Finish("fail")
       ELSE IF step.target = Anyone \/ (active # NoConn /\ Fits(active)) THEN Finish("pass")
       ELSE GoTo("drop_arm")
    /\ UNCHANGED <<connVars, flagVars, sem, rxVars, airVars, hostVars, history>>

DropArm ==
    /\ at = "drop_arm"
    /\ k_sem_reset("disconn") /\ GoTo("drop")
    /\ UNCHANGED <<connVars, flagVars, rxVars, airVars, hostVars, history>>

Drop ==
    /\ at = "drop"
    /\ link' = IF active = NoConn THEN link ELSE Disconnected(active)
    /\ GoTo("drop_wait")
    /\ UNCHANGED <<connVars, flagVars, sem, rxVars, peer, on_air, scanning, links, hostVars,
                   history>>

DropWait ==
    /\ at = "drop_wait"
    /\ IF sem["disconn"] = 1
       THEN k_sem_reset("disconn") /\ GoTo("adv_arm")
       ELSE UNCHANGED sem /\ Finish("timed_out")
    /\ UNCHANGED <<connVars, flagVars, rxVars, airVars, hostVars, history>>

----------------------------------------------------------------------------
(* Security.                                                               *)

execute_set_security ==
    /\ at = "secure"
    /\ sec_failed' = FALSE
    /\ IF active = NoConn THEN Finish("fail") ELSE GoTo("sec_arm")
    /\ UNCHANGED <<connVars, advertising, link_lost, cached, subscribed, ccc_torn_down, filled,
                   sem, rxVars, airVars, hostVars, history>>

\* Armed before the level is read; that of no connection is whatever lies there.
SecArm ==
    /\ at = "sec_arm"
    /\ k_sem_reset("sec") /\ GoTo("sec_look")
    /\ UNCHANGED <<connVars, flagVars, rxVars, airVars, hostVars, history>>

SecLook ==
    /\ at = "sec_look"
    /\ \/ (active = NoConn \/ level = 2) /\ Finish("pass")
       \/ (active = NoConn \/ level = 1) /\ GoTo("sec_ask")
    /\ UNCHANGED <<connVars, flagVars, sem, rxVars, airVars, hostVars, history>>

\* Mutant: the semaphore is armed once the level has been read.
SecAsk_arms ==
    /\ at = "sec_ask"
    /\ \/ /\ active # NoConn
          /\ at' = "sec_wait" /\ others' = (proc # "none")
          /\ proc' = IF proc = "none" /\ level = 1 THEN "own" ELSE proc
          /\ k_sem_reset("sec")
          /\ UNCHANGED <<study, step, phase, attempt, outcome>>
       \/ Finish("fail") /\ UNCHANGED <<proc, sem>>
    /\ UNCHANGED <<connVars, flagVars, rxVars, airVars, level, req, held, history>>

\* bt_conn_set_security: it starts a procedure, finds one at work, finds nothing left to do,
\* or fails.
SecAsk ==
    /\ at = "sec_ask"
    /\ \/ /\ active # NoConn
          /\ at' = "sec_wait" /\ others' = (proc # "none")
          /\ proc' = IF proc = "none" /\ level = 1 THEN "own" ELSE proc
          /\ UNCHANGED <<study, step, phase, attempt, outcome>>
       \/ Finish("fail") /\ UNCHANGED proc
    /\ UNCHANGED <<connVars, flagVars, sem, rxVars, airVars, level, req, held, history>>

SecWait ==
    /\ at = "sec_wait"
    /\ IF sem["sec"] = 1
       THEN k_sem_reset("sec") /\ GoTo("sec_judge")
       ELSE UNCHANGED sem /\ Finish(IF link_lost THEN "disconnected" ELSE "timed_out")
    /\ UNCHANGED <<connVars, flagVars, rxVars, airVars, hostVars, history>>

\* Mutant: the step asks again as long as the procedure was not its own.
SecJudge_again ==
    /\ at = "sec_judge"
    /\ IF link_lost THEN Finish("disconnected")
       ELSE IF sec_failed THEN Finish("fail")
       ELSE IF level = 2 THEN Finish("pass")
       ELSE IF others
       THEN /\ at' = "sec_arm" /\ attempt' = attempt + 1
            /\ UNCHANGED <<study, step, phase, others, outcome>>
       ELSE Finish("fail")
    /\ UNCHANGED <<connVars, flagVars, sem, rxVars, airVars, hostVars, history>>

\* Short of the level after a procedure of the peer's, the step asks once more on its own.
SecJudge ==
    /\ at = "sec_judge"
    /\ IF link_lost THEN Finish("disconnected")
       ELSE IF sec_failed THEN Finish("fail")
       ELSE IF level = 2 THEN Finish("pass")
       ELSE IF others /\ attempt = 1
       THEN at' = "sec_arm" /\ attempt' = 2 /\ UNCHANGED <<study, step, phase, others, outcome>>
       ELSE Finish("fail")
    /\ UNCHANGED <<connVars, flagVars, sem, rxVars, airVars, hostVars, history>>

----------------------------------------------------------------------------
(* Data exchange, with one characteristic.                                 *)

\* Where an operation goes once its handle is known.
Operation == IF step.kind = "read" THEN "gatt_clear" ELSE "ccc_arm"

\* resolve_handles: the cache, or discovery.
execute_data_exchange ==
    /\ at = "exchange"
    /\ IF active = NoConn THEN Finish("fail")
       ELSE IF cached
       THEN /\ at' = Operation /\ phase' = "operate"
            /\ UNCHANGED <<study, step, attempt, others, outcome>>
       ELSE GoTo("gatt_clear")
    /\ UNCHANGED <<connVars, flagVars, sem, rxVars, airVars, hostVars, history>>

\* Every GATT procedure: link_lost cleared, the semaphore reset, the call, the wait.
GattClear ==
    /\ at = "gatt_clear"
    /\ link_lost' = FALSE /\ GoTo("gatt_reset")
    /\ UNCHANGED <<connVars, advertising, cached, subscribed, ccc_torn_down, sec_failed, filled,
                   sem, rxVars, airVars, hostVars, history>>

SemReset ==
    /\ \/ at = "gatt_reset" /\ k_sem_reset("gatt") /\ GoTo("gatt_call") /\ UNCHANGED ccc_torn_down
       \/ /\ at = "ccc_arm"
          /\ IF subscribed
             THEN GoTo(step.kind) /\ UNCHANGED <<sem, ccc_torn_down>>
             ELSE /\ GoTo(IF filled THEN "unsub_call" ELSE "ccc_call")
                  /\ k_sem_reset("ccc") /\ ccc_torn_down' = FALSE
       \/ at = "ccc_rearm" /\ GoTo("ccc_call") /\ k_sem_reset("ccc") /\ ccc_torn_down' = FALSE
    /\ UNCHANGED <<connVars, advertising, link_lost, cached, subscribed, sec_failed, filled,
                   rxVars, airVars, hostVars, history>>

\* The call, or its error; an older subscription is cleared first, where the stack has it, and
\* one it has when asked for it is taken as it is, without a wait.
GattCall ==
    /\ \E call \in {<<"gatt_call", "gatt", "gatt_wait">>, <<"unsub_call", "ccc", "unsub_wait">>,
                   <<"ccc_call", "ccc", "ccc_wait">>} :
          /\ at = call[1]
          /\ filled' = (filled \/ at = "ccc_call")
          /\ \/ /\ active # NoConn /\ link[active] = "up"
                /\ (at = "unsub_call" => held) /\ (at = "ccc_call" => ~held)
                /\ req' = call[2] /\ GoTo(call[3])
                /\ held' = (at = "ccc_call" \/ (at = "gatt_call" /\ held))
             \/ /\ at = "ccc_call" /\ active # NoConn /\ link[active] = "up" /\ held
                /\ GoTo("ccc_judge") /\ UNCHANGED <<req, held>>
             \/ /\ IF at = "unsub_call" THEN GoTo("ccc_rearm") ELSE Finish("fail")
                /\ UNCHANGED <<req, held>>
    /\ UNCHANGED <<connVars, advertising, link_lost, cached, subscribed, ccc_torn_down, sec_failed,
                   sem, rxVars, airVars, level, proc, history>>

\* Answered, or abandoned at the deadline.
GattWait ==
    /\ \E wait \in {<<"gatt_wait", "gatt", "gatt_judge">>, <<"unsub_wait", "ccc", "ccc_rearm">>,
                   <<"ccc_wait", "ccc", "ccc_judge">>} :
          /\ at = wait[1]
          /\ IF sem[wait[2]] = 1
             THEN k_sem_reset(wait[2]) /\ UNCHANGED req /\ GoTo(wait[3])
             ELSE req' = "none" /\ UNCHANGED sem /\ Finish("timed_out")
          /\ held' = (held /\ ~(at = "ccc_wait" /\ req' # req))
    /\ UNCHANGED <<connVars, flagVars, rxVars, airVars, level, proc, history>>

\* A lost link first, then what the peer refused.
GattJudge ==
    /\ at = "gatt_judge"
    /\ \/ link_lost /\ Finish("disconnected")
       \/ ~link_lost /\ Finish("fail")
       \/ ~link_lost /\ IF phase = "discover" THEN GoTo("resolved") ELSE Finish("pass")
    /\ UNCHANGED <<connVars, flagVars, sem, rxVars, airVars, hostVars, history>>

\* The cache is valid, the subscription is on: said when the answer has been looked at.
Resolved ==
    /\ at = "resolved"
    /\ cached' = TRUE
    /\ at' = Operation /\ phase' = "operate"
    /\ UNCHANGED <<study, step, attempt, others, outcome>>
    /\ UNCHANGED <<connVars, advertising, link_lost, subscribed, ccc_torn_down, sec_failed, filled,
                   sem, rxVars, airVars, hostVars, history>>

CccJudge ==
    /\ at = "ccc_judge"
    /\ IF ccc_torn_down THEN Finish("fail") ELSE GoTo("subscribed") \/ Finish("fail")
    /\ UNCHANGED <<connVars, flagVars, sem, rxVars, airVars, hostVars, history>>

Subscribed ==
    /\ at = "subscribed"
    /\ subscribed' = TRUE /\ GoTo(step.kind)
    /\ UNCHANGED <<connVars, advertising, link_lost, cached, ccc_torn_down, sec_failed, filled,
                   sem, rxVars, airVars, hostVars, history>>

\* Mutant: the value is taken without a look at the link.
await_notification_unasked ==
    /\ at = "await"
    /\ IF sem["notify"] = 1 THEN k_sem_reset("notify") /\ Finish("pass")
                            ELSE UNCHANGED sem /\ Finish("timed_out")
    /\ UNCHANGED <<connVars, flagVars, rxVars, airVars, hostVars, history>>

\* A value pushed since the step began.
await_notification ==
    /\ \/ /\ at = "await"
          /\ IF sem["notify"] = 1 THEN k_sem_reset("notify") /\ GoTo("await_judge")
                                  ELSE UNCHANGED sem /\ Finish("timed_out")
       \/ /\ at = "await_judge"
          /\ Finish(IF link_lost THEN "disconnected" ELSE "pass") /\ UNCHANGED sem
    /\ UNCHANGED <<connVars, flagVars, rxVars, airVars, hostVars, history>>

\* A capture ends with its time, or with the link.
Capture ==
    /\ at = "capture"
    /\ link_lost' = FALSE /\ k_sem_reset("disconn") /\ GoTo("cap_wait")
    /\ UNCHANGED <<connVars, advertising, cached, subscribed, ccc_torn_down, sec_failed, filled,
                   rxVars, airVars, hostVars, history>>

CaptureWait ==
    /\ at = "cap_wait"
    /\ IF sem["disconn"] = 1 THEN k_sem_reset("disconn") /\ Finish("disconnected")
                             ELSE UNCHANGED sem /\ Finish("pass")
    /\ UNCHANGED <<connVars, flagVars, rxVars, airVars, hostVars, history>>

----------------------------------------------------------------------------
(* Unbond and reset.                                                       *)

\* bt_unpair ends the link of a peer it has keys of.
Unpaired == IF active # NoConn /\ level = 2 THEN Disconnected(active) ELSE link

ResetScan ==
    /\ at = "reset_scan"
    /\ scanning' = FALSE /\ GoTo("reset_adv")
    /\ UNCHANGED <<connVars, flagVars, sem, rxVars, link, peer, on_air, links, hostVars, history>>

ResetAdv ==
    /\ at = "reset_adv"
    /\ on_air' = FALSE /\ GoTo("reset_conn")
    /\ UNCHANGED <<connVars, flagVars, sem, rxVars, link, peer, scanning, links, hostVars, history>>

\* The subscription is taken back, which sends a CCC write, and its parameters are zeroed.
ResetConn ==
    /\ at = "reset_conn"
    /\ release_pending_conn(TRUE)
    /\ advertising' = FALSE /\ subscribed' = FALSE /\ filled' = FALSE
    /\ \/ filled /\ active # NoConn /\ link[active] = "up" /\ held /\ req' = "ccc" /\ held' = FALSE
       \/ UNCHANGED <<req, held>>
    /\ late' = (Unfinished \/ \E c \in Conns \ {active} : link[c] \in {"up", "closing"})
    /\ refused' = FALSE
    /\ GoTo(IF active # NoConn THEN "reset_drop" ELSE "unbond")
    /\ UNCHANGED <<active, conn_err, scan_matched, scan_target, link_lost, cached, ccc_torn_down,
                   sec_failed, sem, rxVars, peer, on_air, scanning, links, level, proc, lost, cut,
                   intruded, fresh>>

\* Mutant: the reset asks for the disconnect and does not wait for it.
ResetDrop_returns ==
    /\ at = "reset_drop"
    /\ k_sem_reset("disconn")
    /\ link' = IF active = NoConn THEN link ELSE Disconnected(active)
    /\ GoTo("unbond")
    /\ UNCHANGED <<connVars, flagVars, rxVars, peer, on_air, scanning, links, hostVars, history>>

\* bt_conn_disconnect, and a wait where it has not failed.
ResetDrop ==
    /\ at = "reset_drop"
    /\ k_sem_reset("disconn")
    /\ \/ active # NoConn /\ link' = Disconnected(active) /\ GoTo("reset_wait")
          /\ UNCHANGED refused
       \/ refused' = (active # NoConn) /\ GoTo("unbond") /\ UNCHANGED link
    /\ UNCHANGED <<connVars, flagVars, rxVars, peer, on_air, scanning, links, hostVars, lost, cut,
                   late, intruded, fresh>>

ResetWait ==
    /\ at = "reset_wait"
    /\ IF sem["disconn"] = 1 THEN k_sem_reset("disconn") /\ UNCHANGED late
                             ELSE late' = TRUE /\ UNCHANGED sem
    /\ GoTo("unbond")
    /\ UNCHANGED <<connVars, flagVars, rxVars, airVars, hostVars, lost, cut, refused, intruded,
                   fresh>>

\* execute_unbond and ble_bridge_clear_bonds: reset, unpair, and wait where there was a link.
Unbond ==
    /\ at = "unbond"
    /\ IF active # NoConn THEN k_sem_reset("disconn") /\ GoTo("unpair_wait")
                          ELSE UNCHANGED sem /\ GoTo("unpair")
    /\ UNCHANGED <<connVars, flagVars, rxVars, airVars, hostVars, history>>

Unpair ==
    /\ at \in {"unpair", "unpair_wait"}
    /\ \/ /\ link' = Unpaired /\ GoTo(IF at = "unpair" THEN "unbonded" ELSE "unbond_wait")
          /\ held' = (held /\ active # NoConn /\ level = 1)
       \/ step.kind = "unbond" /\ UNCHANGED <<link, held>> /\ Finish("fail")
    /\ UNCHANGED <<connVars, flagVars, sem, rxVars, peer, on_air, scanning, links, level, proc,
                   req, history>>

UnbondWait ==
    /\ at = "unbond_wait"
    /\ IF sem["disconn"] = 1 THEN k_sem_reset("disconn") ELSE UNCHANGED sem
    /\ GoTo("unbonded")
    /\ UNCHANGED <<connVars, flagVars, rxVars, airVars, hostVars, history>>

Unbonded ==
    /\ at = "unbonded"
    /\ cached' = FALSE /\ subscribed' = FALSE
    /\ fresh' = (step.kind = "reset")
    /\ Finish("pass")
    /\ UNCHANGED <<connVars, advertising, link_lost, ccc_torn_down, sec_failed, filled, sem, rxVars,
                   airVars, hostVars, lost, cut, late, refused, intruded>>

----------------------------------------------------------------------------

Init ==
    /\ active = NoConn /\ pending = NoConn /\ conn_err = FALSE /\ scan_matched = FALSE
    /\ scan_target = Anyone
    /\ advertising = FALSE /\ link_lost = FALSE /\ cached = FALSE /\ subscribed = FALSE
    /\ ccc_torn_down = FALSE /\ sec_failed = FALSE /\ filled = FALSE
    /\ sem = [s \in Sems |-> 0]
    /\ at = "idle" /\ study \in Studies /\ step = [kind |-> "reset", target |-> Anyone]
    /\ phase = "discover" /\ attempt = 1 /\ others = FALSE /\ outcome = "none"
    /\ rx = "idle" /\ matched \in Peers
    /\ link = [c \in Conns |-> "free"] /\ peer \in [Conns -> Peers]
    /\ on_air = FALSE /\ scanning = FALSE /\ links = 0
    /\ level = 1 /\ proc = "none" /\ req = "none" /\ held = FALSE
    /\ lost = FALSE /\ cut = FALSE /\ late = FALSE /\ refused = FALSE /\ intruded = FALSE
    /\ fresh = FALSE

BtRx ==
    \/ \E c \in Conns, err \in BOOLEAN : Created(c, err)
    \/ \E c \in Conns, p \in Peers : Incoming(c, p)
    \/ \E c \in Conns : disconnected_cb(c)
    \/ PeerSecurity \/ security_changed_cb \/ Answered \/ notify_cb
    \/ \E p \in Peers : scan_cb(p)
    \/ ScanStopped \/ ConnCreate

Connect ==
    \/ execute_connect \/ ScanTarget \/ ConnectArm \/ ScanStart \/ ConnectWait \/ ScanStop
    \/ ScanCancel \/ ScanJudge \/ AdvCheck \/ start_advertising \/ AdvFlag \/ AdvJudge
    \/ DropArm \/ Drop \/ DropWait

Security == execute_set_security \/ SecArm \/ SecLook \/ SecAsk \/ SecWait \/ SecJudge

Exchange ==
    \/ execute_data_exchange \/ GattClear \/ SemReset \/ GattCall \/ GattWait \/ GattJudge
    \/ Resolved \/ CccJudge \/ Subscribed \/ await_notification \/ Capture \/ CaptureWait

Reset ==
    \/ ResetScan \/ ResetAdv \/ ResetConn \/ ResetDrop \/ ResetWait
    \/ Unbond \/ Unpair \/ UnbondWait \/ Unbonded

Next == BtRx \/ ble_bridge_execute \/ Connect \/ Security \/ Exchange \/ Reset

Spec == Init /\ [][Next]_vars

----------------------------------------------------------------------------
(* Properties.                                                             *)

\* Every variable holds a value of its type.
TypeOK ==
    /\ active \in Conns \cup {NoConn} /\ pending \in Conns \cup {NoConn}
    /\ conn_err \in BOOLEAN /\ scan_matched \in BOOLEAN
    /\ scan_target \in Peers \cup {Anyone}
    /\ advertising \in BOOLEAN /\ link_lost \in BOOLEAN /\ cached \in BOOLEAN
    /\ subscribed \in BOOLEAN /\ ccc_torn_down \in BOOLEAN /\ sec_failed \in BOOLEAN
    /\ sem \in [Sems -> 0..1]
    /\ study \in Seq(Step) /\ step \in Step
    /\ at \in {"idle", "connect", "scan_arm", "conn_arm", "scan_start", "scan_wait", "scan_stop",
               "scan_cancel", "scan_judge", "adv_arm", "adv_check", "adv_start", "adv_flag",
               "adv_wait", "adv_judge", "drop_arm", "drop", "drop_wait", "secure", "sec_arm",
               "sec_look", "sec_ask", "sec_wait", "sec_judge", "exchange", "gatt_clear",
               "gatt_reset", "gatt_call", "gatt_wait", "gatt_judge", "resolved", "ccc_arm",
               "ccc_rearm", "ccc_call", "ccc_wait", "ccc_judge", "unsub_call", "unsub_wait",
               "subscribed", "await", "await_judge",
               "capture", "cap_wait", "reset_scan", "reset_adv", "reset_conn", "reset_drop",
               "reset_wait", "unbond", "unpair", "unpair_wait", "unbond_wait", "unbonded"}
    /\ phase \in {"discover", "operate"} /\ attempt \in 1..2 /\ others \in BOOLEAN
    /\ outcome \in {"none", "pass", "fail", "timed_out", "disconnected"}
    /\ rx \in {"idle", "stopping", "creating"} /\ matched \in Peers
    /\ link \in [Conns -> {"free", "creating", "cancelling", "up", "closing"}]
    /\ peer \in [Conns -> Peers] /\ on_air \in BOOLEAN /\ scanning \in BOOLEAN
    /\ links \in 0..MaxLinks
    /\ level \in 1..2 /\ proc \in {"none", "own", "peer"} /\ req \in {"none", "gatt", "ccc"}
    /\ held \in BOOLEAN
    /\ lost \in BOOLEAN /\ cut \in BOOLEAN /\ late \in BOOLEAN /\ refused \in BOOLEAN
    /\ intruded \in BOOLEAN /\ fresh \in BOOLEAN
    /\ filled \in BOOLEAN

\* No step whose link goes while it waits passes, and none is called timed out.  A loss in a
\* GATT request, a wait for a value, a security procedure or a capture is named.  One under a
\* CCC write is not: the step fails as if the characteristic could not be subscribed to, or its
\* next call fails, unless a link has come up before that call.
LossIsNamed == at = "idle" => (lost => outcome = "disconnected") /\ (cut => outcome = "fail")

\* A security step never sleeps on a link that is secure already: the elevation that came
\* between its look and its wait is still to be taken.
NoLostElevation == at = "sec_wait" /\ active # NoConn /\ level = 2 => sem["sec"] = 1

\* After the reset of a Hello nothing is connected and nothing the last study began can
\* connect any more, unless a link could not be stopped, was not known to the bridge, or took
\* longer than the reset waits, or the stack refused to end it.
ResetIsHard ==
    fresh /\ ~late /\ ~refused =>
        /\ active = NoConn /\ pending = NoConn
        /\ ~advertising /\ ~on_air /\ ~scanning
        /\ \A c \in Conns : link[c] = "free"

\* A connect step for one peer that passes has that peer: as a peripheral always, for it drops
\* whoever else comes in and goes on waiting, and as a central, where nobody asks, unless a
\* device the step is not for came in by itself while it ran or was still being connected to.
PassNamesTarget ==
    [][at # "idle" /\ at' = "idle" /\ outcome' = "pass" /\ step.kind \in {"central", "peripheral"}
         => \/ step.target = Anyone
            \/ active # NoConn /\ peer[active] = step.target
            \/ step.kind = "central" /\ intruded]_vars

\* `subscribe_params is never memset: after bt_gatt_unsubscribe() the host still holds this
\* pointer for the in-flight CCC write' (ensure_subscribed): while the stack has a CCC write
\* to be answered, the parameters it answers to are those it was given.
ParamsOutliveWrite == req = "ccc" => filled

\* What does hold of it: the stack is left with zeroed parameters only for a write on the link
\* that the reset is about to end or is ending, or that the stack refused to end, and none of
\* them outlives that link, however long its end takes and whatever the studies to come write
\* meanwhile.
WriteDiesWithLink ==
    req = "ccc" /\ ~filled =>
        active # NoConn /\ (at = "reset_drop" \/ link[active] = "closing" \/ refused)

\* The reset of a Hello leaves the next study nothing of the last one: neither a link, nor what
\* could become one, nor its own unanswered write.
ResetLeavesNothing == ResetIsHard /\ WriteDiesWithLink
=============================================================================
