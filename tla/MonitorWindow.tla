---------------------------- MODULE MonitorWindow ----------------------------
(***************************************************************************)
(* The GATT capture windows of app/src/ble_bridge_real.c: a step finds the *)
(* DUT's characteristics and subscribes to them, and either gives the      *)
(* subscriptions back itself (MonitorAll, MonitorSelected) or leaves them  *)
(* to later steps, to a MonitorStop, to the end of the study or to a Hello *)
(* (MonitorStart, MonitorSelectedStart).                                   *)
(*                                                                         *)
(* The dispatch thread runs the steps; the BT RX thread may run between    *)
(* any two of its actions and brings answers, notifications and the loss   *)
(* of the link.  The stack keeps a pointer to the parameters of each       *)
(* subscription: `listed` is the set of slots it has a pointer to.         *)
(***************************************************************************)
EXTENDS Naturals, Sequences

CONSTANTS
  Dut,        (* the DUT's characteristics, in order: can it notify?           *)
  Studies,    (* the studies Core may send, as sequences of steps              *)
  MaxSubs     (* BLE_MAX_MONITOR_SUBSCRIPTIONS                                 *)

Chars == DOMAIN Dut
Slots == 1..MaxSubs
Unnamed == 0          (* a flat index that uuids_for_flat_index does not find  *)

(* A target that is no index of Dut is one this DUT does not have.  No targets:
   every characteristic.                                                      *)
Step == [kind : {"connect", "discover", "start", "all", "stop", "bond", "unbond",
                 "other"}, targets : SUBSET Nat]

ASSUME MonitorAssumption ==
  /\ Dut \in Seq(BOOLEAN) /\ Dut # <<>>
  /\ Studies \subseteq Seq(Step)
  /\ \A s \in Studies : \A k \in DOMAIN s : Unnamed \notin s[k].targets
  /\ MaxSubs \in Nat \ {0}

VARIABLES
  pc,                     (* where the dispatch thread is                      *)
  todo, step,             (* the steps to come, and the one being run          *)
  at,                     (* the characteristic, or the slot, of a loop        *)
  after,                  (* what an unsubscribing loop is for                 *)
  answer,                 (* what ccc_sem has been given with                  *)
  conn,                   (* active_conn # NULL                                *)
  known,                  (* how many characteristics `discovered` holds       *)
  monitor_subscribe_count, monitor_char_index, monitor_window_open,
  handle,                 (* the value_handle of a slot's parameters           *)
  listed,                 (* the slots the stack holds, which the DUT notifies *)
  bonded,                 (* the stack keeps a bonded peer's subscriptions     *)
  orphaned,               (* history: slots are listed for which nobody is     *)
  filed                   (* history: what the last notification was filed as  *)

stepVars == <<todo, step, at, after>>
slotVars == <<monitor_subscribe_count, monitor_char_index>>
hostVars == <<handle, listed, bonded, orphaned>>
vars == <<pc, stepVars, answer, conn, known, slotVars, monitor_window_open, hostVars, filed>>

NoStep == [kind |-> "other", targets |-> {}]

Unfiltered == step.targets = {}
Matches(c) == Unfiltered \/ c \in step.targets

-----------------------------------------------------------------------------
(* The BT RX thread and the DUT.                                             *)

(* Which characteristic a notification on a slot is filed under.              *)
flat_index(k) == IF k <= monitor_subscribe_count THEN monitor_char_index[k] ELSE 1

uuids_for_flat_index(c) == IF c <= known THEN c ELSE Unnamed

(* "stray" is another characteristic's name while the slot is not counted yet,
   or was forgotten.                                                          *)
FiledAs(k) ==
  CASE uuids_for_flat_index(flat_index(k)) = handle[k] -> "own"
    [] uuids_for_flat_index(flat_index(k)) = Unnamed   -> "unnamed"
    [] OTHER -> IF pc \in {"ccc", "late"} \/ orphaned THEN "stray" ELSE "another"

monitor_notify_cb ==
  /\ conn
  /\ \E k \in listed : filed' = FiledAs(k)
  /\ UNCHANGED <<pc, stepVars, answer, conn, known, slotVars, monitor_window_open, hostVars>>

(* The DUT accepts the CCC write, and may notify from then on, or rejects it;
   the stack holds the slot only of one that is accepted.                     *)
subscribe_cb ==
  /\ pc \in {"ccc", "late"} /\ answer = "none"
  /\ \/ /\ conn
        /\ answer' = "ok"
        /\ listed' = listed \cup {monitor_subscribe_count + 1}
     \/ answer' = "rejected" /\ UNCHANGED listed
  /\ UNCHANGED <<pc, stepVars, conn, known, slotVars, monitor_window_open, handle, bonded,
                 orphaned, filed>>

(* Services and their characteristics arrive in order.                        *)
discover_all_chars_cb ==
  /\ pc = "discover" /\ conn
  /\ known < Len(Dut)
  /\ known' = known + 1
  /\ UNCHANGED <<pc, stepVars, answer, conn, slotVars, monitor_window_open, hostVars, filed>>

(* Subscriptions belong to the connection that is now gone, or to the bond.  *)
disconnected_cb ==
  /\ conn
  /\ conn' = FALSE
  /\ IF bonded THEN UNCHANGED <<listed, orphaned>> ELSE listed' = {} /\ orphaned' = FALSE
  /\ UNCHANGED <<pc, stepVars, answer, known, slotVars, monitor_window_open, handle, bonded, filed>>

-----------------------------------------------------------------------------
(* The end of a step: after a failure the study goes on or not.              *)
Ends(passed) == IF passed THEN pc' = "ready" ELSE pc' \in {"ready", "close"}

NextStep(kind) ==
  /\ pc = "ready" /\ todo # <<>> /\ Head(todo).kind = kind
  /\ step' = Head(todo) /\ todo' = Tail(todo)

execute_connect ==
  /\ NextStep("connect")
  /\ conn' \in {conn, TRUE}
  /\ Ends(conn')
  /\ UNCHANGED <<at, after, answer, known, slotVars, monitor_window_open, hostVars, filed>>

(* Pairing makes a bond or not, whatever becomes of the step.                 *)
execute_set_security ==
  /\ NextStep("bond")
  /\ bonded' \in {bonded, conn}
  /\ Ends(FALSE)
  /\ UNCHANGED <<at, after, answer, conn, known, slotVars, monitor_window_open, handle, listed,
                 orphaned, filed>>

(* The bond goes, and with it what the stack holds for it; the disconnection
   that follows is BT RX's.                                                   *)
Unpair ==
  /\ bonded' = FALSE
  /\ listed' = IF bonded THEN {} ELSE listed
  /\ orphaned' = (orphaned /\ ~bonded)

execute_unbond ==
  /\ NextStep("unbond")
  /\ Unpair
  /\ Ends(TRUE)
  /\ UNCHANGED <<at, after, answer, conn, known, slotVars, monitor_window_open, handle, filed>>

(* Any action that does nothing to subscriptions or bonds.                    *)
OtherStep ==
  /\ \/ NextStep("other") /\ pc' = "other"
     \/ pc = "other" /\ Ends(FALSE) /\ UNCHANGED <<step, todo>>
  /\ UNCHANGED <<at, after, answer, conn, known, slotVars, monitor_window_open, hostVars, filed>>

(* A loop over the slots that are counted.                                    *)
Unsubscribe(why) == pc' = "unsub" /\ at' = 1 /\ after' = why

PlaceAmongSubscribed == monitor_subscribe_count + 1
flat_characteristic_index == at

Counted ==
  /\ monitor_char_index' = [monitor_char_index EXCEPT
                              ![monitor_subscribe_count + 1] = flat_characteristic_index]
  /\ monitor_subscribe_count' = monitor_subscribe_count + 1
  /\ at' = at + 1

execute_gatt_monitor_window ==
  /\ NextStep("all") \/ NextStep("discover")
  /\ pc' = "match"
  /\ UNCHANGED <<at, after, answer, conn, known, slotVars, monitor_window_open, hostVars, filed>>

WindowIsLive == monitor_window_open

(* Re-arming over a live window would orphan its subscriptions.               *)
execute_gatt_monitor_window_start ==
  /\ NextStep("start")
  /\ \/ WindowIsLive /\ Unsubscribe("start")
     \/ ~WindowIsLive /\ pc' = "match" /\ UNCHANGED <<at, after>>
  /\ UNCHANGED <<answer, conn, known, slotVars, monitor_window_open, hostVars, filed>>

(* A failed start leaves no window open; what it has armed stays armed.       *)
MatchFails ==
  /\ Ends(FALSE)
  /\ monitor_window_open' = (monitor_window_open /\ step.kind # "start")

run_gatt_discovery ==
  /\ pc = "match"
  /\ \/ conn /\ pc' = "discover" /\ known' = 0 /\ UNCHANGED monitor_window_open
     \/ ~conn /\ MatchFails /\ UNCHANGED known
  /\ UNCHANGED <<stepVars, answer, conn, slotVars, hostVars, filed>>

(* The discovery is refused, times out, or loses the link.                    *)
DiscoveryFails ==
  /\ pc = "discover"
  /\ MatchFails
  /\ UNCHANGED <<stepVars, answer, conn, known, slotVars, hostVars, filed>>

(* A start over an open window has just closed it.                            *)
Rearms == step.kind = "start" /\ monitor_window_open

(* The slots are counted from zero, whoever holds them.                       *)
DiscoveryDone ==
  /\ pc = "discover" /\ known = Len(Dut)
  /\ \/ step.kind = "discover" /\ Ends(TRUE) /\ UNCHANGED <<at, monitor_subscribe_count, orphaned>>
     \/ /\ step.kind # "discover"
        /\ monitor_subscribe_count' = 0
        /\ orphaned' = (orphaned \/ (listed # {} /\ ~Rearms))
        /\ at' = 1 /\ pc' = "scan"
  /\ UNCHANGED <<todo, step, after, answer, conn, known, monitor_char_index, monitor_window_open,
                 handle, listed, bonded, filed>>

-----------------------------------------------------------------------------
(* monitor_subscribe_matching: the loop over the characteristics.            *)

HasSlotOrSo == monitor_subscribe_count <= MaxSubs
HasSlot == monitor_subscribe_count < MaxSubs

Wanted == Matches(at) /\ Dut[at] /\ HasSlot

SkipCharacteristic ==
  /\ pc = "scan" /\ at <= Len(Dut)
  /\ ~Wanted
  /\ at' = at + 1
  /\ UNCHANGED <<pc, todo, step, after, answer, conn, known, slotVars, monitor_window_open,
                 hostVars, filed>>

(* Clearing parameters that the stack holds cuts its list there: which other
   slots it still finds depends on the order they were added in.              *)
ClearParams(k) ==
  IF k \in listed THEN \E kept \in SUBSET listed : k \in kept /\ listed' = kept
                  ELSE UNCHANGED listed

(* -EALREADY counts, without a write; a CCC write is started, or refused.     *)
bt_gatt_subscribe ==
  LET k == monitor_subscribe_count + 1
  IN /\ pc = "scan" /\ at <= Len(Dut)
     /\ Wanted
     /\ handle' = [handle EXCEPT ![k] = at]
     /\ ClearParams(k)
     /\ \/ k \in listed /\ conn /\ Counted /\ UNCHANGED <<pc, answer>>
        \/ /\ k \notin listed /\ conn
           /\ pc' = "ccc" /\ answer' = "none"
           /\ UNCHANGED <<at, slotVars>>
        \/ /\ k \notin listed \/ ~conn
           /\ at' = at + 1
           /\ UNCHANGED <<pc, answer, slotVars>>
     /\ UNCHANGED <<todo, step, after, conn, known, monitor_window_open, bonded,
                    orphaned, filed>>

(* Any answer counts, a rejection too.                                        *)
SubscribeDone ==
  /\ pc = "ccc" /\ answer # "none"
  /\ Counted
  /\ pc' = "scan" /\ answer' = "none"
  /\ UNCHANGED <<todo, step, after, conn, known, monitor_window_open, hostVars, filed>>

SubscribeTimesOut ==
  /\ pc = "ccc" /\ answer = "none"
  /\ pc' = "late"
  /\ UNCHANGED <<stepVars, answer, conn, known, slotVars, monitor_window_open, hostVars, filed>>

(* There is nothing to cancel if the answer has come in the meantime.         *)
abandon ==
  /\ pc = "late"
  /\ at' = at + 1 /\ pc' = "scan" /\ answer' = "none"
  /\ orphaned' = (orphaned \/ monitor_subscribe_count + 1 \in listed)
  /\ UNCHANGED <<todo, step, after, conn, known, slotVars, monitor_window_open, handle, listed,
                 bonded, filed>>

TargetsFound == \A t \in step.targets : t \in Chars /\ Dut[t]

MatchingDone ==
  /\ pc = "scan" /\ at > Len(Dut)
  /\ at' = 1
  /\ \/ /\ ~TargetsFound /\ MatchFails
        /\ orphaned' = (orphaned \/ (listed # {} /\ ~monitor_window_open'))
     \/ /\ TargetsFound /\ step.kind = "all" /\ pc' = "capture"
        /\ UNCHANGED <<monitor_window_open, orphaned>>
     \/ /\ TargetsFound /\ step.kind = "start" /\ monitor_window_open' = TRUE /\ Ends(TRUE)
        /\ UNCHANGED orphaned
  /\ UNCHANGED <<todo, step, after, answer, conn, known, slotVars, handle, listed, bonded,
                 filed>>

-----------------------------------------------------------------------------
(* The end of a window.                                                      *)

UntilTheLinkGoes == ~conn
UntilDeadline == TRUE

(* The step's time is up, or the link goes.                                   *)
CaptureEnds ==
  /\ pc = "capture"
  /\ UntilDeadline
  /\ Unsubscribe("all")
  /\ UNCHANGED <<todo, step, answer, conn, known, slotVars, monitor_window_open, hostVars, filed>>

execute_gatt_monitor_stop ==
  /\ NextStep("stop")
  /\ \/ monitor_window_open /\ Unsubscribe("stop")
     \/ ~monitor_window_open /\ Ends(TRUE) /\ UNCHANGED <<at, after>>
  /\ UNCHANGED <<answer, conn, known, slotVars, monitor_window_open, hostVars, filed>>

LastIsLeft == at < monitor_subscribe_count
SlotIsCounted == at <= monitor_subscribe_count

(* Refused without a link.                                                    *)
bt_gatt_unsubscribe ==
  /\ pc = "unsub" /\ SlotIsCounted
  /\ at' = at + 1
  /\ IF conn THEN listed' = listed \ {at} /\ UNCHANGED orphaned
             ELSE orphaned' = (orphaned \/ at \in listed) /\ UNCHANGED listed
  /\ UNCHANGED <<pc, todo, step, after, answer, conn, known, slotVars, monitor_window_open, handle,
                 bonded, filed>>

monitor_unsubscribe_all ==
  /\ pc = "unsub" /\ ~SlotIsCounted
  /\ monitor_subscribe_count' = 0 /\ at' = 1
  /\ \/ after = "all" /\ Ends(FALSE) /\ UNCHANGED <<known, monitor_window_open>>
     \/ after = "start" /\ pc' = "match" /\ UNCHANGED <<known, monitor_window_open>>
     \/ after = "stop" /\ Ends(TRUE) /\ monitor_window_open' = FALSE /\ UNCHANGED known
     \/ after = "close" /\ pc' = "bonds" /\ monitor_window_open' = FALSE /\ UNCHANGED known
     \/ /\ after = "reset"
        /\ pc' = "hangup"
        /\ monitor_window_open' = FALSE /\ known' = 0
  /\ UNCHANGED <<todo, step, after, answer, conn, monitor_char_index, hostVars, filed>>

-----------------------------------------------------------------------------
(* The study around the steps, of main.c.                                    *)

StudyOver ==
  /\ pc = "ready" /\ todo = <<>>
  /\ pc' = "close"
  /\ UNCHANGED <<stepVars, answer, conn, known, slotVars, monitor_window_open, hostVars, filed>>

LeftToHello == FALSE
LeftOpen == monitor_window_open

(* A window the study left open is closed for it.                             *)
CloseWindow ==
  /\ pc = "close"
  /\ \/ LeftOpen /\ Unsubscribe("close")
     \/ ~LeftOpen /\ pc' = "bonds" /\ UNCHANGED <<at, after>>
  /\ UNCHANGED <<todo, step, answer, conn, known, slotVars, monitor_window_open, hostVars, filed>>

(* The disconnection is waited for, but not for ever.                         *)
ble_bridge_clear_bonds ==
  /\ \/ pc = "bonds" /\ pc' = "idle"
     \/ pc = "hangup" /\ pc' = "greeted"
  /\ Unpair
  /\ UNCHANGED <<stepVars, answer, conn, known, slotVars, monitor_window_open, handle, filed>>

ble_bridge_reset ==
  /\ pc \in {"idle", "greeted"}
  /\ Unsubscribe("reset")
  /\ todo' = <<>> /\ step' = NoStep
  /\ UNCHANGED <<answer, conn, known, slotVars, monitor_window_open, hostVars, filed>>

dispatch_study ==
  /\ pc = "greeted"
  /\ \E s \in Studies : todo' = s
  /\ pc' = "ready" /\ step' = NoStep
  /\ UNCHANGED <<at, after, answer, conn, known, slotVars, monitor_window_open, hostVars, filed>>

-----------------------------------------------------------------------------
Init ==
  /\ pc = "idle" /\ todo = <<>> /\ step = NoStep /\ at = 1 /\ after = "reset"
  /\ answer = "none" /\ conn = FALSE /\ known = 0
  /\ monitor_subscribe_count = 0 /\ monitor_char_index = [k \in Slots |-> 1]
  /\ monitor_window_open = FALSE
  /\ handle = [k \in Slots |-> 1] /\ listed = {}
  /\ bonded = FALSE /\ orphaned = FALSE
  /\ filed = "unnamed"

BtRx ==
  monitor_notify_cb \/ subscribe_cb \/ discover_all_chars_cb \/ disconnected_cb

Dispatch ==
  \/ execute_connect \/ execute_set_security \/ execute_unbond \/ OtherStep
  \/ execute_gatt_monitor_window \/ execute_gatt_monitor_window_start
  \/ run_gatt_discovery \/ DiscoveryFails \/ DiscoveryDone
  \/ SkipCharacteristic \/ bt_gatt_subscribe \/ SubscribeDone
  \/ SubscribeTimesOut \/ abandon \/ MatchingDone
  \/ CaptureEnds \/ execute_gatt_monitor_stop \/ bt_gatt_unsubscribe \/ monitor_unsubscribe_all
  \/ StudyOver \/ CloseWindow \/ ble_bridge_clear_bonds

Next == BtRx \/ Dispatch \/ ble_bridge_reset \/ dispatch_study

Spec == Init /\ [][Next]_vars

(* Each wait of the dispatch thread has a deadline.                           *)
FairSpec == Spec /\ WF_vars(Dispatch)

-----------------------------------------------------------------------------
(* Properties.                                                               *)

TypeOK ==
  /\ pc \in {"idle", "greeted", "ready", "other", "match", "discover", "scan", "ccc", "late",
             "capture", "unsub", "close", "bonds", "hangup"}
  /\ todo \in Seq(Step) /\ step \in Step
  /\ at \in Nat \ {0} /\ after \in {"all", "start", "stop", "close", "reset"}
  /\ answer \in {"none", "ok", "rejected"} /\ conn \in BOOLEAN
  /\ known \in 0..Len(Dut)
  /\ monitor_subscribe_count \in 0..MaxSubs /\ monitor_char_index \in [Slots -> Chars]
  /\ monitor_window_open \in BOOLEAN
  /\ handle \in [Slots -> Chars] /\ listed \subseteq Slots
  /\ bonded \in BOOLEAN /\ orphaned \in BOOLEAN
  /\ filed \in {"own", "unnamed", "stray", "another"}

(* Each slot the stack holds is counted, so that whoever ends the window gives
   it back and its parameters are not cleared under the stack; but for four
   ways to lose one: a step that subscribes while an earlier step's are armed
   and that does not re-arm their window, a step that fails over its targets
   when it has armed some, a bonded peer's unsubscribed without a link, and an
   answer between the end of the wait for it and its abandon.                 *)
OrphansHaveACause ==
  orphaned \/ listed \subseteq 1..monitor_subscribe_count
                                \cup (IF pc \in {"ccc", "late"}
                                      THEN {monitor_subscribe_count + 1} ELSE {})

(* Between steps without a window nothing is armed, but for those lost: a later
   step does not get an earlier step's notifications.                         *)
NothingArmedWhenClosed ==
  pc \in {"ready", "other"} /\ ~monitor_window_open => orphaned \/ listed = {}

(* However a study ended, with its window open or in mid-step, nothing of it
   is armed when the next one is awaited.                                    *)
WindowEndsWithStudy ==
  pc \in {"idle", "greeted"} => ~monitor_window_open /\ (orphaned \/ listed = {})

(* What a window or a capture has armed lasts no longer than that: neither a
   later step of its study nor a later study meets it.                        *)
NothingStaysArmed == NothingArmedWhenClosed /\ WindowEndsWithStudy

(* A notification is filed under the characteristic it is of, or under none
   while `discovered` is filled anew.  One that comes before its slot is
   counted goes under the slot being filled, and is left out (`stray').       *)
FiledUnderItsOwn == filed # "another"

(* Every study ends.                                                          *)
StudyEnds == pc = "ready" ~> pc = "idle"

(* Where a step starts to subscribe nothing is armed: what a window holds was
   given back before its slots are used again.                               *)
WindowOwnsItsSubscriptions == pc = "scan" /\ at = 1 => listed = {}
=============================================================================
