------------------------- MODULE MonitorWindowProofs -------------------------
(* Proofs about the capture windows for every DUT, every set of studies and    *)
(* any number of slots.                                                        *)
EXTENDS MonitorWindow, TLAPS

USE DEF stepVars, slotVars, hostVars, Slots, Chars

(* While a CCC write is answered its slot exists and is filled in; a slot that
   is counted is filed under the characteristic it was filled in for.          *)
SlotsFilled ==
  /\ pc \in {"ccc", "late"} => /\ monitor_subscribe_count < MaxSubs /\ at \in Chars
                               /\ handle[monitor_subscribe_count + 1] = at
  /\ \A k \in 1..monitor_subscribe_count : monitor_char_index[k] = handle[k]

(* The places where a step has subscriptions that belong to no window yet, or
   none any more.                                                              *)
InHand == {"scan", "ccc", "late", "capture", "unsub"}

(* What an unsubscribing loop has passed is given back; a start over an open
   window has given back all; outside a step in hand and without a window
   there is nothing to give back; no window outlives its study.                *)
GivenBack ==
  /\ pc = "unsub" => orphaned \/ \A k \in listed : k >= at
  /\ pc \in {"match", "discover"} /\ Rearms => orphaned \/ listed = {}
  /\ pc \notin InHand /\ ~monitor_window_open => orphaned \/ listed = {}
  /\ pc \in {"bonds", "idle", "hangup", "greeted"} => ~monitor_window_open

Owned == OrphansHaveACause /\ GivenBack

MWInv == TypeOK /\ SlotsFilled /\ Owned /\ FiledUnderItsOwn

-----------------------------------------------------------------------------
LEMMA DutFacts == Len(Dut) \in Nat \ {0} /\ DOMAIN Dut = 1..Len(Dut) /\ 1 \in Chars
BY MonitorAssumption

LEMMA TypeInit == Init => TypeOK /\ SlotsFilled
<1> SUFFICES ASSUME Init PROVE TypeOK /\ SlotsFilled
  OBVIOUS
<1>1. todo \in Seq(Step) /\ step \in Step
  BY DEF Init, NoStep, Step
<1>2. known \in 0..Len(Dut) /\ monitor_subscribe_count \in 0..MaxSubs
  BY DutFacts, MonitorAssumption DEF Init
<1>3. monitor_char_index \in [Slots -> Chars] /\ handle \in [Slots -> Chars]
  BY DutFacts DEF Init
<1>4. SlotsFilled
  BY DEF Init, SlotsFilled
<1>5. at \in Nat \ {0} /\ listed \subseteq Slots
  BY DEF Init
<1>6. /\ answer \in {"none", "ok", "rejected"} /\ filed \in {"own", "unnamed", "stray", "another"}
      /\ after \in {"all", "start", "stop", "close", "reset"}
      /\ pc \in {"idle", "greeted", "ready", "other", "match", "discover", "scan", "ccc", "late",
                 "capture", "unsub", "close", "bonds", "hangup"}
  BY DEF Init
<1>7. conn \in BOOLEAN /\ monitor_window_open \in BOOLEAN /\ bonded \in BOOLEAN /\ orphaned \in BOOLEAN
  BY Zenon DEF Init
<1> QED BY ONLY <1>1, <1>2, <1>3, <1>4, <1>5, <1>6, <1>7, Zenon DEF TypeOK

LEMMA NoStepType == NoStep \in Step /\ <<>> \in Seq(Step)
BY DEF NoStep, Step

(* The step taken from the study is one.                                       *)
LEMMA NextStepType ==
  ASSUME TypeOK, NEW kind, NextStep(kind)
  PROVE  step' \in Step /\ todo' \in Seq(Step)
BY DEF NextStep, TypeOK

LEMMA CountedType ==
  ASSUME TypeOK, Counted, at \in Chars, HasSlot
  PROVE  /\ monitor_char_index' \in [Slots -> Chars] /\ monitor_subscribe_count' \in 0..MaxSubs
         /\ at' \in Nat \ {0}
BY MonitorAssumption DEF TypeOK, Counted, HasSlot, flat_characteristic_index

LEMMA TypeNext ==
  ASSUME TypeOK, SlotsFilled, [Next]_vars
  PROVE  TypeOK'
<1> USE DEF TypeOK
<1>1. ASSUME monitor_notify_cb PROVE TypeOK'
  BY <1>1, DutFacts DEF monitor_notify_cb, FiledAs
<1>2. ASSUME subscribe_cb PROVE TypeOK'
  <2>1. monitor_subscribe_count + 1 \in Slots
    BY <1>2, MonitorAssumption DEF subscribe_cb, SlotsFilled
  <2>2. listed' \subseteq Slots /\ answer' \in {"none", "ok", "rejected"}
    BY <1>2, <2>1 DEF subscribe_cb
  <2> QED BY <1>2, <2>2 DEF subscribe_cb
<1>3. ASSUME discover_all_chars_cb PROVE TypeOK'
  BY <1>3, DutFacts DEF discover_all_chars_cb
<1>4. ASSUME disconnected_cb PROVE TypeOK'
  <2>1. listed' \subseteq Slots
    BY <1>4 DEF disconnected_cb
  <2>2. orphaned' \in BOOLEAN
    BY <1>4 DEF disconnected_cb
  <2>3. conn' \in BOOLEAN
    BY <1>4 DEF disconnected_cb
  <2> QED BY <1>4, <2>1, <2>2, <2>3 DEF disconnected_cb
<1>5. ASSUME execute_connect PROVE TypeOK'
  <2>1. todo' \in Seq(Step) /\ step' \in Step
    BY <1>5, NextStepType DEF execute_connect
  <2>2. conn' \in BOOLEAN
    BY <1>5 DEF execute_connect
  <2>3. pc' \in {"ready", "close"}
    BY <1>5 DEF execute_connect, Ends
  <2> QED BY <1>5, <2>1, <2>2, <2>3 DEF execute_connect
<1>6. ASSUME execute_set_security PROVE TypeOK'
  BY <1>6, NextStepType DEF execute_set_security, NextStep, Ends
<1>7. ASSUME execute_unbond PROVE TypeOK'
  BY <1>7, NextStepType DEF execute_unbond, NextStep, Ends, Unpair
<1>8. ASSUME OtherStep PROVE TypeOK'
  BY <1>8, NextStepType DEF OtherStep, NextStep, Ends
<1>9. ASSUME execute_gatt_monitor_window PROVE TypeOK'
  BY <1>9, NextStepType DEF execute_gatt_monitor_window, NextStep
<1>10. ASSUME execute_gatt_monitor_window_start PROVE TypeOK'
  BY <1>10, NextStepType DEF execute_gatt_monitor_window_start, NextStep, Unsubscribe, WindowIsLive
<1>11. ASSUME run_gatt_discovery PROVE TypeOK'
  BY <1>11, DutFacts DEF run_gatt_discovery, MatchFails, Ends
<1>12. ASSUME DiscoveryFails PROVE TypeOK'
  BY <1>12, DutFacts DEF DiscoveryFails, MatchFails, Ends
<1>13. ASSUME DiscoveryDone PROVE TypeOK'
  <2>1. at' \in Nat \ {0} /\ monitor_subscribe_count' \in 0..MaxSubs /\ pc' \in {"ready", "scan"}
    BY <1>13, MonitorAssumption DEF DiscoveryDone, Ends
  <2>2. orphaned' \in BOOLEAN
    BY <1>13 DEF DiscoveryDone
  <2> QED BY <1>13, <2>1, <2>2 DEF DiscoveryDone
<1>14. ASSUME SkipCharacteristic PROVE TypeOK'
  BY <1>14, DutFacts DEF SkipCharacteristic, Wanted, HasSlot
<1>15. ASSUME bt_gatt_subscribe PROVE TypeOK'
  <2>1. HasSlot /\ at \in Chars /\ monitor_subscribe_count + 1 \in Slots
    BY <1>15, DutFacts, MonitorAssumption DEF bt_gatt_subscribe, Wanted, HasSlot
  <2>2. handle' \in [Slots -> Chars] /\ listed' \subseteq Slots
    BY <1>15, <2>1 DEF bt_gatt_subscribe, ClearParams
  <2>3. pc' \in {"scan", "ccc"} /\ answer' \in {"none", "ok", "rejected"}
    BY <1>15 DEF bt_gatt_subscribe
  <2>4. /\ monitor_char_index' \in [Slots -> Chars] /\ monitor_subscribe_count' \in 0..MaxSubs
        /\ at' \in Nat \ {0}
    <3>1. CASE Counted
      BY <2>1, <3>1, CountedType
    <3>2. CASE UNCHANGED slotVars /\ (UNCHANGED at \/ at' = at + 1)
      BY <3>2
    <3> QED BY <1>15, <3>1, <3>2 DEF bt_gatt_subscribe
  <2> QED BY <1>15, <2>2, <2>3, <2>4 DEF bt_gatt_subscribe
<1>16. ASSUME SubscribeDone PROVE TypeOK'
  <2>1. HasSlot /\ at \in Chars /\ Counted /\ pc' = "scan" /\ answer' = "none"
    BY <1>16 DEF SubscribeDone, SlotsFilled, HasSlot
  <2> QED BY <1>16, <2>1, CountedType DEF SubscribeDone
<1>17. ASSUME SubscribeTimesOut PROVE TypeOK'
  BY <1>17, DutFacts DEF SubscribeTimesOut
<1>18. ASSUME abandon PROVE TypeOK'
  BY <1>18, DutFacts DEF abandon
<1>19. ASSUME MatchingDone PROVE TypeOK'
  <2>1. at' = 1 /\ pc' \in {"ready", "close", "capture"}
    BY <1>19 DEF MatchingDone, Ends, MatchFails
  <2>2. monitor_window_open' \in BOOLEAN
    BY <1>19 DEF MatchingDone, MatchFails
  <2>3. orphaned' \in BOOLEAN
    BY <1>19 DEF MatchingDone
  <2> QED BY <1>19, <2>1, <2>2, <2>3 DEF MatchingDone
<1>20. ASSUME CaptureEnds PROVE TypeOK'
  BY <1>20, DutFacts DEF CaptureEnds, Unsubscribe, UntilDeadline
<1>21. ASSUME execute_gatt_monitor_stop PROVE TypeOK'
  BY <1>21, NextStepType DEF execute_gatt_monitor_stop, NextStep, Ends, Unsubscribe
<1>22. ASSUME bt_gatt_unsubscribe PROVE TypeOK'
  <2>1. at' \in Nat \ {0} /\ listed' \subseteq Slots
    <3>1. at' = at + 1 /\ listed' \subseteq listed
      BY <1>22 DEF bt_gatt_unsubscribe
    <3> QED BY <3>1
  <2>2. orphaned' \in BOOLEAN
    BY <1>22 DEF bt_gatt_unsubscribe
  <2> QED BY <1>22, <2>1, <2>2 DEF bt_gatt_unsubscribe
<1>23. ASSUME monitor_unsubscribe_all PROVE TypeOK'
  <2>1. /\ monitor_subscribe_count' \in 0..MaxSubs /\ at' \in Nat \ {0} /\ known' \in 0..Len(Dut)
    <3>1. 0 \in 0..MaxSubs /\ 0 \in 0..Len(Dut)
      BY DutFacts, MonitorAssumption
    <3>2. monitor_subscribe_count' = 0 /\ at' = 1 /\ (known' = known \/ known' = 0)
      BY <1>23 DEF monitor_unsubscribe_all
    <3> QED BY <3>1, <3>2
  <2>2. pc' \in {"ready", "close", "match", "bonds", "hangup"}
    BY <1>23 DEF monitor_unsubscribe_all, Ends
  <2>3. monitor_window_open' \in BOOLEAN
    BY <1>23 DEF monitor_unsubscribe_all
  <2> QED BY <1>23, <2>1, <2>2, <2>3 DEF monitor_unsubscribe_all
<1>24. ASSUME StudyOver PROVE TypeOK'
  BY <1>24, DutFacts DEF StudyOver
<1>25. ASSUME CloseWindow PROVE TypeOK'
  BY <1>25, DutFacts DEF CloseWindow, Unsubscribe, LeftOpen
<1>26. ASSUME ble_bridge_clear_bonds PROVE TypeOK'
  BY <1>26, DutFacts DEF ble_bridge_clear_bonds, Unpair
<1>27. ASSUME ble_bridge_reset PROVE TypeOK'
  <2>1. todo' \in Seq(Step) /\ step' \in Step /\ pc' = "unsub" /\ at' = 1 /\ after' = "reset"
    BY <1>27, NoStepType DEF ble_bridge_reset, Unsubscribe
  <2> QED BY <1>27, <2>1 DEF ble_bridge_reset
<1>28. ASSUME dispatch_study PROVE TypeOK'
  <2>1. todo' \in Seq(Step) /\ step' \in Step /\ pc' = "ready"
    BY <1>28, MonitorAssumption, NoStepType DEF dispatch_study
  <2> QED BY <1>28, <2>1 DEF dispatch_study
<1>29. ASSUME UNCHANGED vars PROVE TypeOK'
  BY <1>29 DEF vars
<1> QED
  BY <1>1, <1>2, <1>3, <1>4, <1>5, <1>6, <1>7, <1>8, <1>9, <1>10, <1>11, <1>12, <1>13, <1>14,
     <1>15, <1>16, <1>17, <1>18, <1>19, <1>20, <1>21, <1>22, <1>23, <1>24, <1>25, <1>26, <1>27,
     <1>28, <1>29 DEF Next, BtRx, Dispatch

-----------------------------------------------------------------------------
(* Who answers for what the stack holds.                                       *)
LEMMA OwnedNext ==
  ASSUME TypeOK, SlotsFilled, Owned, [Next]_vars
  PROVE  Owned'
<1> USE DEF Owned, OrphansHaveACause, GivenBack, InHand, Rearms
<1>1. ASSUME monitor_notify_cb PROVE Owned'
  BY <1>1 DEF monitor_notify_cb, TypeOK
<1>2. ASSUME subscribe_cb PROVE Owned'
  BY <1>2 DEF subscribe_cb, TypeOK
<1>3. ASSUME discover_all_chars_cb PROVE Owned'
  BY <1>3 DEF discover_all_chars_cb, TypeOK
<1>4. ASSUME disconnected_cb PROVE Owned'
  BY <1>4 DEF disconnected_cb, TypeOK
<1>5. ASSUME execute_connect PROVE Owned'
  BY <1>5 DEF execute_connect, NextStep, Ends, TypeOK
<1>6. ASSUME execute_set_security PROVE Owned'
  BY <1>6 DEF execute_set_security, NextStep, Ends, TypeOK
<1>7. ASSUME execute_unbond PROVE Owned'
  BY <1>7 DEF execute_unbond, NextStep, Ends, Unpair, TypeOK
<1>8. ASSUME OtherStep PROVE Owned'
  BY <1>8 DEF OtherStep, NextStep, Ends, TypeOK
<1>9. ASSUME execute_gatt_monitor_window PROVE Owned'
  BY <1>9 DEF execute_gatt_monitor_window, NextStep, TypeOK
<1>10. ASSUME execute_gatt_monitor_window_start PROVE Owned'
  BY <1>10 DEF execute_gatt_monitor_window_start, NextStep, Unsubscribe, WindowIsLive, TypeOK
<1>11. ASSUME run_gatt_discovery PROVE Owned'
  BY <1>11 DEF run_gatt_discovery, MatchFails, Ends, TypeOK
<1>12. ASSUME DiscoveryFails PROVE Owned'
  BY <1>12 DEF DiscoveryFails, MatchFails, Ends, TypeOK
<1>13. ASSUME DiscoveryDone PROVE Owned'
  BY <1>13 DEF DiscoveryDone, Ends, TypeOK
<1>14. ASSUME SkipCharacteristic PROVE Owned'
  BY <1>14 DEF SkipCharacteristic, Wanted, HasSlot, TypeOK
<1>15. ASSUME bt_gatt_subscribe PROVE Owned'
  <2>1. /\ pc = "scan" /\ pc' \in {"scan", "ccc"} /\ listed' \subseteq listed
        /\ UNCHANGED <<orphaned, monitor_window_open>>
    BY <1>15 DEF bt_gatt_subscribe, ClearParams
  <2>2. CASE monitor_subscribe_count + 1 \in listed
    <3>1. orphaned
      BY <2>1, <2>2 DEF TypeOK
    <3> QED BY <2>1, <3>1
  <2>3. CASE monitor_subscribe_count + 1 \notin listed
    <3>1. monitor_subscribe_count' = monitor_subscribe_count
      BY <1>15, <2>3 DEF bt_gatt_subscribe
    <3> QED BY <2>1, <3>1
  <2> QED BY <2>2, <2>3
<1>16. ASSUME SubscribeDone PROVE Owned'
  BY <1>16 DEF SubscribeDone, Counted, TypeOK
<1>17. ASSUME SubscribeTimesOut PROVE Owned'
  BY <1>17 DEF SubscribeTimesOut, TypeOK
<1>18. ASSUME abandon PROVE Owned'
  BY <1>18 DEF abandon, TypeOK
<1>19. ASSUME MatchingDone PROVE Owned'
  <2>1. pc = "scan" /\ UNCHANGED <<listed, monitor_subscribe_count>>
    BY <1>19 DEF MatchingDone
  <2>2. CASE ~TargetsFound
    <3>1. /\ pc' \in {"ready", "close"}
          /\ orphaned' = (orphaned \/ (listed # {} /\ ~monitor_window_open'))
      BY <1>19, <2>2 DEF MatchingDone, MatchFails, Ends
    <3> QED BY <2>1, <3>1 DEF TypeOK
  <2>3. CASE TargetsFound /\ step.kind = "all"
    <3>1. pc' = "capture" /\ UNCHANGED <<monitor_window_open, orphaned>>
      BY <1>19, <2>3 DEF MatchingDone
    <3> QED BY <2>1, <3>1 DEF TypeOK
  <2>4. CASE TargetsFound /\ step.kind = "start"
    <3>1. pc' = "ready" /\ monitor_window_open' /\ UNCHANGED orphaned
      BY <1>19, <2>4 DEF MatchingDone, Ends
    <3> QED BY <2>1, <3>1 DEF TypeOK
  <2> QED BY <1>19, <2>2, <2>3, <2>4 DEF MatchingDone
<1>20. ASSUME CaptureEnds PROVE Owned'
  BY <1>20 DEF CaptureEnds, Unsubscribe, UntilDeadline, TypeOK
<1>21. ASSUME execute_gatt_monitor_stop PROVE Owned'
  BY <1>21 DEF execute_gatt_monitor_stop, NextStep, Ends, Unsubscribe, TypeOK
<1>22. ASSUME bt_gatt_unsubscribe PROVE Owned'
  <2>1. /\ pc = "unsub" /\ pc' = "unsub" /\ at' = at + 1 /\ listed' \subseteq listed
        /\ UNCHANGED <<monitor_subscribe_count, monitor_window_open>>
    BY <1>22 DEF bt_gatt_unsubscribe
  <2>2. CASE orphaned'
    BY <2>1, <2>2
  <2>3. CASE ~orphaned'
    <3>1. ~orphaned /\ at \notin listed'
      BY <1>22, <2>3 DEF bt_gatt_unsubscribe
    <3>2. \A k \in listed' : k \in Nat /\ k >= at /\ k # at
      BY <2>1, <3>1 DEF TypeOK
    <3>3. \A k \in listed' : k >= at'
      BY <2>1, <3>2 DEF TypeOK
    <3> QED BY <2>1, <3>1, <3>3
  <2> QED BY <2>2, <2>3
<1>23. ASSUME monitor_unsubscribe_all PROVE Owned'
  BY <1>23 DEF monitor_unsubscribe_all, Ends, SlotIsCounted, TypeOK
<1>24. ASSUME StudyOver PROVE Owned'
  BY <1>24 DEF StudyOver, TypeOK
<1>25. ASSUME CloseWindow PROVE Owned'
  BY <1>25 DEF CloseWindow, Unsubscribe, LeftOpen, TypeOK
<1>26. ASSUME ble_bridge_clear_bonds PROVE Owned'
  BY <1>26 DEF ble_bridge_clear_bonds, Unpair, TypeOK
<1>27. ASSUME ble_bridge_reset PROVE Owned'
  BY <1>27 DEF ble_bridge_reset, Unsubscribe, TypeOK
<1>28. ASSUME dispatch_study PROVE Owned'
  BY <1>28 DEF dispatch_study, TypeOK
<1>29. ASSUME UNCHANGED vars PROVE Owned'
  BY <1>29 DEF vars
<1> QED
  BY <1>1, <1>2, <1>3, <1>4, <1>5, <1>6, <1>7, <1>8, <1>9, <1>10, <1>11, <1>12, <1>13, <1>14,
     <1>15, <1>16, <1>17, <1>18, <1>19, <1>20, <1>21, <1>22, <1>23, <1>24, <1>25, <1>26, <1>27,
     <1>28, <1>29 DEF Next, BtRx, Dispatch

-----------------------------------------------------------------------------
(* Slots are filled in before they are counted.                                *)
LEMMA CountedFills ==
  ASSUME TypeOK, SlotsFilled, HasSlot, Counted, handle' \in [Slots -> Chars],
         handle'[monitor_subscribe_count + 1] = at,
         \A k \in 1..monitor_subscribe_count : handle'[k] = handle[k]
  PROVE  \A k \in 1..monitor_subscribe_count' : monitor_char_index'[k] = handle'[k]
<1> SUFFICES ASSUME NEW k \in 1..monitor_subscribe_count'
             PROVE  monitor_char_index'[k] = handle'[k]
  OBVIOUS
<1>1. monitor_subscribe_count \in Nat /\ monitor_subscribe_count + 1 \in Slots
  BY MonitorAssumption DEF TypeOK, HasSlot
<1>2. CASE k = monitor_subscribe_count + 1
  BY <1>1, <1>2 DEF TypeOK, Counted, flat_characteristic_index
<1>3. CASE k # monitor_subscribe_count + 1
  <2>1. k \in 1..monitor_subscribe_count /\ k \in Slots
    <3>1. k \in 1..(monitor_subscribe_count + 1)
      BY DEF Counted
    <3> QED BY <1>1, <1>3, <3>1, MonitorAssumption DEF HasSlot
  <2> QED BY <1>1, <1>3, <2>1 DEF TypeOK, Counted, SlotsFilled
<1> QED BY <1>2, <1>3

LEMMA FilledNext ==
  ASSUME TypeOK, SlotsFilled, [Next]_vars
  PROVE  SlotsFilled'
<1> USE DEF SlotsFilled
<1>1. ASSUME monitor_notify_cb PROVE SlotsFilled'
  BY <1>1 DEF monitor_notify_cb, FiledAs, TypeOK
<1>2. ASSUME subscribe_cb PROVE SlotsFilled'
  BY <1>2 DEF subscribe_cb, TypeOK
<1>3. ASSUME discover_all_chars_cb PROVE SlotsFilled'
  BY <1>3 DEF discover_all_chars_cb, TypeOK
<1>4. ASSUME disconnected_cb PROVE SlotsFilled'
  BY <1>4 DEF disconnected_cb, TypeOK
<1>5. ASSUME execute_connect PROVE SlotsFilled'
  BY <1>5 DEF execute_connect, NextStep, Ends, TypeOK
<1>6. ASSUME execute_set_security PROVE SlotsFilled'
  BY <1>6 DEF execute_set_security, NextStep, Ends, TypeOK
<1>7. ASSUME execute_unbond PROVE SlotsFilled'
  BY <1>7 DEF execute_unbond, NextStep, Ends, Unpair, TypeOK
<1>8. ASSUME OtherStep PROVE SlotsFilled'
  BY <1>8 DEF OtherStep, NextStep, Ends, TypeOK
<1>9. ASSUME execute_gatt_monitor_window PROVE SlotsFilled'
  BY <1>9 DEF execute_gatt_monitor_window, NextStep, TypeOK
<1>10. ASSUME execute_gatt_monitor_window_start PROVE SlotsFilled'
  BY <1>10 DEF execute_gatt_monitor_window_start, NextStep, Unsubscribe, WindowIsLive, TypeOK
<1>11. ASSUME run_gatt_discovery PROVE SlotsFilled'
  BY <1>11 DEF run_gatt_discovery, MatchFails, Ends, TypeOK
<1>12. ASSUME DiscoveryFails PROVE SlotsFilled'
  BY <1>12 DEF DiscoveryFails, MatchFails, Ends, TypeOK
<1>13. ASSUME DiscoveryDone PROVE SlotsFilled'
  BY <1>13 DEF DiscoveryDone, Ends, TypeOK
<1>14. ASSUME SkipCharacteristic PROVE SlotsFilled'
  BY <1>14 DEF SkipCharacteristic, Wanted, HasSlot, TypeOK
<1>15. ASSUME bt_gatt_subscribe PROVE SlotsFilled'
  <2> DEFINE n == monitor_subscribe_count
  <2>1. /\ HasSlot /\ pc = "scan" /\ handle' = [handle EXCEPT ![n + 1] = at]
        /\ at \in Chars /\ n \in Nat /\ n + 1 \in Slots
    BY <1>15, DutFacts, MonitorAssumption DEF bt_gatt_subscribe, Wanted, HasSlot, TypeOK
  <2>2. /\ handle' \in [Slots -> Chars] /\ handle'[n + 1] = at
        /\ \A k \in 1..n : handle'[k] = handle[k]
    BY <2>1 DEF TypeOK, HasSlot
  <2>3. CASE Counted /\ UNCHANGED pc
    BY <2>1, <2>2, <2>3, CountedFills
  <2>4. CASE UNCHANGED slotVars /\ (pc' = "ccc" => UNCHANGED at) /\ pc' # "late"
    BY <2>1, <2>2, <2>4 DEF HasSlot
  <2> QED BY <1>15, <2>1, <2>3, <2>4 DEF bt_gatt_subscribe
<1>16. ASSUME SubscribeDone PROVE SlotsFilled'
  <2>1. HasSlot /\ Counted /\ pc' = "scan" /\ UNCHANGED handle
    BY <1>16 DEF SubscribeDone, HasSlot
  <2>2. handle'[monitor_subscribe_count + 1] = at /\ handle' \in [Slots -> Chars]
    BY <1>16, <2>1 DEF SubscribeDone, TypeOK
  <2> QED BY <2>1, <2>2, CountedFills
<1>17. ASSUME SubscribeTimesOut PROVE SlotsFilled'
  BY <1>17 DEF SubscribeTimesOut, TypeOK
<1>18. ASSUME abandon PROVE SlotsFilled'
  BY <1>18 DEF abandon, TypeOK
<1>19. ASSUME MatchingDone PROVE SlotsFilled'
  BY <1>19 DEF MatchingDone, Ends, MatchFails, TypeOK
<1>20. ASSUME CaptureEnds PROVE SlotsFilled'
  BY <1>20 DEF CaptureEnds, Unsubscribe, UntilDeadline, TypeOK
<1>21. ASSUME execute_gatt_monitor_stop PROVE SlotsFilled'
  BY <1>21 DEF execute_gatt_monitor_stop, NextStep, Ends, Unsubscribe, TypeOK
<1>22. ASSUME bt_gatt_unsubscribe PROVE SlotsFilled'
  BY <1>22 DEF bt_gatt_unsubscribe, SlotIsCounted, TypeOK
<1>23. ASSUME monitor_unsubscribe_all PROVE SlotsFilled'
  BY <1>23 DEF monitor_unsubscribe_all, Ends, SlotIsCounted, TypeOK
<1>24. ASSUME StudyOver PROVE SlotsFilled'
  BY <1>24 DEF StudyOver, TypeOK
<1>25. ASSUME CloseWindow PROVE SlotsFilled'
  BY <1>25 DEF CloseWindow, Unsubscribe, LeftOpen, TypeOK
<1>26. ASSUME ble_bridge_clear_bonds PROVE SlotsFilled'
  BY <1>26 DEF ble_bridge_clear_bonds, Unpair, TypeOK
<1>27. ASSUME ble_bridge_reset PROVE SlotsFilled'
  BY <1>27 DEF ble_bridge_reset, Unsubscribe, NoStep, TypeOK
<1>28. ASSUME dispatch_study PROVE SlotsFilled'
  BY <1>28 DEF dispatch_study, NoStep, TypeOK
<1>29. ASSUME UNCHANGED vars PROVE SlotsFilled'
  BY <1>29 DEF vars, TypeOK
<1> QED
  BY <1>1, <1>2, <1>3, <1>4, <1>5, <1>6, <1>7, <1>8, <1>9, <1>10, <1>11, <1>12, <1>13, <1>14,
     <1>15, <1>16, <1>17, <1>18, <1>19, <1>20, <1>21, <1>22, <1>23, <1>24, <1>25, <1>26, <1>27,
     <1>28, <1>29 DEF Next, BtRx, Dispatch

-----------------------------------------------------------------------------
(* What a notification is filed as.                                            *)
LEMMA FiledNext ==
  ASSUME TypeOK, SlotsFilled, Owned, FiledUnderItsOwn, [Next]_vars
  PROVE  FiledUnderItsOwn'
<1> USE DEF FiledUnderItsOwn
<1>1. ASSUME monitor_notify_cb PROVE FiledUnderItsOwn'
  <2>1. PICK k \in listed : filed' = FiledAs(k)
    BY <1>1 DEF monitor_notify_cb
  <2>2. CASE orphaned \/ pc \in {"ccc", "late"}
    BY <2>1, <2>2 DEF FiledAs
  <2>3. CASE ~orphaned /\ pc \notin {"ccc", "late"}
    <3>1. k \in 1..monitor_subscribe_count
      BY <2>3 DEF Owned, OrphansHaveACause
    <3>2. flat_index(k) = handle[k]
      BY <3>1 DEF flat_index, SlotsFilled, TypeOK
    <3>3. uuids_for_flat_index(flat_index(k)) \in {handle[k], Unnamed}
      BY <3>2 DEF uuids_for_flat_index
    <3> QED BY <2>1, <3>3 DEF FiledAs
  <2> QED BY <2>2, <2>3
<1>2. ASSUME subscribe_cb PROVE FiledUnderItsOwn'
  BY <1>2 DEF subscribe_cb
<1>3. ASSUME discover_all_chars_cb PROVE FiledUnderItsOwn'
  BY <1>3 DEF discover_all_chars_cb
<1>4. ASSUME disconnected_cb PROVE FiledUnderItsOwn'
  BY <1>4 DEF disconnected_cb
<1>5. ASSUME execute_connect PROVE FiledUnderItsOwn'
  BY <1>5 DEF execute_connect, NextStep, Ends
<1>6. ASSUME execute_set_security PROVE FiledUnderItsOwn'
  BY <1>6 DEF execute_set_security, NextStep, Ends
<1>7. ASSUME execute_unbond PROVE FiledUnderItsOwn'
  BY <1>7 DEF execute_unbond, NextStep, Ends, Unpair
<1>8. ASSUME OtherStep PROVE FiledUnderItsOwn'
  BY <1>8 DEF OtherStep, NextStep, Ends
<1>9. ASSUME execute_gatt_monitor_window PROVE FiledUnderItsOwn'
  BY <1>9 DEF execute_gatt_monitor_window, NextStep
<1>10. ASSUME execute_gatt_monitor_window_start PROVE FiledUnderItsOwn'
  BY <1>10 DEF execute_gatt_monitor_window_start, NextStep, Unsubscribe, WindowIsLive
<1>11. ASSUME run_gatt_discovery PROVE FiledUnderItsOwn'
  BY <1>11 DEF run_gatt_discovery, MatchFails, Ends
<1>12. ASSUME DiscoveryFails PROVE FiledUnderItsOwn'
  BY <1>12 DEF DiscoveryFails, MatchFails, Ends
<1>13. ASSUME DiscoveryDone PROVE FiledUnderItsOwn'
  BY <1>13 DEF DiscoveryDone, Ends
<1>14. ASSUME SkipCharacteristic PROVE FiledUnderItsOwn'
  BY <1>14 DEF SkipCharacteristic, Wanted, HasSlot
<1>15. ASSUME bt_gatt_subscribe PROVE FiledUnderItsOwn'
  BY <1>15 DEF bt_gatt_subscribe, Counted, ClearParams, Wanted, HasSlot, flat_characteristic_index
<1>16. ASSUME SubscribeDone PROVE FiledUnderItsOwn'
  BY <1>16 DEF SubscribeDone, Counted, flat_characteristic_index
<1>17. ASSUME SubscribeTimesOut PROVE FiledUnderItsOwn'
  BY <1>17 DEF SubscribeTimesOut
<1>18. ASSUME abandon PROVE FiledUnderItsOwn'
  BY <1>18 DEF abandon
<1>19. ASSUME MatchingDone PROVE FiledUnderItsOwn'
  BY <1>19 DEF MatchingDone, Ends, MatchFails
<1>20. ASSUME CaptureEnds PROVE FiledUnderItsOwn'
  BY <1>20 DEF CaptureEnds, Unsubscribe, UntilDeadline
<1>21. ASSUME execute_gatt_monitor_stop PROVE FiledUnderItsOwn'
  BY <1>21 DEF execute_gatt_monitor_stop, NextStep, Ends, Unsubscribe
<1>22. ASSUME bt_gatt_unsubscribe PROVE FiledUnderItsOwn'
  BY <1>22 DEF bt_gatt_unsubscribe, SlotIsCounted
<1>23. ASSUME monitor_unsubscribe_all PROVE FiledUnderItsOwn'
  BY <1>23 DEF monitor_unsubscribe_all, Ends, SlotIsCounted
<1>24. ASSUME StudyOver PROVE FiledUnderItsOwn'
  BY <1>24 DEF StudyOver
<1>25. ASSUME CloseWindow PROVE FiledUnderItsOwn'
  BY <1>25 DEF CloseWindow, Unsubscribe, LeftOpen
<1>26. ASSUME ble_bridge_clear_bonds PROVE FiledUnderItsOwn'
  BY <1>26 DEF ble_bridge_clear_bonds, Unpair
<1>27. ASSUME ble_bridge_reset PROVE FiledUnderItsOwn'
  BY <1>27 DEF ble_bridge_reset, Unsubscribe, NoStep
<1>28. ASSUME dispatch_study PROVE FiledUnderItsOwn'
  BY <1>28 DEF dispatch_study, NoStep
<1>29. ASSUME UNCHANGED vars PROVE FiledUnderItsOwn'
  BY <1>29 DEF vars
<1> QED
  BY <1>1, <1>2, <1>3, <1>4, <1>5, <1>6, <1>7, <1>8, <1>9, <1>10, <1>11, <1>12, <1>13, <1>14,
     <1>15, <1>16, <1>17, <1>18, <1>19, <1>20, <1>21, <1>22, <1>23, <1>24, <1>25, <1>26, <1>27,
     <1>28, <1>29 DEF Next, BtRx, Dispatch

-----------------------------------------------------------------------------
(* The theorems.                                                               *)
LEMMA InvInit == Init => MWInv
<1> SUFFICES ASSUME Init PROVE MWInv
  OBVIOUS
<1>1. Owned
  BY DEF Init, Owned, OrphansHaveACause, GivenBack, InHand
<1>2. FiledUnderItsOwn
  BY DEF Init, FiledUnderItsOwn
<1> QED BY <1>1, <1>2, TypeInit DEF MWInv

LEMMA InvNext == MWInv /\ [Next]_vars => MWInv'
BY TypeNext, FilledNext, OwnedNext, FiledNext DEF MWInv

LEMMA WindowInvariant == Spec => []MWInv
BY InvInit, InvNext, PTL DEF Spec

(* Types, for every DUT, every set of studies and any number of slots.        *)
THEOREM WindowTypeCorrect == Spec => []TypeOK
<1>1. MWInv => TypeOK
  BY DEF MWInv
<1> QED BY <1>1, WindowInvariant, PTL

(* Whatever the steps of the studies and wherever BT RX comes between them, the
   stack holds only slots that are counted, but for the four ways named.      *)
THEOREM OrphansCaused == Spec => []OrphansHaveACause
<1>1. MWInv => OrphansHaveACause
  BY DEF MWInv, Owned
<1> QED BY <1>1, WindowInvariant, PTL

(* No step without a window starts with an earlier step's subscriptions.      *)
THEOREM ClosedMeansDisarmed == Spec => []NothingArmedWhenClosed
<1>1. MWInv => NothingArmedWhenClosed
  BY DEF MWInv, Owned, GivenBack, InHand, NothingArmedWhenClosed
<1> QED BY <1>1, WindowInvariant, PTL

(* No study leaves a window, or a subscription of one, to the next.           *)
THEOREM StudyEndsItsWindow == Spec => []WindowEndsWithStudy
<1>1. MWInv => WindowEndsWithStudy
  BY DEF MWInv, Owned, GivenBack, InHand, WindowEndsWithStudy
<1> QED BY <1>1, WindowInvariant, PTL

(* A notification of a counted slot is filed under its characteristic or under
   none, also while a discovery inside the window fills `discovered` anew.    *)
THEOREM FiledRight == Spec => []FiledUnderItsOwn
<1>1. MWInv => FiledUnderItsOwn
  BY DEF MWInv
<1> QED BY <1>1, WindowInvariant, PTL

(* What a window or a capture has armed meets no later step without a window
   and no later study, but for the four ways a slot is lost.                  *)
THEOREM NothingRemainsArmed == Spec => []NothingStaysArmed
<1>1. NothingArmedWhenClosed /\ WindowEndsWithStudy => NothingStaysArmed
  BY DEF NothingStaysArmed
<1> QED BY <1>1, ClosedMeansDisarmed, StudyEndsItsWindow, PTL
=============================================================================
