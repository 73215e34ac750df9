---------------------------- MODULE StreamTapsLink ----------------------------
(***************************************************************************)
(* StreamTaps implements CaptureLink: whatever the three threads do, Core  *)
(* sees each tap opened at most once, its records between its StreamOpen   *)
(* and its StreamClose, and StudyDone with no tap open.  The proof rests   *)
(* on LinkInv, which ties what the TX thread reads (tap_open) to what the  *)
(* dispatch thread has already sent (wire).  And the books of every tap    *)
(* are kept (Ledger): losses are never overstated and never hidden.        *)
(***************************************************************************)
EXTENDS StreamTapsProofs, FiniteSetTheorems

linkVars == <<pc, step, study, change, tap_open, wire>>

(* Ours are tap ids with windows given by two step numbers.                   *)
LEMMA OursAreIds ==
  ASSUME TypeOK
  PROVE  \A i \in Ours : /\ i \in TapIds
                         /\ study.taps[i].whole \in BOOLEAN
                         /\ study.taps[i].from \in Nat
                         /\ study.taps[i].to \in Nat
BY TapsAreIds DEF Ours, TapDecl

LEMMA LinkInit == Init => LinkInv
BY DEF Init, LinkInv, WireAgrees, WindowsInOrder, ChangeIsDue, AllShut, Changing, Closing

(* Neither the BT RX thread nor the TX and log threads touch what LinkInv
   speaks of.                                                                 *)
LEMMA OthersKeepLink ==
  ASSUME LinkInv, UNCHANGED linkVars
  PROVE  LinkInv'
BY DEF LinkInv, linkVars, WireAgrees, WindowsInOrder, ChangeIsDue, AllShut, Changing, Closing,
       Reached, Past, Ours

(* The dispatch thread moves on without changing a tap.                       *)
LEMMA MovingOnKeepsLink ==
  ASSUME TypeOK, LinkInv, ~Changing,
         UNCHANGED <<study, change, tap_open, wire>>,
         step' \in Nat, step' >= step,
         pc' \notin {"want", "mark"},
         pc \in {"close", "bonds", "done", "idle"} => pc' \in {"close", "bonds", "done", "idle"},
         pc' \in {"bonds", "done", "idle"} => \A i \in TapIds : wire[i] # "open"
  PROVE  LinkInv'
<1>1. Ours' = Ours
  BY DEF Ours
<1>2. WireAgrees'
  BY DEF LinkInv, WireAgrees, Changing
<1>3. \A i \in Ours : (Reached(i) => Reached(i)') /\ (Past(i) => Past(i)')
  <2>1. TAKE i \in Ours
  <2>2. study.taps[i].from \in Nat /\ study.taps[i].to \in Nat /\ step \in Nat
    BY OursAreIds DEF TypeOK
  <2>3. step >= study.taps[i].from => step' >= study.taps[i].from
    BY <2>2
  <2>4. step > study.taps[i].to => step' > study.taps[i].to
    BY <2>2
  <2> QED BY <2>3, <2>4, Zenon DEF Reached, Past
<1>4. \A i \in TapIds : wire[i] = "closed" => Closing' \/ Past(i)'
  BY <1>3 DEF LinkInv, WindowsInOrder, Closing, Changing
<1>5. WindowsInOrder'
  BY <1>1, <1>3, <1>4 DEF LinkInv, WindowsInOrder
<1>6. ~Changing'
  BY DEF Changing
<1>7. ChangeIsDue' /\ AllShut'
  BY <1>6 DEF ChangeIsDue, AllShut
<1> QED BY <1>2, <1>5, <1>7 DEF LinkInv

(* The dispatch thread sets out to open or close the first tap out of line.   *)
LEMMA BeginKeepsLink ==
  ASSUME TypeOK, LinkInv, NEW want \in [Ours -> BOOLEAN], NEW back \in {"sync", "close"},
         pc = back,
         BeginChange(want, back),
         \A i \in Ours : want[i] => back = "sync" /\ Reached(i),
         \A i \in Ours : ~want[i] /\ tap_open[i] => back = "close" \/ Past(i),
         \A i \in Ours : want[i] /\ back = "sync" => ~Past(i)
  PROVE  LinkInv'
<1>1. PICK i \in FirstOff(want) :
        /\ change' = [tap |-> i, open |-> want[i], back |-> back,
                      dropped |-> IF want[i] THEN 0 ELSE tap_dropped[i]]
        /\ pc' = "want"
        /\ UNCHANGED <<step, study, tap_open, wire>>
  BY DEF BeginChange, tapVars, coreVars
<1>2. i \in Ours /\ want[i] # tap_open[i] /\ want[i] \in BOOLEAN /\ i \in TapIds
  BY OursAreIds DEF FirstOff
<1>3. /\ change'.tap = i /\ change'.open = want[i] /\ change'.back = back
  BY <1>1
<1>4. Ours' = Ours /\ \A j : Reached(j)' = Reached(j) /\ Past(j)' = Past(j)
  BY <1>1 DEF Ours, Reached, Past
<1>5. Closing => Closing'
  BY <1>1, <1>3 DEF Closing, Changing
<1>6. tap_open[i] <=> wire[i] = "open"
  BY <1>2 DEF LinkInv, WireAgrees
<1>7. WireAgrees'
  BY <1>1 DEF LinkInv, WireAgrees
<1>8. WindowsInOrder'
  BY <1>1, <1>4, <1>5 DEF LinkInv, WindowsInOrder
<1>9. want[i] => wire[i] = "none"
  <2>1. CASE back = "sync"
    BY <1>2, <1>6, <2>1 DEF LinkInv, WindowsInOrder, Closing, Changing, TypeOK
  <2>2. CASE back = "close"
    BY <1>2, <2>2
  <2> QED BY <2>1, <2>2
<1>10. ~want[i] => wire[i] = "open"
  BY <1>2, <1>6 DEF TypeOK
<1>11. ChangeIsDue'
  BY <1>1, <1>2, <1>3, <1>4, <1>9, <1>10 DEF ChangeIsDue, Changing, Closing, TypeOK
<1>12. AllShut'
  BY <1>1 DEF AllShut
<1> QED BY <1>7, <1>8, <1>11, <1>12 DEF LinkInv

(* A tap changes hands only as its window, its place in the study and what
   Core already knows of it allow.                                            *)
LEMMA LinkNext ==
  ASSUME TypeOK, TypeOK', LinkInv, [Next]_vars
  PROVE  LinkInv'
<1>1. CASE Sinks
  BY <1>1, OthersKeepLink DEF Sinks, transcript_sink_cb, drop_sink_cb, mainVars, coreVars,
     linkVars
<1>2. CASE TxThread
  BY <1>2, OthersKeepLink DEF TxThread, TxGet, TxLock, TxSend, TxCount, TxCharge, mainVars,
     tapVars, coreVars, linkVars
<1>3. CASE LogTake \/ LogSend
  BY <1>3, OthersKeepLink DEF LogTake, LogSend, mainVars, tapVars, coreVars, linkVars
<1>4. ASSUME NEW s \in Studies, dispatch_study(s) PROVE LinkInv'
  BY <1>4 DEF dispatch_study, load_study_taps, LinkInv, WireAgrees, WindowsInOrder,
     ChangeIsDue, AllShut, Changing
<1>5. CASE sync_taps_for_step
  <2>1. CASE BeginChange(WantedNow, "sync")
    <3>1. \A i \in Ours : WantedNow[i] = covers(study.taps[i], step)
      BY DEF WantedNow
    <3>2. WantedNow \in [Ours -> BOOLEAN]
      BY OursAreIds DEF WantedNow, covers
    <3>3. \A i \in Ours : /\ WantedNow[i] => Reached(i) /\ ~Past(i)
                          /\ ~WantedNow[i] /\ Reached(i) => Past(i)
      <4>1. TAKE i \in Ours
      <4>2. /\ study.taps[i].whole \in BOOLEAN /\ study.taps[i].from \in Nat
            /\ study.taps[i].to \in Nat /\ step \in Nat
        BY OursAreIds DEF TypeOK
      <4>3. /\ step <= study.taps[i].to => ~(step > study.taps[i].to)
            /\ ~(step <= study.taps[i].to) => step > study.taps[i].to
        BY <4>2
      <4>4. WantedNow[i] = (study.taps[i].whole \/ (step >= study.taps[i].from /\ step <= study.taps[i].to))
        BY <3>1 DEF covers
      <4> QED BY <4>2, <4>3, <4>4, Zenon DEF Reached, Past
    <3>4. \A i \in Ours : tap_open[i] => Reached(i)
      BY OursAreIds, <1>5 DEF sync_taps_for_step, LinkInv, WireAgrees, WindowsInOrder
    <3> QED BY <1>5, <2>1, <3>2, <3>3, <3>4, BeginKeepsLink DEF sync_taps_for_step
  <2>2. CASE ~BeginChange(WantedNow, "sync")
    <3>1. /\ pc = "sync" /\ pc' \in {"exec", "drain", "refuse"}
          /\ UNCHANGED <<step, study, change, tap_open, wire>>
      BY <1>5, <2>2 DEF sync_taps_for_step, tapVars, coreVars
    <3>2. step' \in Nat /\ step' >= step
      BY <3>1 DEF TypeOK
    <3> QED BY <3>1, <3>2, MovingOnKeepsLink DEF Changing
  <2> QED BY <2>1, <2>2
<1>6. CASE SendChange
  <2>1. /\ pc = "want" /\ pc' = "mark"
        /\ wire' = [wire EXCEPT ![change.tap] = IF change.open THEN "open" ELSE "closed"]
        /\ UNCHANGED <<step, study, change, tap_open>>
    BY <1>6 DEF SendChange, tapVars
  <2>2. change.tap \in Ours /\ change.tap \in TapIds /\ change.open \in BOOLEAN
    BY <2>1, OursAreIds DEF LinkInv, ChangeIsDue, Changing, TypeOK
  <2>3. Ours' = Ours /\ (Closing <=> Closing')
        /\ \A j : Reached(j)' = Reached(j) /\ Past(j)' = Past(j)
    BY <2>1 DEF Ours, Closing, Changing, Reached, Past
  <2>4. WireAgrees'
    BY <2>1, <2>2 DEF LinkInv, WireAgrees, TypeOK
  <2>5. Reached(change.tap)
    BY <2>1, <2>2 DEF LinkInv, ChangeIsDue, WindowsInOrder, Changing
  <2>6. ~change.open => Closing \/ Past(change.tap)
    BY <2>1 DEF LinkInv, ChangeIsDue, Changing
  <2>7. WindowsInOrder'
    BY <2>1, <2>2, <2>3, <2>5, <2>6 DEF LinkInv, WindowsInOrder, TypeOK
  <2>8. ChangeIsDue' /\ AllShut'
    BY <2>1, <2>3 DEF LinkInv, ChangeIsDue, AllShut, Changing
  <2> QED BY <2>4, <2>7, <2>8 DEF LinkInv
<1>7. CASE MarkChange
  <2>1. /\ pc = "mark" /\ pc' = change.back
        /\ tap_open' = [tap_open EXCEPT ![change.tap] = change.open]
        /\ UNCHANGED <<step, study, change, wire>>
    BY <1>7 DEF MarkChange, coreVars
  <2>2. change.tap \in TapIds /\ change.back \in {"sync", "close"} /\ change.open \in BOOLEAN
    BY <2>1, OursAreIds DEF LinkInv, ChangeIsDue, Changing, TypeOK
  <2>3. Ours' = Ours /\ (Closing => Closing')
        /\ \A j : Reached(j)' = Reached(j) /\ Past(j)' = Past(j)
    BY <2>1, <2>2 DEF Ours, Closing, Changing, Reached, Past
  <2>4. WireAgrees'
    BY <2>1, <2>2 DEF LinkInv, WireAgrees, TypeOK
  <2>5. WindowsInOrder'
    BY <2>1, <2>3 DEF LinkInv, WindowsInOrder
  <2>6. ChangeIsDue' /\ AllShut'
    BY <2>1, <2>2 DEF ChangeIsDue, AllShut, Changing
  <2> QED BY <2>4, <2>5, <2>6 DEF LinkInv
<1>8. CASE StepEnds \/ CloseWindow \/ send_log_line \/ Drain \/ NapEnds
  <2>1. /\ pc \in {"exec", "window", "notice", "drain", "nap"}
        /\ pc' \in {"result", "notice", "close", "nap", "drain"}
        /\ UNCHANGED <<step, study, change, tap_open, wire>>
    BY <1>8 DEF StepEnds, CloseWindow, send_log_line, Drain, NapEnds, tapVars, coreVars
  <2>2. step' \in Nat /\ step' >= step
    BY <2>1 DEF TypeOK
  <2> QED BY <2>1, <2>2, MovingOnKeepsLink DEF Changing
<1>9. CASE send_step_result
  <2>1. /\ pc \in {"result", "refuse"} /\ pc' \in {"drain", "window", "sync", "refuse"}
        /\ step' = step \/ step' = step + 1
        /\ UNCHANGED <<study, change, tap_open, wire>>
    BY <1>9 DEF send_step_result, LeftByLoop, tapVars, coreVars
  <2>2. step' \in Nat /\ step' >= step
    BY <2>1 DEF TypeOK
  <2> QED BY <2>1, <2>2, MovingOnKeepsLink DEF Changing
<1>10. CASE close_all_taps
  <2>1. CASE BeginChange(Shut, "close")
    <3>1. Shut \in [Ours -> BOOLEAN] /\ \A i \in Ours : ~Shut[i]
      BY DEF Shut
    <3> QED BY <1>10, <2>1, <3>1, BeginKeepsLink DEF close_all_taps
  <2>2. CASE ~BeginChange(Shut, "close")
    <3>1. /\ pc = "close" /\ pc' = "bonds" /\ InLine(Shut)
          /\ UNCHANGED <<step, study, change, tap_open, wire>>
      BY <1>10, <2>2 DEF close_all_taps, tapVars, coreVars
    <3>2. \A i \in TapIds : wire[i] # "open"
      BY <3>1 DEF InLine, Shut, LinkInv, WireAgrees, WindowsInOrder
    <3> QED BY <3>1, <3>2, MovingOnKeepsLink DEF Changing, TypeOK
  <2> QED BY <2>1, <2>2
<1>11. CASE clear_bonds \/ send_study_done
  <2>1. /\ pc \in {"bonds", "done"} /\ pc' \in {"done", "idle"}
        /\ UNCHANGED <<step, study, change, tap_open, wire>>
    BY <1>11 DEF clear_bonds, send_study_done, tapVars, coreVars
  <2>2. \A i \in TapIds : wire[i] # "open"
    BY <2>1 DEF LinkInv, AllShut
  <2> QED BY <2>1, <2>2, MovingOnKeepsLink DEF Changing, TypeOK
<1>12. CASE UNCHANGED vars
  BY <1>12, OthersKeepLink DEF vars, mainVars, tapVars, coreVars, linkVars
<1> QED BY <1>1, <1>2, <1>3, <1>4, <1>5, <1>6, <1>7, <1>8, <1>9, <1>10, <1>11, <1>12
        DEF Next, DispatchThread

(* tap_open, the windows and what Core has been told agree in every reachable
   state, for every study.                                                    *)
THEOREM LinkCorrect == Spec => []LinkInv
<1>1. TypeOK /\ TypeOK' /\ LinkInv /\ [Next]_vars => LinkInv'
  BY LinkNext
<1> QED BY <1>1, LinkInit, TypeCorrect, PTL DEF Spec

LEMMA RefineInit == Init => Link!Init
BY DEF Init, Link!Init, Zero

(* Every step is one step of CaptureLink or none: the fan-out of the TX thread
   is a Record on open taps, although it reads the dispatch thread's flags.   *)
LEMMA RefineNext ==
  ASSUME TypeOK, LinkInv, [Next]_vars
  PROVE  [Link!Next]_(Link!vars)
<1> DEFINE still == UNCHANGED <<pc, wire, delivered>>
<1>1. still => UNCHANGED Link!vars
  BY DEF Link!vars
<1>2. (pc # "idle" /\ pc' # "idle" /\ UNCHANGED <<wire, delivered>>) => UNCHANGED Link!vars
  BY DEF Link!vars
<1>3. CASE Sinks
  BY <1>1, <1>3 DEF Sinks, transcript_sink_cb, drop_sink_cb, mainVars, coreVars
<1>4. CASE TxGet \/ TxLock \/ TxCount \/ TxCharge \/ LogTake \/ LogSend
  BY <1>1, <1>4 DEF TxGet, TxLock, TxCount, TxCharge, LogTake, LogSend, mainVars, coreVars
<1>5. CASE TxSend
  <2> DEFINE S == Listeners(held.entry) \ Unencodable(held.entry)
  <2>1. /\ delivered' = Bump(delivered, S) /\ pc' = pc /\ wire' = wire
        /\ pc # "mark"
    BY <1>5 DEF TxSend, TxMayRun, MainBlocked, Sending, mainVars
  <2>2. S \subseteq TapIds /\ \A i \in S : tap_open[i] /\ i \in TapIds
    BY TapsAreIds DEF Listeners
  <2>3. \A i \in S : wire[i] = "open"
    BY <2>1, <2>2 DEF LinkInv, WireAgrees
  <2>4. CASE pc = "idle"
    <3>1. S = {}
      BY <2>2, <2>3, <2>4 DEF LinkInv, AllShut
    <3>2. delivered' = delivered
      BY <2>1, <3>1 DEF Bump, TypeOK
    <3> QED BY <1>1, <2>1, <3>2
  <2>5. CASE pc # "idle"
    <3>1. Link!Record(S)
      BY <2>1, <2>3, <2>5 DEF Link!Record, Bump
    <3> QED BY <2>2, <3>1 DEF Link!Next
  <2> QED BY <2>4, <2>5
<1>6. ASSUME NEW s \in Studies, dispatch_study(s) PROVE Link!Next
  BY <1>6 DEF dispatch_study, Link!Next, Link!Begin, Zero
<1>7. CASE sync_taps_for_step \/ StepEnds \/ CloseWindow \/ Drain \/ NapEnds \/ close_all_taps
  BY <1>2, <1>7 DEF sync_taps_for_step, StepEnds, CloseWindow, Drain, NapEnds, close_all_taps,
     BeginChange, coreVars
<1>8. CASE SendChange
  <2>1. /\ pc = "want" /\ pc' = "mark" /\ delivered' = delivered
        /\ wire' = [wire EXCEPT ![change.tap] = IF change.open THEN "open" ELSE "closed"]
    BY <1>8 DEF SendChange
  <2>2. change.tap \in TapIds /\ wire[change.tap] = IF change.open THEN "none" ELSE "open"
    BY <2>1, OursAreIds DEF LinkInv, ChangeIsDue, Changing
  <2>3. Link!Open(change.tap) \/ Link!Close(change.tap)
    BY <2>1, <2>2 DEF Link!Open, Link!Close
  <2> QED BY <2>2, <2>3 DEF Link!Next
<1>9. CASE MarkChange
  BY <1>2, <1>9 DEF MarkChange, coreVars, TypeOK
<1>10. CASE send_step_result \/ send_log_line \/ clear_bonds
  BY <1>2, <1>10 DEF send_step_result, send_log_line, LeftByLoop, clear_bonds, coreVars
<1>11. CASE send_study_done
  <2>1. pc = "done" /\ pc' = "idle" /\ wire' = wire /\ delivered' = delivered
    BY <1>11 DEF send_study_done, coreVars
  <2>2. Link!Finish
    BY <2>1 DEF Link!Finish, LinkInv, AllShut
  <2> QED BY <2>2 DEF Link!Next
<1>12. CASE UNCHANGED vars
  BY <1>1, <1>12 DEF vars, mainVars, coreVars
<1> QED BY <1>3, <1>4, <1>5, <1>6, <1>7, <1>8, <1>9, <1>10, <1>11, <1>12
        DEF Next, TxThread, DispatchThread

(* What Core reads off the link is an ordered capture, for every study, every
   number of taps and every interleaving of the threads.                      *)
THEOREM CaptureIsOrdered == Spec => LinkSpec
<1>1. TypeOK /\ LinkInv /\ [Next]_vars => [Link!Next]_(Link!vars)
  BY RefineNext
<1> QED BY <1>1, RefineInit, TypeCorrect, LinkCorrect, PTL DEF Spec, LinkSpec, Link!Spec
-----------------------------------------------------------------------------
(* How many items of a queue are in S.                                        *)
HowMany(q, S) == Cardinality({k \in DOMAIN q : q[k] \in S})

LEMMA HowManyType ==
  ASSUME NEW T, NEW q \in Seq(T), NEW S
  PROVE  /\ IsFiniteSet({k \in DOMAIN q : q[k] \in S})
         /\ HowMany(q, S) \in Nat /\ HowMany(q, S) <= Len(q)
<1>1. DOMAIN q = 1..Len(q) /\ Len(q) \in Nat
  OBVIOUS
<1>2. IsFiniteSet(1..Len(q)) /\ Cardinality(1..Len(q)) = Len(q)
  BY <1>1, FS_Interval
<1> DEFINE D == 1..Len(q)
           K == {k \in DOMAIN q : q[k] \in S}
<1>3. K \in SUBSET D
  BY <1>1
<1>4. IsFiniteSet(D) /\ Cardinality(D) = Len(q)
  BY <1>2
<1> HIDE DEF D, K
<1>5. IsFiniteSet(K) /\ Cardinality(K) <= Cardinality(D)
  BY <1>3, <1>4, FS_Subset
<1>6. Cardinality(K) \in Nat
  BY <1>5, FS_CardinalityType
<1> QED BY <1>4, <1>5, <1>6 DEF HowMany, K

LEMMA HowManyNone == ASSUME NEW S PROVE HowMany(<<>>, S) = 0
<1>1. {k \in DOMAIN <<>> : <<>>[k] \in S} = {}
  OBVIOUS
<1> QED BY <1>1, FS_EmptySet DEF HowMany

LEMMA HowManyAppend ==
  ASSUME NEW T, NEW q \in Seq(T), NEW x \in T, NEW S
  PROVE  HowMany(Append(q, x), S) = HowMany(q, S) + (IF x \in S THEN 1 ELSE 0)
<1> DEFINE r == Append(q, x)
           n == Len(q)
           K == {k \in DOMAIN q : q[k] \in S}
           L == {k \in DOMAIN r : r[k] \in S}
<1>1. /\ n \in Nat /\ DOMAIN q = 1..n /\ DOMAIN r = 1..(n + 1)
      /\ r[n + 1] = x /\ \A k \in 1..n : r[k] = q[k]
  OBVIOUS
<1>2. IsFiniteSet(K) /\ Cardinality(K) \in Nat
  BY HowManyType DEF HowMany
<1>3. n + 1 \notin K
  BY <1>1
<1> HIDE DEF r, n
<1>4. \A k : k \in 1..(n + 1) <=> (k \in 1..n \/ k = n + 1)
  BY <1>1
<1>5. CASE x \in S
  <2>1. L = K \cup {n + 1}
    BY <1>1, <1>4, <1>5
  <2> HIDE DEF K, L
  <2>2. Cardinality(L) = Cardinality(K) + 1
    BY <1>2, <1>3, <2>1, FS_AddElement
  <2> QED BY <1>5, <2>2 DEF HowMany, K, L, r
<1>6. CASE x \notin S
  <2>1. L = K
    BY <1>1, <1>4, <1>6
  <2> HIDE DEF K, L
  <2>2. Cardinality(L) = Cardinality(K) + 0
    BY <1>2, <2>1
  <2> QED BY <1>6, <2>2 DEF HowMany, K, L, r
<1> QED BY <1>5, <1>6

LEMMA HowManyTail ==
  ASSUME NEW T, NEW q \in Seq(T), q # <<>>, NEW S
  PROVE  HowMany(q, S) = HowMany(Tail(q), S) + (IF Head(q) \in S THEN 1 ELSE 0)
<1> DEFINE r == Tail(q)
           n == Len(q)
           K == {k \in DOMAIN q : q[k] \in S}
           L == {k \in DOMAIN r : r[k] \in S}
           M == {k \in K : k # 1}
<1>1. /\ n \in Nat \ {0} /\ DOMAIN q = 1..n /\ DOMAIN r = 1..(n - 1)
      /\ Head(q) = q[1] /\ \A k \in 1..(n - 1) : r[k] = q[k + 1]
      /\ r \in Seq(T)
  OBVIOUS
<1>2. IsFiniteSet(K) /\ Cardinality(K) \in Nat
  BY HowManyType DEF HowMany
<1>3. IsFiniteSet(L) /\ Cardinality(L) \in Nat
  BY <1>1, HowManyType DEF HowMany
<1> HIDE DEF r, n
<1>4. ExistsBijection(L, M)
  <2> DEFINE f == [k \in L |-> k + 1]
  <2>1. \A k \in L : k + 1 \in M
    BY <1>1
  <2>2. \A m \in M : m - 1 \in L /\ (m - 1) + 1 = m
    BY <1>1
  <2>3. \A k \in L : k \in Int
    BY <1>1
  <2>4. f \in [L -> M]
    BY <2>1
  <2>5. \A a, b \in L : f[a] = f[b] => a = b
    BY <2>3
  <2>6. \A m \in M : \E k \in L : f[k] = m
    BY <2>2
  <2> HIDE DEF f, L, M
  <2>7. f \in Bijection(L, M)
    BY <2>4, <2>5, <2>6 DEF Bijection, Injection, Surjection, IsInjective
  <2> QED BY <2>7 DEF ExistsBijection
<1>5. IsFiniteSet(M) /\ Cardinality(M) = Cardinality(L)
  <2> HIDE DEF L, M
  <2> QED BY <1>3, <1>4, FS_Bijection
<1>6. CASE Head(q) \in S
  <2>1. K = M \cup {1} /\ 1 \notin M
    BY <1>1, <1>6
  <2> HIDE DEF K, L, M
  <2>2. Cardinality(K) = Cardinality(M) + 1
    BY <1>5, <2>1, FS_AddElement
  <2> QED BY <1>3, <1>5, <1>6, <2>2 DEF HowMany, K, L, r
<1>7. CASE Head(q) \notin S
  <2>1. K = M
    BY <1>1, <1>7
  <2> HIDE DEF K, L, M
  <2>2. Cardinality(K) = Cardinality(L) + 0
    BY <1>3, <1>5, <2>1
  <2> QED BY <1>7, <2>2 DEF HowMany, K, L, r
<1> QED BY <1>6, <1>7
-----------------------------------------------------------------------------
(* The books of a tap.  An event matches a tap whether it is open or not.     *)
Matches(i, e) == i \in DOMAIN study.taps /\ (IsTranscriptTap(i) \/ FedByNotify(i, e))

Mine(i)   == {x \in Item : i \in x.for}
Older(i)  == {x \in Item : Matches(i, x.entry) /\ i \notin x.for}
Proper    == {x \in Item : \A i \in x.for : Matches(i, x.entry)}

(* Items on their way that would be stray records of tap i.                   *)
Stale(i) ==
  HowMany(transcript_q, Older(i))
    + (IF tx \in {"lock", "pend", "send"} /\ held \in Older(i) THEN 1 ELSE 0)

(* What the threads have in hand: items queued for taps they match, one tap
   whose record did not fit, a counter that has only grown since it was read,
   and a tap that is not yet what it is being changed to.                      *)
ItemsProper ==
  /\ \A k \in DOMAIN transcript_q : transcript_q[k] \in Proper
  /\ tx # "get" => held \in Proper

ChargeInHand ==
  /\ tx \in {"count", "charge"} => \E t \in TapIds : held.for = {t}
  /\ tx = "charge" => \A i \in held.for : loaded <= tap_dropped[i]

ChangeInHand == Changing => tap_open[change.tap] = ~change.open

InHand == ItemsProper /\ ChargeInHand /\ ChangeInHand

Unopened(i) == wire[i] = "none" \/ (pc = "mark" /\ change.tap = i /\ change.open)

Balanced(i) ==
  /\ delivered[i] + tap_dropped[i] + InFlight(i) <= offered[i] + stray[i]
  /\ wire[i] = "closed" => delivered[i] + reported[i] + InFlight(i) <= offered[i] + stray[i]
  /\ Changing /\ change.tap = i /\ ~change.open =>
       delivered[i] + change.dropped + InFlight(i) <= offered[i] + stray[i]
  /\ tap_open[i] /\ offered[i] + stray[i] > delivered[i] + InFlight(i) => tap_dropped[i] > 0
  /\ Unopened(i) => offered[i] = 0 /\ stray[i] = 0 /\ delivered[i] = 0 /\ InFlight(i) = 0

Young(i) ==
  /\ stray[i] <= QueueDepth + 1
  /\ tap_open[i] => stray[i] + Stale(i) <= QueueDepth + 1

Ledger == InHand /\ \A i \in TapIds : Balanced(i) /\ Young(i)

LEMMA ListenersMatch ==
  \A i, e : i \in Listeners(e) <=> Matches(i, e) /\ tap_open[i]
BY DEF Listeners, Matches

LEMMA MineInQueue ==
  ASSUME NEW q \in Seq(Item), NEW i
  PROVE  /\ Cardinality({k \in DOMAIN q : i \in q[k].for}) = HowMany(q, Mine(i))
         /\ HowMany(q, Mine(i)) \in Nat
<1>1. \A k \in DOMAIN q : q[k] \in Item
  OBVIOUS
<1>2. {k \in DOMAIN q : i \in q[k].for} = {k \in DOMAIN q : q[k] \in Mine(i)}
  BY <1>1 DEF Mine
<1> QED BY <1>2, HowManyType DEF HowMany

LEMMA InFlightIs ==
  ASSUME TypeOK, NEW i
  PROVE  /\ InFlight(i) = HowMany(transcript_q, Mine(i))
                            + (IF tx # "get" /\ i \in held.for THEN 1 ELSE 0)
         /\ InFlight(i) \in Nat /\ HowMany(transcript_q, Mine(i)) \in Nat
<1>1. InFlight(i) = HowMany(transcript_q, Mine(i)) + (IF tx # "get" /\ i \in held.for THEN 1 ELSE 0)
      /\ HowMany(transcript_q, Mine(i)) \in Nat
  BY MineInQueue DEF TypeOK, InFlight
<1> QED BY <1>1

LEMMA InFlightNext ==
  ASSUME TypeOK', NEW i
  PROVE  /\ InFlight(i)' = HowMany(transcript_q', Mine(i))
                             + (IF tx' # "get" /\ i \in held'.for THEN 1 ELSE 0)
         /\ HowMany(transcript_q', Mine(i)) \in Nat
<1>1. transcript_q' \in Seq(Item)
  BY DEF TypeOK
<1>2. /\ Cardinality({k \in DOMAIN transcript_q' : i \in transcript_q'[k].for})
           = HowMany(transcript_q', Mine(i))
      /\ HowMany(transcript_q', Mine(i)) \in Nat
  BY <1>1, MineInQueue
<1> QED BY <1>2 DEF InFlight

LEMMA StaleType ==
  ASSUME TypeOK, NEW i
  PROVE  HowMany(transcript_q, Older(i)) \in Nat /\ Stale(i) \in Nat /\ Stale(i) <= QueueDepth + 1
<1>1. transcript_q \in Seq(Item) /\ Len(transcript_q) <= QueueDepth /\ Len(transcript_q) \in Nat
  BY DEF TypeOK
<1>2. HowMany(transcript_q, Older(i)) \in Nat /\ HowMany(transcript_q, Older(i)) <= Len(transcript_q)
  BY <1>1, HowManyType
<1> QED BY <1>1, <1>2, StreamTapsAssumption DEF Stale

LEMMA UnopenedIsShut ==
  ASSUME TypeOK, LinkInv, ChangeInHand, NEW i \in TapIds, Unopened(i)
  PROVE  ~tap_open[i]
<1>1. CASE pc = "mark" /\ change.tap = i
  <2>1. wire[i] \in {"open", "closed"}
    BY <1>1 DEF LinkInv, WireAgrees
  <2> QED BY <1>1, <2>1 DEF Unopened, ChangeInHand, Changing
<1>2. CASE ~(pc = "mark" /\ change.tap = i)
  BY <1>2 DEF Unopened, LinkInv, WireAgrees
<1> QED BY <1>1, <1>2

(* At most one tap can be served an entry that does not fit.                  *)
LEMMA OneTranscriptTap ==
  ASSUME TypeOK, NEW i, NEW j, IsTranscriptTap(i), IsTranscriptTap(j)
  PROVE  i = j
<1>1. i \in Transcripts /\ j \in Transcripts /\ i <= j /\ j <= i
  BY DEF IsTranscriptTap
<1>2. i \in Nat /\ j \in Nat
  BY <1>1, TapsAreIds DEF Transcripts, TapIds
<1> QED BY <1>1, <1>2

(* What a queue that an item joins or leaves holds for tap i.                 *)
LEMMA InFlightAppend ==
  ASSUME TypeOK, TypeOK', NEW x \in Item, transcript_q' = Append(transcript_q, x),
         UNCHANGED <<tx, held, study>>, NEW i
  PROVE  /\ InFlight(i)' = InFlight(i) + (IF i \in x.for THEN 1 ELSE 0)
         /\ Stale(i)' = Stale(i) + (IF x \in Older(i) THEN 1 ELSE 0)
<1>1. transcript_q \in Seq(Item)
  BY DEF TypeOK
<1>2. HowMany(transcript_q', Mine(i)) = HowMany(transcript_q, Mine(i)) + (IF i \in x.for THEN 1 ELSE 0)
  BY <1>1, HowManyAppend DEF Mine
<1>3. HowMany(transcript_q', Older(i)) = HowMany(transcript_q, Older(i)) + (IF x \in Older(i) THEN 1 ELSE 0)
  BY <1>1, HowManyAppend
<1>4. Older(i)' = Older(i)
  BY DEF Older, Matches, IsTranscriptTap, Transcripts, FedByNotify
<1>5. /\ InFlight(i) = HowMany(transcript_q, Mine(i)) + (IF tx # "get" /\ i \in held.for THEN 1 ELSE 0)
      /\ HowMany(transcript_q, Mine(i)) \in Nat
  BY InFlightIs
<1>6. InFlight(i)' = HowMany(transcript_q', Mine(i)) + (IF tx # "get" /\ i \in held.for THEN 1 ELSE 0)
  BY InFlightNext
<1>7. HowMany(transcript_q, Older(i)) \in Nat
  BY StaleType
<1>8. Stale(i)' = HowMany(transcript_q', Older(i))
                    + (IF tx \in {"lock", "pend", "send"} /\ held \in Older(i) THEN 1 ELSE 0)
  BY <1>4 DEF Stale
<1> QED BY <1>2, <1>3, <1>5, <1>6, <1>7, <1>8 DEF Stale

(* The queue stays: only the TX thread's place can matter.                    *)
LEMMA InFlightSame ==
  ASSUME TypeOK, TypeOK', UNCHANGED <<transcript_q, held, study>>,
         tx' = tx \/ (tx \in {"lock", "pend"} /\ tx' \in {"pend", "send"}), NEW i
  PROVE  InFlight(i)' = InFlight(i) /\ Stale(i)' = Stale(i)
<1>1. Older(i)' = Older(i)
  BY DEF Older, Matches, IsTranscriptTap, Transcripts, FedByNotify
<1>2. (tx' # "get" <=> tx # "get")
      /\ (tx' \in {"lock", "pend", "send"} <=> tx \in {"lock", "pend", "send"})
  OBVIOUS
<1> QED BY <1>1, <1>2 DEF InFlight, Stale

LEMMA ItemsProperNext ==
  ASSUME TypeOK, ItemsProper, [Next]_vars
  PROVE  ItemsProper'
<1> USE DEF mainVars, tapVars, txVars, coreVars, ghosts
<1>p. UNCHANGED study => Proper' = Proper
  BY DEF Proper, Matches, IsTranscriptTap, Transcripts, FedByNotify
<1>q. transcript_q \in Seq(Item)
  BY DEF TypeOK
<1>s. ASSUME UNCHANGED <<study, transcript_q, held>>, tx' # "get" => tx # "get"
      PROVE  ItemsProper'
  BY <1>p, <1>s DEF ItemsProper
<1>1. ASSUME NEW e \in Entries, transcript_sink_cb(e) PROVE ItemsProper'
  <2> DEFINE x == [entry |-> e, for |-> Listeners(e)]
  <2>1. UNCHANGED <<study, tx, held>>
    BY <1>1 DEF transcript_sink_cb
  <2>2. CASE UNCHANGED transcript_q
    BY <1>s, <2>1, <2>2
  <2>3. CASE transcript_q' = Append(transcript_q, x)
    <3>1. x \in Proper
      <4>1. x \in Item
        BY TapsAreIds, StreamTapsAssumption DEF Item, Listeners
      <4>2. \A i \in Listeners(e) : Matches(i, e)
        BY ListenersMatch
      <4> QED BY <4>1, <4>2 DEF Proper
    <3>2. \A k \in DOMAIN transcript_q' : \/ transcript_q'[k] = x
                                          \/ k \in DOMAIN transcript_q /\ transcript_q'[k] = transcript_q[k]
      BY <1>q, <2>3
    <3> HIDE DEF x
    <3>3. \A k \in DOMAIN transcript_q' : transcript_q'[k] \in Proper
      BY <3>1, <3>2 DEF ItemsProper
    <3> QED BY <1>p, <2>1, <3>3 DEF ItemsProper
  <2> QED BY <1>1, <2>2, <2>3 DEF transcript_sink_cb
<1>2. CASE TxGet
  <2>1. /\ transcript_q # <<>> /\ transcript_q' = Tail(transcript_q) /\ held' = Head(transcript_q)
        /\ UNCHANGED study
    BY <1>2 DEF TxGet, QueueAfterGet
  <2>2. /\ 1 \in DOMAIN transcript_q /\ held' = transcript_q[1]
        /\ \A k \in DOMAIN transcript_q' : /\ k + 1 \in DOMAIN transcript_q
                                           /\ transcript_q'[k] = transcript_q[k + 1]
    BY <1>q, <2>1
  <2> QED BY <1>p, <2>1, <2>2 DEF ItemsProper
<1>3. CASE TxSend
  <2>1. UNCHANGED <<study, transcript_q>> /\ tx = "send" /\ held \in Proper
    BY <1>3 DEF TxSend, ItemsProper
  <2>2. CASE tx' = "get"
    BY <1>p, <2>1, <2>2 DEF ItemsProper
  <2>3. CASE held' = [held EXCEPT !.for = Unencodable(held.entry)]
    <3>1. held \in Item /\ held'.entry = held.entry /\ held'.for = Unencodable(held.entry)
      BY <2>3 DEF TypeOK, Item
    <3>2. \A i \in Unencodable(held.entry) : Matches(i, held.entry) /\ i \in TapIds
      BY ListenersMatch, TapsAreIds DEF Unencodable, Matches
    <3>3. held' \in Item
      BY <2>3, <3>1, <3>2 DEF Item
    <3>4. held' \in Proper
      BY <3>1, <3>2, <3>3 DEF Proper
    <3> QED BY <1>p, <2>1, <3>4 DEF ItemsProper
  <2> QED BY <1>3, <2>2, <2>3 DEF TxSend
<1>4. CASE TxCharge
  BY <1>4, <1>p DEF TxCharge, ItemsProper
<1>5. ASSUME NEW s \in Studies, dispatch_study(s) PROVE ItemsProper'
  <2>1. transcript_q' = <<>> /\ tx' = "get"
    BY <1>5 DEF dispatch_study, BacklogSettled
  <2> QED BY <2>1 DEF ItemsProper
<1>6. CASE \/ TxLock \/ TxCount \/ LogTake \/ LogSend \/ (\E c \in Chars : drop_sink_cb(c))
           \/ UNCHANGED vars
  BY <1>6, <1>s DEF TxLock, TxCount, LogTake, LogSend, ReleaseByMain, drop_sink_cb, vars
<1>7. CASE DispatchThread
  <2>1. UNCHANGED <<study, transcript_q, held>> /\ (tx' # "get" => tx # "get")
    BY <1>7 DEF DispatchThread, sync_taps_for_step, SendChange, MarkChange, StepEnds,
       send_step_result, LeftByLoop, CloseWindow, send_log_line, Drain, NapEnds, close_all_taps,
       clear_bonds, send_study_done,
       BeginChange, ReleaseByMain
  <2> QED BY <1>s, <2>1
<1> QED BY <1>1, <1>2, <1>3, <1>4, <1>5, <1>6, <1>7 DEF Next, Sinks, TxThread

LEMMA ChargeInHandNext ==
  ASSUME TypeOK, ChargeInHand, [Next]_vars
  PROVE  ChargeInHand'
<1> USE DEF mainVars, tapVars, txVars, coreVars, ghosts
<1>s. ASSUME UNCHANGED <<held, loaded>>, tx' = tx \/ tx' \notin {"count", "charge"},
             \A i \in TapIds : tap_dropped'[i] >= tap_dropped[i],
             tap_dropped' \in [TapIds -> Nat]
      PROVE  ChargeInHand'
  <2>1. CASE tx' \notin {"count", "charge"}
    BY <2>1 DEF ChargeInHand
  <2>2. CASE tx' = tx /\ tx = "charge"
    <3>1. \A i \in held.for : i \in TapIds /\ loaded <= tap_dropped[i]
      BY <2>2 DEF ChargeInHand, TypeOK, Item
    <3>2. \A i \in held.for : loaded <= tap_dropped'[i]
      BY <1>s, <3>1 DEF TypeOK
    <3> QED BY <1>s, <2>2, <3>2 DEF ChargeInHand
  <2>3. CASE tx' = tx /\ tx = "count"
    BY <1>s, <2>3 DEF ChargeInHand
  <2> QED BY <1>s, <2>1, <2>2, <2>3
<1>t. ASSUME UNCHANGED <<held, loaded, tap_dropped>>, tx' = tx \/ tx' \notin {"count", "charge"}
      PROVE  ChargeInHand'
  BY <1>t DEF ChargeInHand
<1>b. \A S : Bump(tap_dropped, S) \in [TapIds -> Nat]
             /\ \A i \in TapIds : Bump(tap_dropped, S)[i] >= tap_dropped[i]
  BY DEF TypeOK, Bump
<1>1. ASSUME NEW e \in Entries, transcript_sink_cb(e) PROVE ChargeInHand'
  <2>1. UNCHANGED <<held, loaded, tx>>
    BY <1>1 DEF transcript_sink_cb
  <2>2. tap_dropped' = tap_dropped \/ \E S : tap_dropped' = Bump(tap_dropped, S)
    BY <1>1 DEF transcript_sink_cb
  <2> QED BY <1>b, <1>s, <1>t, <2>1, <2>2
<1>2. ASSUME NEW c \in Chars, drop_sink_cb(c) PROVE ChargeInHand'
  BY <1>2, <1>b, <1>s DEF drop_sink_cb
<1>3. CASE TxGet \/ TxLock \/ TxCharge
  BY <1>3 DEF TxGet, TxLock, TxCharge, ChargeInHand
<1>4. CASE TxSend
  <2>1. CASE tx' = "get"
    BY <2>1 DEF ChargeInHand
  <2>2. CASE /\ Unencodable(held.entry) # {} /\ tx' = "count"
             /\ held' = [held EXCEPT !.for = Unencodable(held.entry)]
    <3>1. held'.for = Unencodable(held.entry)
      BY <2>2 DEF TypeOK, Item
    <3>2. \A i \in Unencodable(held.entry) : i \in TapIds /\ IsTranscriptTap(i)
      BY TapsAreIds DEF Unencodable, Listeners
    <3>3. \A i, j \in Unencodable(held.entry) : i = j
      BY <3>2, OneTranscriptTap
    <3>4. \E t \in TapIds : Unencodable(held.entry) = {t}
      BY <2>2, <3>2, <3>3
    <3> QED BY <2>2, <3>1, <3>4 DEF ChargeInHand
  <2> QED BY <1>4, <2>1, <2>2 DEF TxSend
<1>5. CASE TxCount
  <2>1. PICK t \in TapIds : held.for = {t}
    BY <1>5 DEF TxCount, ChargeInHand
  <2>2. loaded' = tap_dropped[t] /\ tap_dropped[t] \in Nat /\ UNCHANGED <<held, tap_dropped>>
    BY <1>5, <2>1 DEF TxCount, TypeOK
  <2> QED BY <2>1, <2>2 DEF ChargeInHand
<1>6. ASSUME NEW s \in Studies, dispatch_study(s) PROVE ChargeInHand'
  BY <1>6 DEF dispatch_study, BacklogSettled, ChargeInHand
<1>7. CASE LogTake \/ LogSend \/ UNCHANGED vars
  BY <1>7, <1>t DEF LogTake, LogSend, ReleaseByMain, vars
<1>8. CASE DispatchThread
  <2>1. UNCHANGED <<held, loaded, tap_dropped>> /\ (tx' = tx \/ tx' \notin {"count", "charge"})
    BY <1>8 DEF DispatchThread, sync_taps_for_step, SendChange, MarkChange, StepEnds,
       send_step_result, LeftByLoop, CloseWindow, send_log_line, Drain, NapEnds, close_all_taps,
       clear_bonds, send_study_done,
       BeginChange, ReleaseByMain
  <2> QED BY <1>t, <2>1
<1> QED BY <1>1, <1>2, <1>3, <1>4, <1>5, <1>6, <1>7, <1>8 DEF Next, Sinks, TxThread

LEMMA ChangeInHandNext ==
  ASSUME TypeOK, ChangeInHand, [Next]_vars
  PROVE  ChangeInHand'
<1> USE DEF mainVars, tapVars, txVars, coreVars, ghosts
<1>s. ASSUME UNCHANGED <<change, tap_open>>, Changing' => Changing
      PROVE  ChangeInHand'
  BY <1>s DEF ChangeInHand
<1>b. ASSUME NEW want \in [Ours -> BOOLEAN], NEW back, BeginChange(want, back)
      PROVE  ChangeInHand'
  <2>1. PICK i \in FirstOff(want) :
          /\ change' = [tap |-> i, open |-> want[i], back |-> back,
                        dropped |-> IF want[i] THEN 0 ELSE tap_dropped[i]]
          /\ UNCHANGED tap_open
    BY <1>b DEF BeginChange
  <2>2. want[i] # tap_open[i] /\ want[i] \in BOOLEAN /\ tap_open[i] \in BOOLEAN
    BY OursAreIds DEF FirstOff, TypeOK
  <2>3. tap_open[i] = ~want[i]
    BY <2>2, Zenon
  <2>4. change'.tap = i /\ change'.open = want[i]
    BY <2>1
  <2> QED BY <2>1, <2>3, <2>4 DEF ChangeInHand
<1>1. CASE Sinks \/ TxThread \/ LogTake \/ LogSend
  BY <1>1, <1>s DEF Sinks, transcript_sink_cb, drop_sink_cb, TxThread, TxGet, TxLock, TxSend,
     TxCount, TxCharge, LogTake, LogSend, Changing
<1>2. ASSUME NEW s \in Studies, dispatch_study(s) PROVE ChangeInHand'
  BY <1>2 DEF dispatch_study, ChangeInHand, Changing
<1>3. CASE sync_taps_for_step
  <2>1. WantedNow \in [Ours -> BOOLEAN]
    BY OursAreIds DEF WantedNow, covers
  <2>2. CASE ~BeginChange(WantedNow, "sync")
    BY <1>3, <1>s, <2>2 DEF sync_taps_for_step, Changing
  <2> QED BY <1>b, <2>1, <2>2
<1>4. CASE close_all_taps
  <2>1. Shut \in [Ours -> BOOLEAN]
    BY DEF Shut
  <2>2. CASE ~BeginChange(Shut, "close")
    BY <1>4, <1>s, <2>2 DEF close_all_taps, Changing
  <2> QED BY <1>b, <2>1, <2>2
<1>5. CASE SendChange
  BY <1>5, <1>s DEF SendChange, Changing
<1>6. CASE MarkChange
  BY <1>6 DEF MarkChange, ChangeInHand, Changing, TypeOK
<1>7. CASE \/ StepEnds \/ send_step_result \/ CloseWindow \/ send_log_line
           \/ Drain \/ NapEnds \/ clear_bonds \/ send_study_done
  BY <1>7, <1>s DEF StepEnds, send_step_result, LeftByLoop, CloseWindow, send_log_line, Drain, NapEnds, clear_bonds, send_study_done,
     Changing
<1>8. CASE UNCHANGED vars
  BY <1>8, <1>s DEF vars, Changing
<1> QED BY <1>1, <1>2, <1>3, <1>4, <1>5, <1>6, <1>7, <1>8 DEF Next, DispatchThread

(* The TX thread takes the head of the queue in hand: still on its way.       *)
LEMMA InFlightTaken ==
  ASSUME TypeOK, TypeOK', TxGet, NEW i
  PROVE  InFlight(i)' = InFlight(i) /\ Stale(i)' = Stale(i)
<1>1. /\ transcript_q \in Seq(Item) /\ transcript_q # <<>> /\ transcript_q' = Tail(transcript_q)
      /\ held' = Head(transcript_q) /\ tx = "get" /\ tx' = "lock" /\ UNCHANGED study
      /\ held' \in Item
  BY DEF TxGet, QueueAfterGet, TypeOK, mainVars
<1>2. Older(i)' = Older(i)
  BY <1>1 DEF Older, Matches, IsTranscriptTap, Transcripts, FedByNotify
<1>3. HowMany(transcript_q, Mine(i)) = HowMany(transcript_q', Mine(i)) + (IF i \in held'.for THEN 1 ELSE 0)
  BY <1>1, HowManyTail DEF Mine
<1>4. HowMany(transcript_q, Older(i)) = HowMany(transcript_q', Older(i)) + (IF held' \in Older(i) THEN 1 ELSE 0)
  BY <1>1, HowManyTail
<1>5. InFlight(i) = HowMany(transcript_q, Mine(i)) + 0 /\ HowMany(transcript_q, Mine(i)) \in Nat
  BY <1>1, InFlightIs
<1>6. InFlight(i)' = HowMany(transcript_q', Mine(i)) + (IF i \in held'.for THEN 1 ELSE 0)
      /\ HowMany(transcript_q', Mine(i)) \in Nat
  BY <1>1, InFlightNext
<1>7. HowMany(transcript_q, Older(i)) \in Nat
  BY StaleType
<1>8. Stale(i)' = HowMany(transcript_q', Older(i)) + (IF held' \in Older(i) THEN 1 ELSE 0)
  BY <1>1, <1>2 DEF Stale
<1>9. Stale(i) = HowMany(transcript_q, Older(i)) + 0
  BY <1>1 DEF Stale
<1> QED BY <1>3, <1>4, <1>5, <1>6, <1>7, <1>8, <1>9

LEMMA Counters ==
  ASSUME TypeOK, TypeOK', NEW i \in TapIds
  PROVE  /\ delivered[i] \in Nat /\ tap_dropped[i] \in Nat /\ offered[i] \in Nat
         /\ stray[i] \in Nat /\ reported[i] \in Nat /\ change.dropped \in Nat
         /\ delivered'[i] \in Nat /\ tap_dropped'[i] \in Nat /\ offered'[i] \in Nat
         /\ stray'[i] \in Nat /\ reported'[i] \in Nat /\ change'.dropped \in Nat
         /\ InFlight(i) \in Nat /\ Stale(i) \in Nat
BY InFlightIs, StaleType DEF TypeOK

(* A step that neither counts nor moves anything of tap i keeps its books.    *)
BooksAsTheyWere(i) ==
  /\ delivered'[i] = delivered[i] /\ tap_dropped'[i] = tap_dropped[i]
  /\ offered'[i] = offered[i] /\ stray'[i] = stray[i] /\ reported'[i] = reported[i]
  /\ InFlight(i)' = InFlight(i) /\ Stale(i)' = Stale(i)

LEMMA BooksKept ==
  ASSUME TypeOK, TypeOK', NEW i \in TapIds, Balanced(i), Young(i), BooksAsTheyWere(i),
         wire'[i] = wire[i], tap_open'[i] = tap_open[i], Unopened(i)' => Unopened(i),
         Changing' /\ change'.tap = i /\ ~change'.open =>
           /\ Changing /\ change.tap = i /\ ~change.open
           /\ change'.dropped = change.dropped
  PROVE  Balanced(i)' /\ Young(i)'
BY DEF Balanced, Young, BooksAsTheyWere

(* g more events, m of them sent or on their way and the others lost.         *)
LEMMA BooksMove ==
  ASSUME TypeOK, TypeOK', NEW i \in TapIds, Balanced(i), NEW g \in Int, NEW m \in Int,
         UNCHANGED <<reported, change, wire, tap_open>>,
         Unopened(i)' = Unopened(i), Changing' = Changing,
         offered'[i] + stray'[i] = offered[i] + stray[i] + g,
         delivered'[i] + InFlight(i)' = delivered[i] + InFlight(i) + m,
         m <= g, tap_dropped'[i] + m <= tap_dropped[i] + g,
         tap_open[i] => (m = g /\ tap_dropped'[i] = tap_dropped[i]) \/ tap_dropped'[i] > 0,
         Unopened(i) => UNCHANGED <<offered[i], stray[i], delivered[i], InFlight(i)>>
  PROVE  Balanced(i)'
<1>1. InFlight(i)' \in Nat
  <2>1. /\ InFlight(i)' = HowMany(transcript_q', Mine(i)) + (IF tx' # "get" /\ i \in held'.for THEN 1 ELSE 0)
        /\ HowMany(transcript_q', Mine(i)) \in Nat
    BY InFlightNext
  <2> QED BY <2>1
<1>2. \A k \in Nat : delivered[i] + k + InFlight(i) <= offered[i] + stray[i] =>
        \A n \in Nat : n + m <= k + g => delivered'[i] + n + InFlight(i)' <= offered'[i] + stray'[i]
  BY <1>1, Counters
<1>3. offered'[i] + stray'[i] > delivered'[i] + InFlight(i)' /\ m = g =>
        offered[i] + stray[i] > delivered[i] + InFlight(i)
  BY <1>1, Counters
<1>4. \A k \in Nat : k + m <= k + g
  OBVIOUS
<1>5. delivered'[i] + tap_dropped'[i] + InFlight(i)' <= offered'[i] + stray'[i]
  BY <1>2, Counters DEF Balanced
<1>6. wire[i] = "closed" => delivered'[i] + reported'[i] + InFlight(i)' <= offered'[i] + stray'[i]
  BY <1>2, <1>4, Counters DEF Balanced
<1>7. Changing /\ change.tap = i /\ ~change.open =>
        delivered'[i] + change.dropped + InFlight(i)' <= offered'[i] + stray'[i]
  BY <1>2, <1>4, Counters DEF Balanced
<1>8. tap_open[i] /\ offered'[i] + stray'[i] > delivered'[i] + InFlight(i)' => tap_dropped'[i] > 0
  BY <1>3 DEF Balanced
<1>9. Unopened(i) =>
        offered'[i] = 0 /\ stray'[i] = 0 /\ delivered'[i] = 0 /\ InFlight(i)' = 0
  BY DEF Balanced
<1> QED BY <1>5, <1>6, <1>7, <1>8, <1>9 DEF Balanced

(* An event finds a listener's tap open: it is on its way or it is counted.   *)
LEMMA SinkKeepsBooks ==
  ASSUME TypeOK, TypeOK', LinkInv, Ledger, NEW e \in Entries, transcript_sink_cb(e),
         NEW i \in TapIds
  PROVE  Balanced(i)' /\ Young(i)'
<1> DEFINE L == Listeners(e)
           one == IF i \in L THEN 1 ELSE 0
           x == [entry |-> e, for |-> L]
<1>1. /\ UNCHANGED <<pc, change, study, wire, tap_open, delivered, reported, stray, tx, held>>
      /\ offered' = Bump(offered, L)
  BY DEF transcript_sink_cb, mainVars, txVars, coreVars
<1>2. /\ Unopened(i)' = Unopened(i) /\ Changing' = Changing
  BY <1>1 DEF Unopened, Changing
<1>3. /\ i \in L => tap_open[i]
      /\ Matches(i, e) /\ i \notin L => ~tap_open[i]
      /\ Unopened(i) => i \notin L
  BY ListenersMatch, UnopenedIsShut DEF Ledger, InHand
<1>4. offered'[i] = offered[i] + one
  BY <1>1, Counters DEF Bump
<1>5. Balanced(i) /\ Young(i)
  BY DEF Ledger
<1>6. CASE transcript_q' = Append(transcript_q, x) /\ UNCHANGED tap_dropped
  <2>1. x \in Item
    BY TapsAreIds, StreamTapsAssumption DEF Item, Listeners
  <2>2. /\ InFlight(i)' = InFlight(i) + (IF i \in x.for THEN 1 ELSE 0)
        /\ Stale(i)' = Stale(i) + (IF x \in Older(i) THEN 1 ELSE 0)
    BY <1>1, <1>6, <2>1, InFlightAppend
  <2>3. InFlight(i)' = InFlight(i) + one
    BY <2>2
  <2>4. tap_open[i] => Stale(i)' = Stale(i)
    <3>1. tap_open[i] => x \notin Older(i)
      BY <1>3 DEF Older
    <3> QED BY <2>2, <3>1, Counters
  <2>5. Young(i)'
    BY <1>1, <1>5, <2>4 DEF Young
  <2>a. one \in Int /\ (Unopened(i) => one = 0) /\ tap_dropped'[i] + one <= tap_dropped[i] + one
        /\ (Unopened(i) => UNCHANGED <<offered[i], stray[i], delivered[i], InFlight(i)>>)
    BY <1>1, <1>3, <1>4, <1>6, <2>3, Counters
  <2>b. /\ offered'[i] + stray'[i] = offered[i] + stray[i] + one
        /\ delivered'[i] + InFlight(i)' = delivered[i] + InFlight(i) + one
    BY <1>1, <1>4, <2>3, <2>a, Counters
  <2> HIDE DEF L, x, one
  <2>6. Balanced(i)'
    BY <1>1, <1>2, <1>5, <1>6, <2>a, <2>b, BooksMove
  <2> QED BY <2>5, <2>6
<1>7. CASE UNCHANGED transcript_q /\ tap_dropped' = Bump(tap_dropped, L)
  <2>1. tap_dropped'[i] = tap_dropped[i] + one
    BY <1>7, Counters DEF Bump
  <2>2. InFlight(i)' = InFlight(i) /\ Stale(i)' = Stale(i)
    BY <1>1, <1>7, InFlightSame
  <2>3. Young(i)'
    BY <1>1, <1>5, <2>2 DEF Young
  <2> HIDE DEF L, x
  <2>4. Balanced(i)'
    BY <1>1, <1>2, <1>3, <1>4, <1>5, <2>1, <2>2, Counters, BooksMove
  <2> QED BY <2>3, <2>4
<1> QED BY <1>6, <1>7 DEF transcript_sink_cb, charge_drop_to_taps

(* A loss upstream is an event and a loss of the open taps it belonged to.    *)
LEMMA DropKeepsBooks ==
  ASSUME TypeOK, TypeOK', LinkInv, Ledger, NEW c \in Chars, drop_sink_cb(c), NEW i \in TapIds
  PROVE  Balanced(i)' /\ Young(i)'
<1> DEFINE L == NotifyTapsOf(c)
           one == IF i \in L THEN 1 ELSE 0
<1>1. /\ UNCHANGED <<pc, change, study, wire, tap_open, delivered, reported, stray, tx, held,
                     transcript_q>>
      /\ offered' = Bump(offered, L) /\ tap_dropped' = Bump(tap_dropped, L)
  BY DEF drop_sink_cb, ChargedUpstream, mainVars, txVars, coreVars
<1>2. Unopened(i)' = Unopened(i) /\ Changing' = Changing
  BY <1>1 DEF Unopened, Changing
<1>3. i \in L => tap_open[i]
  BY DEF NotifyTapsOf
<1>4. Unopened(i) => i \notin L
  BY <1>3, UnopenedIsShut DEF Ledger, InHand
<1>5. offered'[i] = offered[i] + one /\ tap_dropped'[i] = tap_dropped[i] + one
  BY <1>1, Counters DEF Bump
<1>6. InFlight(i)' = InFlight(i) /\ Stale(i)' = Stale(i)
  BY <1>1, InFlightSame
<1>7. Balanced(i) /\ Young(i)
  BY DEF Ledger
<1>8. Young(i)'
  BY <1>1, <1>6, <1>7 DEF Young
<1> HIDE DEF L
<1>9. Balanced(i)'
  BY <1>1, <1>2, <1>4, <1>5, <1>6, <1>7, Counters, BooksMove
<1> QED BY <1>8, <1>9

(* The fan-out: what it sends was on its way or is a record from before, and
   an entry that does not fit stays in hand to be counted.                    *)
LEMMA SendKeepsBooks ==
  ASSUME TypeOK, TypeOK', LinkInv, Ledger, TxSend, NEW i \in TapIds
  PROVE  Balanced(i)' /\ Young(i)'
<1> DEFINE L == Listeners(held.entry)
           F == Unencodable(held.entry)
           h == HowMany(transcript_q, Mine(i))
           u == IF i \in held.for THEN 1 ELSE 0
           b == IF i \in L \ held.for THEN 1 ELSE 0
           l == IF i \in L THEN 1 ELSE 0
<1>1. /\ UNCHANGED <<pc, change, study, wire, tap_open, reported, offered, tap_dropped,
                     transcript_q>>
      /\ tx = "send" /\ delivered' = Bump(delivered, L \ F) /\ stray' = Bump(stray, L \ held.for)
      /\ \/ F = {} /\ tx' = "get"
         \/ F # {} /\ tx' = "count" /\ held' = [held EXCEPT !.for = F]
  BY DEF TxSend, mainVars, tapVars
<1>2. Unopened(i)' = Unopened(i) /\ Changing' = Changing
  BY <1>1 DEF Unopened, Changing
<1>3. F \subseteq L /\ held \in Item /\ held \in Proper
  BY <1>1 DEF Unencodable, Ledger, InHand, ItemsProper, TypeOK
<1>4. /\ i \in L => tap_open[i]
      /\ tap_open[i] /\ i \in held.for => i \in L
      /\ Unopened(i) => i \notin L
  BY <1>3, ListenersMatch, UnopenedIsShut DEF Ledger, InHand, Proper
<1>5. InFlight(i) = h + u /\ h \in Nat
  BY <1>1, InFlightIs
<1>6. InFlight(i)' = h + (IF i \in F THEN 1 ELSE 0)
  <2>1. InFlight(i)' = h + (IF tx' # "get" /\ i \in held'.for THEN 1 ELSE 0)
    BY <1>1, InFlightNext
  <2>2. tx' # "get" => held'.for = F
    BY <1>1, <1>3 DEF Item
  <2> QED BY <1>1, <2>1, <2>2
<1>7. /\ delivered'[i] = delivered[i] + (IF i \in L \ F THEN 1 ELSE 0)
      /\ stray'[i] = stray[i] + b
  BY <1>1, Counters DEF Bump
<1>8. Balanced(i) /\ Young(i)
  BY DEF Ledger
<1>9. Young(i)'
  <2>1. Older(i)' = Older(i)
    BY <1>1 DEF Older, Matches, IsTranscriptTap, Transcripts, FedByNotify
  <2>2. HowMany(transcript_q, Older(i)) \in Nat
    BY StaleType
  <2>3. Stale(i)' = HowMany(transcript_q, Older(i))
    BY <1>1, <2>1, <2>2 DEF Stale
  <2>4. i \in L \ held.for => held \in Older(i)
    BY <1>3, ListenersMatch DEF Older
  <2>5. Stale(i) >= HowMany(transcript_q, Older(i)) + b
    BY <1>1, <2>2, <2>4 DEF Stale
  <2>6. b = 1 => tap_open[i]
    BY <1>4
  <2>7. b \in {0, 1} /\ (b = 0 \/ b = 1) /\ QueueDepth \in Nat
    BY StreamTapsAssumption
  <2> HIDE DEF b
  <2> QED BY <1>1, <1>7, <1>8, <2>2, <2>3, <2>5, <2>6, <2>7, Counters DEF Young
<1>10. /\ offered'[i] + stray'[i] = offered[i] + stray[i] + b
       /\ delivered'[i] + InFlight(i)' = delivered[i] + InFlight(i) + (l - u)
  BY <1>1, <1>3, <1>5, <1>6, <1>7, Counters
<1>11. /\ b \in Int /\ l - u \in Int /\ l - u <= b
       /\ tap_dropped'[i] + (l - u) <= tap_dropped[i] + b
       /\ tap_open[i] => l - u = b
  BY <1>1, <1>4, Counters
<1>12. Unopened(i) => UNCHANGED <<offered[i], stray[i], delivered[i], InFlight(i)>>
  <2>1. Unopened(i) => InFlight(i) = 0
    BY <1>8 DEF Balanced
  <2> QED BY <1>1, <1>3, <1>4, <1>5, <1>6, <1>7, <2>1, Counters
<1> HIDE DEF L, F, h, u, b, l
<1>13. Balanced(i)'
  BY <1>1, <1>2, <1>8, <1>10, <1>11, <1>12, BooksMove
<1> QED BY <1>9, <1>13

(* Counting what did not fit: the counter may forget losses, never its own.   *)
LEMMA ChargeKeepsBooks ==
  ASSUME TypeOK, TypeOK', LinkInv, Ledger, TxCharge, NEW i \in TapIds
  PROVE  Balanced(i)' /\ Young(i)'
<1> DEFINE u == IF i \in held.for THEN 1 ELSE 0
<1>1. /\ UNCHANGED <<pc, change, study, wire, tap_open, reported, offered, delivered, stray,
                     transcript_q>>
      /\ tx = "charge" /\ tx' = "get"
      /\ tap_dropped'[i] = IF i \in held.for THEN loaded + 1 ELSE tap_dropped[i]
  BY DEF TxCharge, mainVars, coreVars, ghosts
<1>2. Unopened(i)' = Unopened(i) /\ Changing' = Changing
  BY <1>1 DEF Unopened, Changing
<1>3. i \in held.for => loaded <= tap_dropped[i]
  BY <1>1 DEF Ledger, InHand, ChargeInHand
<1>4. InFlight(i) = InFlight(i)' + u /\ InFlight(i)' \in Nat
  <2>1. InFlight(i) = HowMany(transcript_q, Mine(i)) + u /\ HowMany(transcript_q, Mine(i)) \in Nat
    BY <1>1, InFlightIs
  <2>2. InFlight(i)' = HowMany(transcript_q, Mine(i)) + 0
    BY <1>1, InFlightNext
  <2> QED BY <2>1, <2>2
<1>5. Balanced(i) /\ Young(i) /\ loaded \in Nat
  BY DEF Ledger, TypeOK
<1>6. Stale(i)' = Stale(i)
  <2>1. Older(i)' = Older(i)
    BY <1>1 DEF Older, Matches, IsTranscriptTap, Transcripts, FedByNotify
  <2> QED BY <1>1, <2>1 DEF Stale
<1>7. Young(i)'
  BY <1>1, <1>5, <1>6 DEF Young
<1>8. Unopened(i) => u = 0
  BY <1>4, <1>5 DEF Balanced
<1>9. /\ 0 - u \in Int /\ 0 - u <= 0
      /\ delivered'[i] + InFlight(i)' = delivered[i] + InFlight(i) + (0 - u)
      /\ offered'[i] + stray'[i] = offered[i] + stray[i] + 0
  BY <1>1, <1>4, Counters
<1>10. /\ tap_dropped'[i] + (0 - u) <= tap_dropped[i] + 0
       /\ (0 - u = 0 /\ tap_dropped'[i] = tap_dropped[i]) \/ tap_dropped'[i] > 0
  <2>1. CASE i \in held.for
    <3>1. tap_dropped'[i] = loaded + 1 /\ u = 1
      BY <1>1, <2>1
    <3> HIDE DEF u
    <3> QED BY <1>3, <1>5, <2>1, <3>1, Counters
  <2>2. CASE i \notin held.for
    <3>1. tap_dropped'[i] = tap_dropped[i] /\ u = 0
      BY <1>1, <2>2
    <3> HIDE DEF u
    <3> QED BY <3>1, Counters
  <2> QED BY <2>1, <2>2
<1>11. Unopened(i) => UNCHANGED <<offered[i], stray[i], delivered[i], InFlight(i)>>
  BY <1>1, <1>4, <1>8
<1> HIDE DEF u
<1>12. Balanced(i)'
  BY <1>1, <1>2, <1>5, <1>9, <1>10, <1>11, BooksMove
<1> QED BY <1>7, <1>12

(* A change is set out on with the tap's present count in hand ...            *)
LEMMA BeginKeepsBooks ==
  ASSUME TypeOK, TypeOK', Ledger, NEW want \in [Ours -> BOOLEAN], NEW back,
         BeginChange(want, back), NEW i \in TapIds
  PROVE  Balanced(i)' /\ Young(i)'
<1>1. PICK t \in FirstOff(want) :
        /\ change' = [tap |-> t, open |-> want[t], back |-> back,
                      dropped |-> IF want[t] THEN 0 ELSE tap_dropped[t]]
        /\ pc' = "want"
        /\ UNCHANGED <<study, tap_open, tap_dropped, transcript_q, tx, held, wire, reported,
                       delivered, offered, stray>>
  BY DEF BeginChange, tapVars, txVars, coreVars, ghosts
<1>2. /\ change'.tap = t /\ change'.open = want[t]
      /\ ~want[t] => change'.dropped = tap_dropped[t]
  BY <1>1
<1>3. InFlight(i)' = InFlight(i) /\ Stale(i)' = Stale(i)
  BY <1>1, InFlightSame
<1>4. Unopened(i)' => Unopened(i)
  BY <1>1 DEF Unopened
<1>5. Balanced(i) /\ Young(i)
  BY DEF Ledger
<1> QED BY <1>1, <1>2, <1>3, <1>4, <1>5 DEF Balanced, Young

(* ... which the StreamClose carries; a StreamOpen finds the books empty ...  *)
LEMMA SendChangeKeepsBooks ==
  ASSUME TypeOK, TypeOK', LinkInv, Ledger, SendChange, NEW i \in TapIds
  PROVE  Balanced(i)' /\ Young(i)'
<1>1. /\ pc = "want" /\ pc' = "mark"
      /\ UNCHANGED <<study, change, tap_open, tap_dropped, transcript_q, held, delivered,
                     offered, stray>>
      /\ tx' = tx \/ (tx = "pend" /\ tx' = "send")
  BY DEF SendChange, ReleaseByMain, tapVars, ghosts
<1>2. InFlight(i)' = InFlight(i) /\ Stale(i)' = Stale(i)
  BY <1>1, InFlightSame
<1>3. Balanced(i) /\ Young(i)
  BY DEF Ledger
<1>4. CASE i # change.tap
  <2>1. wire'[i] = wire[i] /\ reported'[i] = reported[i]
    BY <1>4 DEF SendChange, TypeOK
  <2>2. Unopened(i)' => Unopened(i)
    BY <1>1, <1>4, <2>1 DEF Unopened
  <2> QED BY <1>1, <1>2, <1>3, <1>4, <2>1, <2>2, BooksKept DEF BooksAsTheyWere
<1>5. CASE i = change.tap
  <2>1. wire'[i] = (IF change.open THEN "open" ELSE "closed") /\ reported'[i] = change.dropped
    BY <1>5 DEF SendChange, TypeOK
  <2>2. change.open => Unopened(i)
    BY <1>1, <1>5 DEF LinkInv, ChangeIsDue, Changing, Unopened
  <2>3. Unopened(i)' => change.open
    BY <1>1, <2>1 DEF Unopened
  <2>4. Changing
    BY <1>1 DEF Changing
  <2> QED BY <1>1, <1>2, <1>3, <1>5, <2>1, <2>2, <2>3, <2>4 DEF Balanced, Young
<1> QED BY <1>4, <1>5

(* ... and so does the tap that opens, with a queue of older items at most.   *)
LEMMA MarkKeepsBooks ==
  ASSUME TypeOK, TypeOK', LinkInv, Ledger, MarkChange, NEW i \in TapIds
  PROVE  Balanced(i)' /\ Young(i)'
<1>1. /\ pc = "mark" /\ pc' \in {"sync", "close"}
      /\ UNCHANGED <<study, change, tap_dropped, transcript_q, tx, held, wire, reported,
                     delivered, offered, stray>>
      /\ tap_open' = [tap_open EXCEPT ![change.tap] = change.open]
  BY DEF MarkChange, TypeOK, txVars, coreVars, ghosts
<1>2. InFlight(i)' = InFlight(i) /\ Stale(i)' = Stale(i)
  BY <1>1, InFlightSame
<1>3. Balanced(i) /\ Young(i)
  BY DEF Ledger
<1>4. (Unopened(i)' => Unopened(i)) /\ ~Changing'
  BY <1>1 DEF Unopened, Changing
<1>5. CASE i # change.tap
  <2>1. tap_open'[i] = tap_open[i]
    BY <1>1, <1>5 DEF TypeOK
  <2> QED BY <1>1, <1>2, <1>3, <1>4, <2>1, BooksKept DEF BooksAsTheyWere
<1>6. CASE i = change.tap /\ change.open
  <2>1. Unopened(i)
    BY <1>1, <1>6 DEF Unopened
  <2>2. /\ offered[i] = 0 /\ stray[i] = 0 /\ delivered[i] = 0 /\ InFlight(i) = 0
        /\ tap_dropped[i] = 0
    BY <1>3, <2>1, Counters DEF Balanced
  <2>3. wire[i] = "open"
    BY <1>1, <1>6 DEF LinkInv, WireAgrees
  <2>4. Stale(i) <= QueueDepth + 1 /\ Stale(i) \in Nat /\ QueueDepth \in Nat
    BY StaleType, StreamTapsAssumption
  <2>5. Balanced(i)'
    BY <1>1, <1>2, <1>4, <2>2, <2>3 DEF Balanced
  <2>6. Young(i)'
    BY <1>1, <1>2, <2>2, <2>4 DEF Young
  <2> QED BY <2>5, <2>6
<1>7. CASE i = change.tap /\ ~change.open
  <2>1. ~tap_open'[i]
    BY <1>1, <1>7 DEF TypeOK
  <2> QED BY <1>1, <1>2, <1>3, <1>4, <2>1 DEF Balanced, Young
<1> QED BY <1>5, <1>6, <1>7

LEMMA LedgerInit == Init => Ledger
<1> SUFFICES ASSUME Init PROVE Ledger
  OBVIOUS
<1>1. InHand
  BY DEF Init, InHand, ItemsProper, ChargeInHand, ChangeInHand, Changing
<1>2. \A i : InFlight(i) = 0
  <2>1. \A i : {k \in DOMAIN <<>> : i \in <<>>[k].for} = {}
    OBVIOUS
  <2> QED BY <2>1, FS_EmptySet DEF Init, InFlight
<1>3. \A i \in TapIds : Balanced(i) /\ Young(i)
  BY <1>2, StreamTapsAssumption DEF Init, Balanced, Young, Zero, Changing
<1> QED BY <1>1, <1>3 DEF Ledger

(* A study starts with a queue that the last one left empty.                  *)
LEMMA StudyOpensBooks ==
  ASSUME TypeOK, TypeOK', NEW s \in Studies, dispatch_study(s), NEW i \in TapIds
  PROVE  Balanced(i)' /\ Young(i)'
<1>1. /\ transcript_q' = <<>> /\ tx' = "get" /\ pc' = "sync"
      /\ delivered' = Zero /\ offered' = Zero /\ stray' = Zero
      /\ tap_dropped' = Zero /\ wire'[i] = "none" /\ tap_open'[i] = FALSE
  BY DEF dispatch_study, BacklogSettled, load_study_taps, txVars
<1>2. InFlight(i)' = 0
  <2>1. {k \in DOMAIN <<>> : i \in <<>>[k].for} = {}
    OBVIOUS
  <2> QED BY <1>1, <2>1, FS_EmptySet DEF InFlight
<1>3. Zero[i] = 0
  BY DEF Zero
<1> QED BY <1>1, <1>2, <1>3, StreamTapsAssumption DEF Balanced, Young, Changing

(* Every other step of the threads leaves the books as they were.             *)
LEMMA OthersKeepBooks ==
  ASSUME TypeOK, TypeOK', Ledger, NEW i \in TapIds,
         UNCHANGED <<study, change, wire, tap_open, tap_dropped, delivered, offered, stray,
                     reported>>,
         InFlight(i)' = InFlight(i), Stale(i)' = Stale(i),
         pc' = pc \/ pc' \notin {"want", "mark"}
  PROVE  Balanced(i)' /\ Young(i)'
<1>1. (Unopened(i)' => Unopened(i)) /\ (Changing' => Changing)
  BY DEF Unopened, Changing
<1> QED BY <1>1, BooksKept DEF BooksAsTheyWere, Ledger

LEMMA LedgerNext ==
  ASSUME TypeOK, TypeOK', LinkInv, Ledger, [Next]_vars
  PROVE  Ledger'
<1>1. InHand'
  BY ItemsProperNext, ChargeInHandNext, ChangeInHandNext DEF Ledger, InHand
<1>2. ASSUME NEW i \in TapIds PROVE Balanced(i)' /\ Young(i)'
  <2> USE DEF mainVars, tapVars, txVars, coreVars, ghosts
  <2>1. CASE Sinks
    BY <2>1, SinkKeepsBooks, DropKeepsBooks DEF Sinks
  <2>2. CASE TxGet
    <3>1. UNCHANGED <<study, change, wire, tap_open, tap_dropped, delivered, offered, stray,
                      reported, pc>>
      BY <2>2 DEF TxGet
    <3> QED BY <2>2, <3>1, InFlightTaken, OthersKeepBooks
  <2>3. CASE TxLock \/ LogTake \/ LogSend
    <3>1. /\ UNCHANGED <<study, change, wire, tap_open, tap_dropped, delivered, offered, stray,
                         reported, pc, transcript_q, held>>
          /\ tx' = tx \/ (tx \in {"lock", "pend"} /\ tx' \in {"pend", "send"})
      BY <2>3 DEF TxLock, LogTake, LogSend, ReleaseByMain
    <3> QED BY <3>1, InFlightSame, OthersKeepBooks
  <2>4. CASE TxCount
    <3>1. /\ UNCHANGED <<study, change, wire, tap_open, tap_dropped, delivered, offered, stray,
                         reported, pc, transcript_q, held>>
          /\ tx = "count" /\ tx' = "charge"
      BY <2>4 DEF TxCount
    <3>2. Older(i)' = Older(i)
      BY <3>1 DEF Older, Matches, IsTranscriptTap, Transcripts, FedByNotify
    <3>3. InFlight(i)' = InFlight(i) /\ Stale(i)' = Stale(i)
      BY <3>1, <3>2 DEF InFlight, Stale
    <3> QED BY <3>1, <3>3, OthersKeepBooks
  <2>5. CASE TxSend \/ TxCharge
    BY <2>5, SendKeepsBooks, ChargeKeepsBooks
  <2>6. CASE \E s \in Studies : dispatch_study(s)
    BY <2>6, StudyOpensBooks
  <2>7. CASE SendChange \/ MarkChange
    BY <2>7, SendChangeKeepsBooks, MarkKeepsBooks
  <2>8. ASSUME \/ sync_taps_for_step /\ ~BeginChange(WantedNow, "sync")
               \/ close_all_taps /\ ~BeginChange(Shut, "close")
               \/ StepEnds \/ send_step_result \/ CloseWindow \/ send_log_line \/ Drain
               \/ NapEnds \/ clear_bonds \/ send_study_done \/ UNCHANGED vars
        PROVE  Balanced(i)' /\ Young(i)'
    <3>1. /\ UNCHANGED <<study, change, wire, tap_open, tap_dropped, delivered, offered, stray,
                         reported, transcript_q, held>>
          /\ tx' = tx \/ (tx \in {"lock", "pend"} /\ tx' \in {"pend", "send"})
          /\ pc' = pc \/ pc' \notin {"want", "mark"}
      BY <2>8 DEF sync_taps_for_step, close_all_taps, StepEnds, send_step_result,
         LeftByLoop, CloseWindow, send_log_line, Drain, NapEnds, clear_bonds, send_study_done, ReleaseByMain, vars
    <3> QED BY <3>1, InFlightSame, OthersKeepBooks
  <2>9. CASE sync_taps_for_step
    <3>1. WantedNow \in [Ours -> BOOLEAN]
      BY OursAreIds DEF WantedNow, covers
    <3> QED BY <2>8, <2>9, <3>1, BeginKeepsBooks
  <2>10. CASE close_all_taps
    <3>1. Shut \in [Ours -> BOOLEAN]
      BY DEF Shut
    <3> QED BY <2>8, <2>10, <3>1, BeginKeepsBooks
  <2> QED BY <2>1, <2>2, <2>3, <2>4, <2>5, <2>6, <2>7, <2>8, <2>9, <2>10
          DEF Next, TxThread, DispatchThread
<1> QED BY <1>1, <1>2 DEF Ledger

(* What a tap's count of losses is worth to Core, for every study, every queue
   depth and every interleaving of the unlocked increments: it is never too
   large, it is never zero after a loss, and at most a queue's worth and one
   record from before its window are on a tap.                                *)
THEOREM CountsHonest == Spec => []CountsAreHonest
<1>1. Ledger => CountsAreHonest
  BY DEF Ledger, Balanced, Young, CountsAreHonest, NeverOverCounts, LossNeverReadsZero,
     StrayBounded
<1>2. TypeOK /\ TypeOK' /\ LinkInv /\ Ledger /\ [Next]_vars => Ledger'
  BY LedgerNext
<1> QED BY <1>1, <1>2, LedgerInit, TypeCorrect, LinkCorrect, PTL DEF Spec
-----------------------------------------------------------------------------
(* What a close may be short of.                                              *)
Short(i) == due[i] > delivered[i] + 1

(* A tap that is short by more than one record has counted a loss, has it in
   hand on the way to its StreamClose, and has reported it when closed.       *)
LossShows(i) ==
  Short(i) => /\ tap_dropped[i] > 0
              /\ Changing /\ change.tap = i /\ ~change.open => change.dropped > 0
              /\ wire[i] = "closed" => reported[i] > 0

(* A step that leaves the close of a tap alone.                               *)
LEMMA LossStillShows ==
  ASSUME TypeOK, TypeOK', NEW i \in TapIds, LossShows(i),
         due'[i] = due[i], delivered'[i] >= delivered[i],
         tap_dropped[i] > 0 => tap_dropped'[i] > 0,
         (Changing' => Changing) /\ UNCHANGED <<change, wire, reported>>
  PROVE  LossShows(i)'
<1>1. due[i] \in Nat /\ delivered[i] \in Nat /\ delivered'[i] \in Nat
  BY DEF TypeOK
<1> QED BY <1>1 DEF LossShows, Short

LEMMA DrainShows ==
  ASSUME TypeOK, LinkInv, Ledger, Drain, NEW i \in TapIds, LossShows(i)
  PROVE  LossShows(i)'
<1>1. /\ UNCHANGED <<tap_open, tap_dropped, transcript_q, change, delivered, wire, reported>>
      /\ pc = "drain" /\ pc' \in {"close", "nap"}
  BY DEF Drain, tapVars, coreVars
<1>2. ~Changing'
  BY <1>1 DEF Changing
<1>3. CASE ~Drained
  BY <1>1, <1>2, <1>3 DEF Drain, LossShows, Short
<1>4. CASE Drained /\ ~tap_open[i]
  <2>1. due'[i] = 0 /\ delivered[i] \in Nat
    BY <1>4 DEF Drain, TypeOK
  <2> QED BY <1>1, <2>1 DEF LossShows, Short
<1>5. CASE Drained /\ tap_open[i]
  <2>1. due'[i] = offered[i] + stray[i]
    BY <1>5 DEF Drain
  <2>2. InFlight(i) \in Nat /\ InFlight(i) <= 1
    <3>1. HowMany(transcript_q, Mine(i)) = 0
      BY <1>5, HowManyNone DEF Drained
    <3> QED BY <3>1, InFlightIs
  <2>3. offered[i] + stray[i] > delivered[i] + InFlight(i) => tap_dropped[i] > 0
    BY <1>5 DEF Ledger, Balanced
  <2>4. offered[i] \in Nat /\ stray[i] \in Nat /\ delivered[i] \in Nat
    BY DEF TypeOK
  <2>5. Short(i)' => tap_dropped[i] > 0
    BY <1>1, <2>1, <2>2, <2>3, <2>4 DEF Short
  <2>6. wire[i] = "open"
    BY <1>1, <1>5 DEF LinkInv, WireAgrees
  <2> QED BY <1>1, <1>2, <2>5, <2>6 DEF LossShows
<1> QED BY <1>3, <1>4, <1>5

LEMMA LossShowsNext ==
  ASSUME TypeOK, TypeOK', LinkInv, Ledger, [Next]_vars, NEW i \in TapIds, LossShows(i)
  PROVE  LossShows(i)'
<1> USE DEF mainVars, tapVars, txVars, coreVars, ghosts
<1>0. /\ due[i] \in Nat /\ delivered[i] \in Nat /\ tap_dropped[i] \in Nat /\ loaded \in Nat
      /\ tap_open \in [TapIds -> BOOLEAN]
  BY DEF TypeOK
<1>1. ASSUME UNCHANGED <<due, delivered, change, wire, reported, tap_dropped>>, Changing' => Changing
      PROVE  LossShows(i)'
  BY <1>0, <1>1, LossStillShows
<1>2. CASE Sinks
  <2>1. UNCHANGED <<due, delivered, change, wire, reported, pc>>
    BY <1>2 DEF Sinks, transcript_sink_cb, drop_sink_cb
  <2>2. tap_dropped' = tap_dropped \/ \E S : tap_dropped' = Bump(tap_dropped, S)
    BY <1>2 DEF Sinks, transcript_sink_cb, drop_sink_cb
  <2>3. \A S : Bump(tap_dropped, S)[i] \in {tap_dropped[i], tap_dropped[i] + 1}
    BY DEF Bump
  <2>4. tap_dropped[i] > 0 => tap_dropped'[i] > 0
    BY <1>0, <2>2, <2>3
  <2> QED BY <1>0, <2>1, <2>4, LossStillShows DEF Changing
<1>3. CASE TxSend
  <2>1. UNCHANGED <<due, tap_dropped, change, wire, reported, pc>>
    BY <1>3 DEF TxSend
  <2>2. delivered'[i] >= delivered[i]
    BY <1>0, <1>3 DEF TxSend, Bump
  <2> QED BY <2>1, <2>2, LossStillShows DEF Changing
<1>4. CASE TxCharge
  <2>1. UNCHANGED <<due, delivered, change, wire, reported, pc>>
    BY <1>4 DEF TxCharge
  <2>2. tap_dropped[i] > 0 => tap_dropped'[i] > 0
    BY <1>0, <1>4 DEF TxCharge
  <2> QED BY <1>0, <2>1, <2>2, LossStillShows DEF Changing
<1>5. CASE \E s \in Studies : dispatch_study(s)
  <2>1. due'[i] = 0 /\ delivered'[i] = 0
    BY <1>5 DEF dispatch_study, Zero
  <2> QED BY <2>1 DEF LossShows, Short
<1>6. ASSUME NEW want, NEW back, BeginChange(want, back) PROVE LossShows(i)'
  <2>1. /\ UNCHANGED <<due, delivered, wire, reported, tap_dropped>>
        /\ \E t \in FirstOff(want) :
              change' = [tap |-> t, open |-> want[t], back |-> back,
                         dropped |-> IF want[t] THEN 0 ELSE tap_dropped[t]]
    BY <1>6 DEF BeginChange
  <2>2. change'.tap = i /\ ~change'.open => change'.dropped = tap_dropped[i]
    BY <2>1
  <2> QED BY <2>1, <2>2 DEF LossShows, Short
<1>7. CASE sync_taps_for_step \/ close_all_taps
  BY <1>1, <1>6, <1>7 DEF sync_taps_for_step, close_all_taps, Changing
<1>8. CASE SendChange
  <2>1. /\ UNCHANGED <<due, delivered, change, tap_dropped>> /\ pc = "want"
        /\ wire' = [wire EXCEPT ![change.tap] = IF change.open THEN "open" ELSE "closed"]
        /\ reported' = [reported EXCEPT ![change.tap] = change.dropped]
    BY <1>8 DEF SendChange
  <2>2. /\ i # change.tap => wire'[i] = wire[i] /\ reported'[i] = reported[i]
        /\ i = change.tap => /\ reported'[i] = change.dropped
                             /\ wire'[i] = "closed" => ~change.open
    BY <2>1 DEF TypeOK
  <2> QED BY <2>1, <2>2 DEF LossShows, Short, Changing
<1>9. CASE Drain
  BY <1>9, DrainShows
<1>10. CASE \/ TxGet \/ TxLock \/ TxCount \/ LogTake \/ LogSend \/ MarkChange \/ StepEnds
            \/ send_step_result \/ CloseWindow \/ send_log_line \/ NapEnds \/ clear_bonds \/ send_study_done
            \/ UNCHANGED vars
  <2>1. UNCHANGED <<due, delivered, change, wire, reported, tap_dropped>>
    BY <1>10 DEF TxGet, TxLock, TxCount, LogTake, LogSend, ReleaseByMain, MarkChange, StepEnds,
       send_step_result, LeftByLoop, CloseWindow, send_log_line, NapEnds, clear_bonds, send_study_done, vars
  <2>2. Changing' => Changing
    BY <1>10 DEF TxGet, TxLock, TxCount, LogTake, LogSend, MarkChange, StepEnds,
       send_step_result, LeftByLoop, CloseWindow, send_log_line, NapEnds, clear_bonds, send_study_done, vars, Changing, TypeOK
  <2> QED BY <1>1, <2>1, <2>2
<1> QED BY <1>2, <1>3, <1>4, <1>5, <1>7, <1>8, <1>9, <1>10 DEF Next, TxThread, DispatchThread

(* For every study, queue depth and burst of events, a StreamClose that admits
   no loss is short of the events its tap had got when the drain was over by
   one record at most.                                                        *)
THEOREM ClosesNearlyComplete == Spec => []CloseLosesAtMostOne
<1> DEFINE Shows == \A i \in TapIds : LossShows(i)
<1>1. Init => Shows
  BY DEF Init, LossShows, Short, Zero
<1>2. TypeOK /\ TypeOK' /\ LinkInv /\ Ledger /\ Shows /\ [Next]_vars => Shows'
  BY LossShowsNext
<1>3. TypeOK /\ Shows => CloseLosesAtMostOne
  <2> SUFFICES ASSUME TypeOK, NEW i \in TapIds, LossShows(i), wire[i] = "closed", reported[i] = 0
               PROVE  delivered[i] + 1 >= due[i]
    BY DEF CloseLosesAtMostOne
  <2>1. delivered[i] \in Nat /\ due[i] \in Nat
    BY DEF TypeOK
  <2> QED BY <2>1 DEF LossShows, Short
<1>4. TypeOK /\ TypeOK' /\ LinkInv /\ Ledger /\ [Next]_vars => Ledger'
  BY LedgerNext
<1> HIDE DEF Shows
<1> QED BY <1>1, <1>2, <1>3, <1>4, LedgerInit, TypeCorrect, LinkCorrect, PTL DEF Spec

(* For every study, queue depth and burst of events, no close hides more than
   one record and the end of the study announces the transcript's losses.     *)
THEOREM LossesReachCore == Spec => []LossReachesCore
<1>1. TranscriptLossIsAnnounced /\ CloseLosesAtMostOne => LossReachesCore
  BY DEF LossReachesCore
<1> QED BY <1>1, TranscriptLossAnnounced, ClosesNearlyComplete, PTL
=============================================================================
