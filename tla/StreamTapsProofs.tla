-------------------------- MODULE StreamTapsProofs --------------------------
(* Proofs about StreamTaps for every number of taps, every queue depth and    *)
(* every set of studies and events.                                           *)
EXTENDS StreamTaps, TLAPS

(* A tap an event is charged to or sent on is one of the declared ids.        *)
LEMMA TapsAreIds ==
  ASSUME TypeOK
  PROVE  /\ DOMAIN study.taps \subseteq TapIds
         /\ \A i \in DOMAIN study.taps : study.taps[i] \in TapDecl
<1>1. study.taps \in Seq(TapDecl) /\ Len(study.taps) <= MaxTaps
  BY DEF TypeOK, Study
<1>2. DOMAIN study.taps = 1..Len(study.taps) /\ Len(study.taps) \in Nat
  BY <1>1
<1> QED BY <1>1, <1>2, StreamTapsAssumption DEF TapIds

LEMMA BumpType ==
  ASSUME NEW f \in [TapIds -> Nat], NEW S
  PROVE  Bump(f, S) \in [TapIds -> Nat]
BY DEF Bump

(* What the actions of the dispatch thread that open and close taps leave.    *)
LEMMA BeginChangeType ==
  ASSUME TypeOK, NEW i \in Ours, NEW w \in BOOLEAN, NEW b \in {"sync", "close"},
         change' = [tap |-> i, open |-> w, back |-> b,
                    dropped |-> IF w THEN 0 ELSE tap_dropped[i]]
  PROVE  change' \in [tap : Nat, open : BOOLEAN, dropped : Nat, back : {"sync", "close"}]
<1>1. i \in TapIds /\ i \in Nat
  BY TapsAreIds DEF Ours, TapIds
<1>2. tap_dropped[i] \in Nat
  BY <1>1 DEF TypeOK
<1> QED BY <1>1, <1>2

LEMMA TypeInit == Init => TypeOK
<1> SUFFICES ASSUME Init PROVE TypeOK
  OBVIOUS
<1>1. study \in Study
  <2>1. NoStudy.taps \in Seq(TapDecl) /\ Len(NoStudy.taps) = 0 /\ NoStudy.steps \in Nat
    BY DEF NoStudy
  <2> QED BY <2>1, StreamTapsAssumption DEF Init, Study, NoStudy
<1>2. held \in Item
  BY DEF Init, Nothing, Entry, Item
<1>3. Zero \in [TapIds -> Nat]
  BY DEF Zero
<1>4. transcript_q \in Seq(Item) /\ Len(transcript_q) <= QueueDepth
  BY StreamTapsAssumption DEF Init
<1> QED BY <1>1, <1>2, <1>3, <1>4 DEF Init, TypeOK, NoChange

LEMMA TypeNext == TypeOK /\ [Next]_vars => TypeOK'
<1> SUFFICES ASSUME TypeOK, [Next]_vars PROVE TypeOK'
  OBVIOUS
<1> USE DEF mainVars, tapVars, txVars, coreVars, ghosts
<1>a. DOMAIN study.taps \subseteq TapIds
  BY TapsAreIds
<1>b. \A e : Listeners(e) \subseteq TapIds
  BY <1>a DEF Listeners
<1>1. ASSUME NEW e \in Entries, transcript_sink_cb(e) PROVE TypeOK'
  <2>0. /\ events' = events + 1
        /\ offered' = Bump(offered, Listeners(e))
        /\ UNCHANGED <<mainVars, tap_open, txVars, link_tx_mutex, coreVars, stray, due>>
    BY <1>1 DEF transcript_sink_cb
  <2>1. offered' \in [TapIds -> Nat]
    BY <2>0, BumpType DEF TypeOK
  <2>1a. events' \in Nat
    BY <2>0 DEF TypeOK
  <2>2. /\ tap_dropped' \in [TapIds -> Nat]
        /\ transcript_dropped' \in Nat
    BY <1>1, BumpType DEF TypeOK, transcript_sink_cb
  <2>2a. /\ <<pc, step, study, change, tap_open>>' = <<pc, step, study, change, tap_open>>
         /\ <<tx, held, loaded, link_tx_mutex>>' = <<tx, held, loaded, link_tx_mutex>>
         /\ <<wire, reported, delivered, stray, due>>' = <<wire, reported, delivered, stray, due>>
    BY <2>0
  <2>3. [entry |-> e, for |-> Listeners(e)] \in Item
    BY <1>b, StreamTapsAssumption DEF Item
  <2>4. /\ transcript_q' \in Seq(Item)
        /\ Len(transcript_q') <= QueueDepth
    <3>1. transcript_q \in Seq(Item) /\ Len(transcript_q) <= QueueDepth
      BY DEF TypeOK
    <3>2. CASE HasRoom /\ transcript_q' = Append(transcript_q, [entry |-> e, for |-> Listeners(e)])
      <4>1. Len(transcript_q') = Len(transcript_q) + 1
        BY <3>1, <3>2, <2>3
      <4> QED BY <3>1, <3>2, <4>1, <2>3, StreamTapsAssumption DEF HasRoom
    <3>3. CASE transcript_q' = transcript_q
      BY <3>1, <3>3
    <3> QED BY <1>1, <3>2, <3>3 DEF transcript_sink_cb
  <2> QED BY <2>1, <2>1a, <2>2, <2>2a, <2>4 DEF TypeOK
<1>2. ASSUME NEW c \in Chars, drop_sink_cb(c) PROVE TypeOK'
  <2>1. /\ offered' \in [TapIds -> Nat]
        /\ tap_dropped' \in [TapIds -> Nat]
    BY <1>2, BumpType DEF TypeOK, drop_sink_cb
  <2>2. events' \in Nat
    BY <1>2 DEF TypeOK, drop_sink_cb
  <2>3. UNCHANGED <<mainVars, tap_open, transcript_dropped, transcript_q, txVars,
                    link_tx_mutex, coreVars, stray, due>>
    BY <1>2, Zenon DEF drop_sink_cb
  <2> QED BY <2>1, <2>2, <2>3 DEF TypeOK
<1>3. CASE TxGet
  <2>1. transcript_q # <<>> /\ transcript_q \in Seq(Item)
    BY <1>3 DEF TxGet, TypeOK
  <2>2. /\ Head(transcript_q) \in Item
        /\ Tail(transcript_q) \in Seq(Item)
        /\ Len(Tail(transcript_q)) = Len(transcript_q) - 1
        /\ Len(transcript_q) \in Nat
    BY <2>1
  <2>3. /\ held' \in Item
        /\ transcript_q' \in Seq(Item)
        /\ Len(transcript_q') <= QueueDepth
    BY <1>3, <2>2, StreamTapsAssumption DEF TxGet, TypeOK, QueueAfterGet
  <2> QED BY <1>3, <2>3 DEF TxGet, TypeOK
<1>4. CASE TxLock
  BY <1>4 DEF TxLock, TypeOK
<1>5. CASE TxSend
  <2>1. delivered' \in [TapIds -> Nat] /\ stray' \in [TapIds -> Nat]
    BY <1>5, BumpType DEF TxSend, TypeOK
  <2>2. held' \in Item
    <3>1. Unencodable(held.entry) \in SUBSET TapIds
      BY <1>b DEF Unencodable
    <3>2. [held EXCEPT !.for = Unencodable(held.entry)] \in Item
      BY <3>1 DEF TypeOK, Item
    <3>3. Nothing \in Item
      BY DEF Nothing, Entry, Item
    <3> QED BY <1>5, <3>2, <3>3 DEF TxSend
  <2>3. tx' \in {"get", "count"} /\ loaded' \in Nat /\ link_tx_mutex' \in {"free", "main", "tx", "log"}
    BY <1>5 DEF TxSend, TypeOK, OwnerAfterTx
  <2>4. UNCHANGED <<mainVars, tapVars, transcript_q, wire, reported, offered, due, events>>
    BY <1>5, Zenon DEF TxSend
  <2> QED BY <2>1, <2>2, <2>3, <2>4 DEF TypeOK
<1>6. CASE TxCount
  <2>1. loaded' \in Nat
    <3>1. held.for \subseteq TapIds
      BY DEF TypeOK, Item
    <3> QED BY <1>6, <3>1 DEF TxCount, TypeOK
  <2> QED BY <1>6, <2>1 DEF TxCount, TypeOK
<1>7. CASE TxCharge
  <2>1. tap_dropped' \in [TapIds -> Nat]
    BY <1>7 DEF TxCharge, TypeOK
  <2>2. held' \in Item
    BY <1>7 DEF TxCharge, Nothing, Entry, Item
  <2> QED BY <1>7, <2>1, <2>2 DEF TxCharge, TypeOK, OwnerAfterTx
<1>8. CASE LogTake
  BY <1>8 DEF LogTake, TypeOK
<1>9. CASE LogSend
  BY <1>9 DEF LogSend, ReleaseByMain, TypeOK
<1>10. ASSUME NEW s \in Studies, dispatch_study(s) PROVE TypeOK'
  <2>1. Zero \in [TapIds -> Nat]
    BY DEF Zero
  <2>2. study' \in Study
    BY <1>10, StreamTapsAssumption DEF dispatch_study, load_study_taps
  <2> QED BY <1>10, <2>1, <2>2 DEF dispatch_study, load_study_taps, TypeOK
<1>11. CASE sync_taps_for_step
  <2>1. CASE BeginChange(WantedNow, "sync")
    <3>1. PICK i \in Ours :
            change' = [tap |-> i, open |-> WantedNow[i], back |-> "sync",
                       dropped |-> IF WantedNow[i] THEN 0 ELSE tap_dropped[i]]
      BY <2>1 DEF BeginChange, FirstOff
    <3>2. WantedNow[i] \in BOOLEAN
      BY TapsAreIds DEF Ours, WantedNow, covers, TapDecl
    <3>3. change' \in [tap : Nat, open : BOOLEAN, dropped : Nat, back : {"sync", "close"}]
      BY <3>1, <3>2, BeginChangeType
    <3> QED BY <2>1, <3>3 DEF BeginChange, TypeOK
  <2>2. CASE ~BeginChange(WantedNow, "sync")
    BY <1>11, <2>2 DEF sync_taps_for_step, TypeOK
  <2> QED BY <2>1, <2>2
<1>12. CASE SendChange
  BY <1>12 DEF SendChange, ReleaseByMain, TypeOK
<1>13. CASE MarkChange
  BY <1>13 DEF MarkChange, TypeOK
<1>14. CASE StepEnds \/ CloseWindow
  BY <1>14 DEF StepEnds, CloseWindow, TypeOK
<1>15. CASE send_step_result \/ send_log_line
  BY <1>15 DEF send_step_result, send_log_line, LeftByLoop, ReleaseByMain, TypeOK
<1>16. CASE Drain
  <2>1. /\ pc' \in {"close", "nap"}
        /\ UNCHANGED <<step, study, change, tapVars, transcript_q, txVars, link_tx_mutex,
                       coreVars, offered, stray, events>>
    BY <1>16 DEF Drain
  <2>2. due' \in [TapIds -> Nat]
    <3>1. [i \in TapIds |-> IF tap_open[i] THEN offered[i] + stray[i] ELSE 0] \in [TapIds -> Nat]
      BY DEF TypeOK
    <3>2. due \in [TapIds -> Nat]
      BY DEF TypeOK
    <3> QED BY <1>16, <3>1, <3>2, Zenon DEF Drain
  <2> QED BY <2>1, <2>2 DEF TypeOK
<1>17. CASE NapEnds
  BY <1>17 DEF NapEnds, TypeOK
<1>18. CASE close_all_taps
  <2>1. CASE BeginChange(Shut, "close")
    <3>1. PICK i \in Ours :
            change' = [tap |-> i, open |-> FALSE, back |-> "close",
                       dropped |-> IF FALSE THEN 0 ELSE tap_dropped[i]]
      BY <2>1 DEF BeginChange, FirstOff, Shut
    <3>2. change' \in [tap : Nat, open : BOOLEAN, dropped : Nat, back : {"sync", "close"}]
      BY <3>1, BeginChangeType
    <3> QED BY <2>1, <3>2 DEF BeginChange, TypeOK
  <2>2. CASE ~BeginChange(Shut, "close")
    BY <1>18, <2>2 DEF close_all_taps, TypeOK
  <2> QED BY <2>1, <2>2
<1>19. CASE clear_bonds
  BY <1>19 DEF clear_bonds, TypeOK
<1>20. CASE send_study_done
  BY <1>20 DEF send_study_done, ReleaseByMain, TypeOK
<1>21. CASE UNCHANGED vars
  BY <1>21 DEF vars, TypeOK
<1>22. CASE Sinks
  BY <1>1, <1>2, <1>22 DEF Sinks
<1>23. CASE TxThread
  BY <1>3, <1>4, <1>5, <1>6, <1>7, <1>23 DEF TxThread
<1>24. CASE DispatchThread
  BY <1>11, <1>12, <1>13, <1>14, <1>15, <1>16, <1>17, <1>18, <1>19, <1>20, <1>24
  DEF DispatchThread
<1>25. CASE \E s \in Studies : dispatch_study(s)
  BY <1>10, <1>25
<1> QED BY <1>8, <1>9, <1>21, <1>22, <1>23, <1>24, <1>25 DEF Next

(* The counters, the queue within its depth and the owners of the mutex keep
   their types in every reachable state, whatever is declared and captured.   *)
THEOREM TypeCorrect == Spec => []TypeOK
BY TypeInit, TypeNext, PTL DEF Spec

-----------------------------------------------------------------------------
(* TranscriptLossIsAnnounced alone is not inductive: between its two counters
   the TX thread has counted the study's loss and not yet the tap's.          *)
AnnouncedFirst == TranscriptLossIsAnnounced /\ (tx = "charge" => transcript_dropped > 0)

LEMMA AnnouncedInit == Init => AnnouncedFirst
BY DEF Init, AnnouncedFirst, TranscriptLossIsAnnounced, IsTranscriptTap, Transcripts, NoStudy

(* Steps that count nothing leave it alone.                                   *)
LEMMA NothingCounted ==
  ASSUME AnnouncedFirst, UNCHANGED <<study, tap_dropped, transcript_dropped>>,
         tx' = tx \/ tx' # "charge"
  PROVE  AnnouncedFirst'
BY DEF AnnouncedFirst, TranscriptLossIsAnnounced, IsTranscriptTap, Transcripts

LEMMA AnnouncedNext ==
  ASSUME TypeOK, AnnouncedFirst, [Next]_vars
  PROVE  AnnouncedFirst'
<1> USE DEF mainVars, tapVars, txVars, coreVars, ghosts
<1>1. ASSUME NEW e \in Entries, transcript_sink_cb(e) PROVE AnnouncedFirst'
  <2>1. CASE transcript_dropped' = transcript_dropped + 1
    <3>1. transcript_dropped' > 0
      BY <2>1 DEF TypeOK
    <3> QED BY <3>1 DEF AnnouncedFirst, TranscriptLossIsAnnounced
  <2>2. CASE UNCHANGED <<tap_dropped, transcript_dropped>>
    BY <1>1, <2>2, NothingCounted DEF transcript_sink_cb
  <2> QED BY <1>1, <2>1, <2>2 DEF transcript_sink_cb
<1>2. ASSUME NEW c \in Chars, drop_sink_cb(c) PROVE AnnouncedFirst'
  <2>1. /\ tap_dropped' = Bump(tap_dropped, NotifyTapsOf(c))
        /\ UNCHANGED <<study, transcript_dropped, tx>>
    BY <1>2 DEF drop_sink_cb, ChargedUpstream
  <2>2. \A i \in DOMAIN study.taps : IsTranscriptTap(i) => i \notin NotifyTapsOf(c)
    BY DEF IsTranscriptTap, Transcripts, NotifyTapsOf
  <2>3. \A i \in DOMAIN study.taps : IsTranscriptTap(i) => tap_dropped'[i] = tap_dropped[i]
    BY <2>1, <2>2, TapsAreIds DEF Bump
  <2>4. \A i : IsTranscriptTap(i)' <=> IsTranscriptTap(i)
    BY <2>1 DEF IsTranscriptTap, Transcripts
  <2> QED BY <2>1, <2>3, <2>4 DEF AnnouncedFirst, TranscriptLossIsAnnounced
<1>3. CASE TxGet \/ TxLock \/ TxSend \/ LogTake \/ LogSend
  BY <1>3, NothingCounted DEF TxGet, TxLock, TxSend, LogTake, LogSend, ReleaseByMain
<1>4. CASE TxCount
  <2>1. transcript_dropped' > 0
    <3>1. held.for \subseteq TapIds
      BY DEF TypeOK, Item
    <3> QED BY <1>4, <3>1 DEF TxCount, TypeOK
  <2> QED BY <2>1 DEF AnnouncedFirst, TranscriptLossIsAnnounced
<1>5. CASE TxCharge
  BY <1>5 DEF TxCharge, AnnouncedFirst, TranscriptLossIsAnnounced
<1>6. ASSUME NEW s \in Studies, dispatch_study(s) PROVE AnnouncedFirst'
  <2>1. tap_dropped' = Zero /\ tx' = "get"
    BY <1>6 DEF dispatch_study, load_study_taps, BacklogSettled
  <2>2. study' \in Study
    BY <1>6, StreamTapsAssumption DEF dispatch_study, load_study_taps
  <2>3. \A i \in DOMAIN study'.taps : i \in TapIds
    <3>1. study'.taps \in Seq(TapDecl) /\ Len(study'.taps) <= MaxTaps
      BY <2>2 DEF Study
    <3>2. DOMAIN study'.taps = 1..Len(study'.taps) /\ Len(study'.taps) \in Nat
      BY <3>1
    <3> QED BY <3>1, <3>2, StreamTapsAssumption DEF TapIds
  <2>4. \A i \in DOMAIN study'.taps : ~(tap_dropped'[i] > 0)
    BY <2>1, <2>3 DEF Zero
  <2> QED BY <2>1, <2>4 DEF AnnouncedFirst, TranscriptLossIsAnnounced
<1>7. CASE DispatchThread
  <2>1. UNCHANGED <<study, tap_dropped, transcript_dropped>>
    BY <1>7 DEF DispatchThread, sync_taps_for_step, SendChange, MarkChange, StepEnds,
       send_step_result, LeftByLoop, CloseWindow, send_log_line, Drain, NapEnds, close_all_taps,
       clear_bonds, send_study_done,
       BeginChange
  <2>2. tx' = tx \/ tx' # "charge"
    BY <1>7 DEF DispatchThread, sync_taps_for_step, SendChange, MarkChange, StepEnds,
       send_step_result, LeftByLoop, CloseWindow, send_log_line, Drain, NapEnds, close_all_taps,
       clear_bonds, send_study_done,
       BeginChange, ReleaseByMain
  <2> QED BY <2>1, <2>2, NothingCounted
<1>8. CASE UNCHANGED vars
  BY <1>8, NothingCounted DEF vars
<1> QED BY <1>1, <1>2, <1>3, <1>4, <1>5, <1>6, <1>7, <1>8 DEF Next, Sinks, TxThread

(* A transcript that lost an entry is never passed off as exhaustive.         *)
THEOREM TranscriptLossAnnounced == Spec => []TranscriptLossIsAnnounced
<1>1. TypeOK /\ AnnouncedFirst /\ [Next]_vars => AnnouncedFirst'
  BY AnnouncedNext
<1>2. AnnouncedFirst => TranscriptLossIsAnnounced
  BY DEF AnnouncedFirst
<1> QED BY <1>1, <1>2, AnnouncedInit, TypeCorrect, PTL DEF Spec
-----------------------------------------------------------------------------
(* Who has the mutex follows from where the threads are: it is handed to the
   dispatch thread only while that wants it and to the TX thread only out of
   its wait, and the TX thread waits only while someone has it.               *)
TxOwns == tx \in {"send", "count", "charge"}

Handover ==
  /\ link_tx_mutex = "main" => Sending
  /\ link_tx_mutex = "tx" <=> TxOwns
  /\ tx = "pend" => link_tx_mutex \in {"main", "log"}

LEMMA Released ==
  ASSUME Handover, ReleaseByMain, link_tx_mutex # "tx"
  PROVE  Handover'
BY DEF Handover, ReleaseByMain, TxOwns

LEMMA HandoverKept ==
  ASSUME Handover, UNCHANGED <<tx, link_tx_mutex>>, link_tx_mutex = "main" => Sending'
  PROVE  Handover'
BY DEF Handover, TxOwns

LEMMA HandoverNext == TypeOK /\ Handover /\ [Next]_vars => Handover'
<1> SUFFICES ASSUME TypeOK, Handover, [Next]_vars PROVE Handover'
  OBVIOUS
<1> USE DEF mainVars, tapVars, txVars, coreVars, ghosts
<1>1. ASSUME UNCHANGED <<pc, tx, link_tx_mutex>> PROVE Handover'
  BY <1>1, HandoverKept DEF Handover, Sending
<1>2. CASE Sinks
  BY <1>1, <1>2 DEF Sinks, transcript_sink_cb, drop_sink_cb
<1>3. CASE TxGet
  BY <1>3 DEF TxGet, Handover, TxOwns, Sending
<1>4. CASE TxLock
  BY <1>4 DEF TxLock, Handover, TxOwns, Sending, TypeOK
<1>5. CASE TxSend
  BY <1>5 DEF TxSend, OwnerAfterTx, Handover, TxOwns, Sending
<1>6. CASE TxCount
  BY <1>6 DEF TxCount, Handover, TxOwns, Sending
<1>7. CASE TxCharge
  BY <1>7 DEF TxCharge, OwnerAfterTx, Handover, TxOwns, Sending
<1>8. CASE LogTake
  BY <1>8 DEF LogTake, Handover, TxOwns
<1>9. CASE LogSend
  <2>1. CASE Sending
    BY <1>9, <2>1 DEF LogSend, Handover, TxOwns, Sending
  <2>2. CASE ~Sending
    BY <1>9, <2>2, Released DEF LogSend
  <2> QED BY <2>1, <2>2
<1>10. CASE \E s \in Studies : dispatch_study(s)
  <2>1. link_tx_mutex = "free" /\ UNCHANGED <<tx, link_tx_mutex>>
    BY <1>10 DEF dispatch_study, BacklogSettled
  <2> QED BY <2>1, HandoverKept
(* The dispatch thread has the mutex only where it sends.                     *)
<1>11. CASE MarkChange \/ StepEnds \/ CloseWindow \/ Drain \/ NapEnds \/ clear_bonds
  <2>1. ~Sending /\ UNCHANGED <<tx, link_tx_mutex>>
    BY <1>11 DEF MarkChange, StepEnds, CloseWindow, Drain, NapEnds, clear_bonds, Sending
  <2> QED BY <2>1, HandoverKept DEF Handover
<1>12. CASE sync_taps_for_step \/ close_all_taps
  <2>1. ~Sending /\ UNCHANGED <<tx, link_tx_mutex>>
    BY <1>12 DEF sync_taps_for_step, close_all_taps, BeginChange, Sending
  <2> QED BY <2>1, HandoverKept DEF Handover
<1>13. CASE SendChange \/ send_step_result \/ send_log_line \/ send_study_done
  BY <1>13, Released DEF SendChange, send_step_result, send_log_line, send_study_done
<1>14. CASE UNCHANGED vars
  BY <1>1, <1>14 DEF vars
<1> QED
  BY <1>2, <1>3, <1>4, <1>5, <1>6, <1>7, <1>8, <1>9, <1>10, <1>11, <1>12, <1>13, <1>14
     DEF Next, TxThread, DispatchThread

(* No thread waits for one that waits for it: whenever the dispatch thread is
   blocked on the mutex or on the drain, the TX thread or the log thread has a
   step to take, for every number of taps and every queue depth.              *)
THEOREM NobodyIsStuck == Spec => []WaitersAreServed
<1>1. Init => Handover
  BY DEF Init, Handover, TxOwns
<1>2. TypeOK /\ Handover => WaitersAreServed
  <2> SUFFICES ASSUME TypeOK, Handover PROVE WaitersAreServed
    OBVIOUS
  <2>1. CASE Sending /\ link_tx_mutex \notin {"free", "main"}
    <3>1. MainBlocked /\ link_tx_mutex \in {"tx", "log"}
      BY <2>1 DEF MainBlocked, TypeOK
    <3>2. link_tx_mutex = "tx" => TxMayRun /\ TxReady
      BY <3>1 DEF Handover, TxOwns, TxMayRun, TxReady
    <3> QED BY <2>1, <3>1, <3>2 DEF LogMayRun, WaitersAreServed
  <2>2. CASE pc = "nap" /\ transcript_q # <<>>
    <3>1. MainBlocked /\ ~Sending
      BY <2>2 DEF MainBlocked, Sending
    <3>2. CASE TxReady
      BY <3>1, <3>2 DEF TxMayRun, WaitersAreServed
    <3>3. CASE ~TxReady
      <4>1. tx = "pend"
        BY <2>2, <3>3 DEF TxReady, TypeOK
      <4>2. link_tx_mutex = "log"
        BY <3>1, <4>1 DEF Handover
      <4> QED BY <3>1, <3>3, <4>2 DEF LogMayRun, WaitersAreServed
    <3> QED BY <3>2, <3>3
  <2> QED BY <2>1, <2>2 DEF WaitersAreServed
<1> QED BY <1>1, <1>2, HandoverNext, TypeCorrect, PTL DEF Spec
=============================================================================
