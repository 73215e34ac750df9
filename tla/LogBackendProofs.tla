--------------------------- MODULE LogBackendProofs ---------------------------
(* Proofs about the log backend for every set of records, every level a study *)
(* may ask for, every depth of the backlog and every number of records.       *)
EXTENDS LogBackend, TLAPS

USE DEF OFF, ERR, WRN, INF, DBG, DrainOn

LEMMA LevelFacts ==
  /\ BootLevel \in Levels /\ KernelCeiling \in Levels
  /\ \A s \in Sources, l \in Levels : FilterFor(s, l) \in Levels
BY DEF BootLevel, KernelCeiling, Levels, FilterFor, Max2, Min2, Sources, App, Kernel, Printk

LEMMA RecordFacts ==
  /\ \A r \in Records : r \in Record
  /\ LostNote \in Record /\ NoRecord \in Record /\ NoLine \in Line
BY LogAssumption DEF Record, LostNote, NoRecord, NoLine, Line, Levels, Sources, App, Kernel, Printk

(* A finished line is a line, and counted.                                    *)
LEMMA FinishType ==
  ASSUME TypeOK, NEW r \in Record, Finish(r)
  PROVE  line' \in Line /\ emitted' \in Nat
BY DEF TypeOK, Finish, Line

LEMMA PutFirst ==
  ASSUME NEW S, NEW q \in Seq(S), q # <<>>, NEW e \in S
  PROVE  /\ Head(q) \in S /\ Tail(q) \in Seq(S)
         /\ Len(Append(Tail(q), e)) = Len(q) /\ Append(Tail(q), e) \in Seq(S)
         /\ Len(Tail(q)) = Len(q) - 1
OBVIOUS

LEMMA TypeInit == Init => TypeOK
<1>1. /\ <<>> \in Seq(Record) /\ Len(<<>>) = 0 /\ <<>> \in Seq(Line)
  OBVIOUS
<1>2. [source \in Sources |-> DBG] \in [Sources -> Levels]
  BY DEF Levels
<1> SUFFICES ASSUME Init PROVE TypeOK
  OBVIOUS
<1>3. filter \in [Sources -> Levels]
  BY <1>2 DEF Init
<1>4. /\ pending \in Seq(Record) /\ Len(pending) <= BufferSlots
      /\ backlog \in Seq(Line) /\ Len(backlog) <= Depth
  BY <1>1, LogAssumption DEF Init
<1>5. line \in Line /\ want \in Levels /\ current_level \in Levels
  BY LevelFacts, RecordFacts DEF Init
<1> QED BY <1>3, <1>4, <1>5 DEF Init, TypeOK

LEMMA TypeNext == TypeOK /\ [Next]_vars => TypeOK'
<1> SUFFICES ASSUME TypeOK, [Next]_vars PROVE TypeOK'
  OBVIOUS
<1> USE DEF mainVars, levelVars, coreVars, logVars, backVars, counts, mainRest
<1>1. ASSUME NEW r \in Records, LogRecord(r) PROVE TypeOK'
  <2>1. r \in Record
    BY RecordFacts
  <2>2. CASE Len(pending) < BufferSlots /\ pending' = Append(pending, r) /\ UNCHANGED lost
    <3>1. pending' \in Seq(Record) /\ Len(pending') <= BufferSlots /\ lost' \in Nat
      BY <2>1, <2>2, LogAssumption DEF TypeOK
    <3> QED BY <1>1, <3>1 DEF LogRecord, TypeOK
  <2>3. CASE Len(pending) = BufferSlots /\ pending' = Append(Tail(pending), r) /\ lost' = lost + 1
    <3>1. pending # <<>>
      BY <2>3, LogAssumption
    <3>2. pending' \in Seq(Record) /\ Len(pending') <= BufferSlots /\ lost' \in Nat
      BY <2>1, <2>3, <3>1, PutFirst, LogAssumption DEF TypeOK
    <3> QED BY <1>1, <3>2 DEF LogRecord, TypeOK
  <2> QED BY <1>1, <2>2, <2>3 DEF LogRecord
<1>2. ASSUME dev_bench_log_process PROVE TypeOK'
  <2>1. /\ pending # <<>> /\ Head(pending) \in Record
        /\ pending' \in Seq(Record) /\ Len(pending') <= BufferSlots
    BY <1>2, LogAssumption DEF dev_bench_log_process, TypeOK
  <2>2. line' \in Line /\ emitted' \in Nat /\ lp' \in {"idle", "emit"}
    <3>1. CASE Finish(Head(pending)) /\ lp' = "emit"
      BY <2>1, <3>1, FinishType
    <3>2. CASE UNCHANGED <<lp, line, emitted>>
      BY <1>2, <3>2 DEF TypeOK, dev_bench_log_process
    <3> QED BY <1>2, <3>1, <3>2 DEF dev_bench_log_process
  <2> QED BY <1>2, <2>1, <2>2 DEF dev_bench_log_process, TypeOK
<1>3. ASSUME dev_bench_log_dropped PROVE TypeOK'
  <2>1. line' \in Line /\ emitted' \in Nat
    BY <1>3, RecordFacts, FinishType DEF dev_bench_log_dropped
  <2> QED BY <1>3, <2>1 DEF dev_bench_log_dropped, TypeOK
<1>4. ASSUME emit_line PROVE TypeOK'
  BY <1>4 DEF emit_line, TypeOK
<1>5. ASSUME backlog_put PROVE TypeOK'
  <2>1. /\ backlog' \in Seq(Line) /\ Len(backlog') <= Depth
        /\ backlog_dropped' \in Nat /\ gone' \in Nat
    <3>1. CASE BacklogHasRoom
      <4>1. backlog' = Append(backlog, line) /\ UNCHANGED <<backlog_dropped, gone>>
        BY <1>5, <3>1 DEF backlog_put
      <4> QED BY <3>1, <4>1, LogAssumption DEF BacklogHasRoom, TypeOK
    <3>2. CASE ~BacklogHasRoom
      <4>1. backlog # <<>> /\ Head(backlog) \in Line
        <5>1. backlog \in Seq(Line) /\ Len(backlog) # 0
          BY <3>2, LogAssumption DEF BacklogHasRoom, TypeOK
        <5> QED BY <5>1
      <4>2. backlog' = Append(Tail(backlog), line) /\ gone' = Head(backlog).id
            /\ backlog_dropped' = backlog_dropped + 1
        BY <1>5, <3>2 DEF backlog_put, OverOldest, OverwriteCounted
      <4>3. Head(backlog).id \in Nat
        BY <4>1 DEF Line
      <4> QED BY <4>1, <4>2, <4>3, PutFirst, LogAssumption DEF TypeOK
    <3> QED BY <3>1, <3>2
  <2> QED BY <1>5, <2>1, RecordFacts DEF backlog_put, TypeOK
<1>6. ASSUME SinkLock PROVE TypeOK'
  BY <1>6 DEF SinkLock, TypeOK
<1>7. ASSUME log_backend_sink PROVE TypeOK'
  BY <1>7, RecordFacts DEF log_backend_sink, TypeOK
<1>8. ASSUME handle_hello PROVE TypeOK'
  BY <1>8, LevelFacts DEF handle_hello, SetLevel, TypeOK
<1>9. ASSUME dispatch_study PROVE TypeOK'
  <2>1. pc' \in {"flush", "idle"} /\ op' \in {"boot", "hello", "study", "revert"} /\ want' \in Levels
    BY <1>9, LogAssumption DEF dispatch_study, SetLevel, TypeOK
  <2> QED BY <1>9, <2>1 DEF dispatch_study, TypeOK
<1>10. ASSUME StudyEnds PROVE TypeOK'
  BY <1>10, LevelFacts DEF StudyEnds, SetLevel, LevelAfterStudy, TypeOK
<1>11. ASSUME log_flush PROVE TypeOK'
  BY <1>11 DEF log_flush, TypeOK
<1>12. ASSUME dev_bench_log_set_level PROVE TypeOK'
  BY <1>12 DEF dev_bench_log_set_level, TypeOK
<1>13. ASSUME log_filter_set PROVE TypeOK'
  <2>1. filter' \in [Sources -> Levels]
    BY <1>13, LevelFacts DEF log_filter_set, TypeOK
  <2>2. pc' \in {"ack", "study", "idle"}
    BY <1>13 DEF log_filter_set, TypeOK
  <2> QED BY <1>13, <2>1, <2>2 DEF log_filter_set, TypeOK
<1>14. ASSUME MainLock PROVE TypeOK'
  BY <1>14 DEF MainLock, TypeOK
<1>15. ASSUME HelloAck PROVE TypeOK'
  BY <1>15 DEF HelloAck, MutexAfterAck, TypeOK
<1>16. ASSUME dev_bench_log_set_sink PROVE TypeOK'
  BY <1>16 DEF dev_bench_log_set_sink, TypeOK
<1>17. ASSUME TakeCount PROVE TypeOK'
  BY <1>17 DEF TakeCount, TypeOK
<1>18. ASSUME ReportDropped PROVE TypeOK'
  BY <1>18 DEF ReportDropped, TypeOK
<1>19. ASSUME backlog_pop PROVE TypeOK'
  <2>1. CASE backlog = <<>>
    BY <1>19, <2>1 DEF backlog_pop, TypeOK
  <2>2. CASE backlog # <<>>
    <3>1. /\ Head(backlog) \in Line /\ Tail(backlog) \in Seq(Line)
          /\ Len(Tail(backlog)) <= Depth
      BY <2>2, LogAssumption DEF TypeOK
    <3>2. Head(backlog).id \in Nat
      BY <3>1 DEF Line
    <3>3. /\ backlog' \in Seq(Line) /\ Len(backlog') <= Depth /\ gone' \in Nat
          /\ held' = 1 /\ pc' = "line"
      BY <1>19, <2>2, <3>1, <3>2 DEF backlog_pop
    <3> QED BY <1>19, <3>3 DEF backlog_pop, TypeOK
  <2> QED BY <2>1, <2>2
<1>20. ASSUME SendHeld PROVE TypeOK'
  BY <1>20 DEF SendHeld, TypeOK
<1>21. ASSUME dev_bench_log_panic PROVE TypeOK'
  BY <1>21 DEF dev_bench_log_panic, TypeOK
<1>22. ASSUME PanicProcess PROVE TypeOK'
  <2>1. /\ pending' \in Seq(Record) /\ Len(pending') <= BufferSlots /\ lost' \in Nat
    <3>1. CASE pending # <<>> /\ pending' = Tail(pending) /\ UNCHANGED lost
      <4>1. pending \in Seq(Record) /\ Len(pending) <= BufferSlots /\ lost \in Nat
        BY DEF TypeOK
      <4>2. Tail(pending) \in Seq(Record) /\ Len(Tail(pending)) = Len(pending) - 1
        BY <3>1, <4>1
      <4> QED BY <3>1, <4>1, <4>2, LogAssumption
    <3>2. CASE lost' = 0 /\ UNCHANGED pending
      BY <3>2 DEF TypeOK
    <3> QED BY <1>22, <3>1, <3>2 DEF PanicProcess
  <2>2. emitted' \in Nat /\ sent' \in Nat /\ discarded' \in Nat
    BY <1>22 DEF PanicProcess, PanicLine, TypeOK
  <2> QED BY <1>22, <2>1, <2>2 DEF PanicProcess, TypeOK
<1>23. CASE UNCHANGED vars
  BY <1>23 DEF vars, TypeOK
<1> QED
  BY <1>1, <1>2, <1>3, <1>4, <1>5, <1>6, <1>7, <1>8, <1>9, <1>10, <1>11, <1>12, <1>13, <1>14,
     <1>15, <1>16, <1>17, <1>18, <1>19, <1>20, <1>21, <1>22, <1>23
     DEF Next, LogThread, MainThread

(* The backlog never exceeds its depth, nor the log core's buffer its own,
   whatever is logged and asked for.                                          *)
THEOREM LogTypeCorrect == Spec => []TypeOK
BY TypeInit, TypeNext, PTL DEF Spec

-----------------------------------------------------------------------------
(* What main holds follows from where it is.                                  *)
InHand ==
  /\ pc = "line" => held = 1
  /\ pc \notin {"line", "report"} => held = 0

Counted == TypeOK /\ InHand /\ LinesAccounted

LEMMA CountedNext == Counted /\ [Next]_vars => Counted'
<1> SUFFICES ASSUME Counted, [Next]_vars PROVE InHand' /\ LinesAccounted'
  BY TypeNext DEF Counted
<1> USE DEF mainVars, levelVars, coreVars, logVars, backVars, counts, mainRest
<1>t. /\ emitted \in Nat /\ sent \in Nat /\ reported \in Nat /\ discarded \in Nat
      /\ backlog_dropped \in Nat /\ held \in Nat /\ Len(backlog) \in Nat
      /\ backlog \in Seq(Line) /\ line \in Line
  BY DEF Counted, TypeOK
<1>h. InHand /\ LinesAccounted
  BY DEF Counted
(* Steps that move no line and no count.                                      *)
<1>q. ASSUME UNCHANGED <<counts, backlog, backlog_dropped, held>>,
             lp = "idle" <=> lp' = "idle", log_panic_mode => log_panic_mode'
      PROVE  LinesAccounted'
  BY <1>h, <1>q DEF LinesAccounted
<1>1. ASSUME NEW r \in Records, LogRecord(r) PROVE InHand' /\ LinesAccounted'
  BY <1>1, <1>h, <1>q DEF LogRecord, InHand
<1>2. ASSUME dev_bench_log_process PROVE InHand' /\ LinesAccounted'
  <2>1. CASE Finish(Head(pending)) /\ lp' = "emit"
    BY <1>2, <1>h, <1>t, <2>1 DEF dev_bench_log_process, Finish, InHand, LinesAccounted
  <2>2. CASE UNCHANGED <<lp, line, emitted>>
    BY <1>2, <1>h, <1>q, <2>2 DEF dev_bench_log_process, InHand
  <2> QED BY <1>2, <2>1, <2>2 DEF dev_bench_log_process
<1>3. ASSUME dev_bench_log_dropped PROVE InHand' /\ LinesAccounted'
  BY <1>3, <1>h, <1>t DEF dev_bench_log_dropped, Finish, InHand, LinesAccounted
<1>4. ASSUME emit_line PROVE InHand' /\ LinesAccounted'
  BY <1>4, <1>h, <1>q DEF emit_line, InHand
<1>5. ASSUME backlog_put PROVE InHand' /\ LinesAccounted'
  <2>1. CASE BacklogHasRoom
    <3>1. Len(backlog') = Len(backlog) + 1 /\ UNCHANGED backlog_dropped
      BY <1>5, <1>t, <2>1 DEF backlog_put
    <3> QED BY <1>5, <1>h, <1>t, <3>1 DEF backlog_put, InHand, LinesAccounted
  <2>2. CASE ~BacklogHasRoom
    <3>1. backlog # <<>>
      BY <2>2, LogAssumption DEF BacklogHasRoom
    <3>2. Len(Append(Tail(backlog), line)) = Len(backlog)
      BY <1>t, <3>1, PutFirst
    <3>3. Len(backlog') = Len(backlog) /\ backlog_dropped' = backlog_dropped + 1
      BY <1>5, <2>2, <3>2 DEF backlog_put, OverOldest, OverwriteCounted
    <3> QED BY <1>5, <1>h, <1>t, <3>3 DEF backlog_put, InHand, LinesAccounted
  <2> QED BY <2>1, <2>2
<1>6. ASSUME SinkLock PROVE InHand' /\ LinesAccounted'
  BY <1>6, <1>h, <1>q DEF SinkLock, InHand
<1>7. ASSUME log_backend_sink PROVE InHand' /\ LinesAccounted'
  BY <1>7, <1>h, <1>t DEF log_backend_sink, InHand, LinesAccounted
<1>8. ASSUME handle_hello PROVE InHand' /\ LinesAccounted'
  BY <1>8, <1>h, <1>q DEF handle_hello, SetLevel, InHand
<1>9. ASSUME dispatch_study PROVE InHand' /\ LinesAccounted'
  BY <1>9, <1>h, <1>q DEF dispatch_study, SetLevel, InHand
<1>10. ASSUME StudyEnds PROVE InHand' /\ LinesAccounted'
  BY <1>10, <1>h, <1>q DEF StudyEnds, SetLevel, InHand
<1>11. ASSUME log_flush PROVE InHand' /\ LinesAccounted'
  BY <1>11, <1>h, <1>q DEF log_flush, InHand
<1>12. ASSUME dev_bench_log_set_level PROVE InHand' /\ LinesAccounted'
  BY <1>12, <1>h, <1>q DEF dev_bench_log_set_level, InHand
<1>13. ASSUME log_filter_set PROVE InHand' /\ LinesAccounted'
  <2>1. pc' \in {"ack", "study", "idle"}
    BY <1>13 DEF log_filter_set, Counted, TypeOK
  <2> QED BY <1>13, <1>h, <1>q, <2>1 DEF log_filter_set, InHand
<1>14. ASSUME MainLock PROVE InHand' /\ LinesAccounted'
  BY <1>14, <1>h, <1>q DEF MainLock, InHand
<1>15. ASSUME HelloAck PROVE InHand' /\ LinesAccounted'
  BY <1>15, <1>h, <1>q DEF HelloAck, InHand
<1>16. ASSUME dev_bench_log_set_sink PROVE InHand' /\ LinesAccounted'
  BY <1>16, <1>h, <1>q DEF dev_bench_log_set_sink, InHand
<1>17. ASSUME TakeCount PROVE InHand' /\ LinesAccounted'
  BY <1>17, <1>h, <1>t DEF TakeCount, InHand, LinesAccounted
<1>18. ASSUME ReportDropped PROVE InHand' /\ LinesAccounted'
  BY <1>18, <1>h, <1>t DEF ReportDropped, InHand, LinesAccounted
<1>19. ASSUME backlog_pop PROVE InHand' /\ LinesAccounted'
  <2>1. CASE backlog = <<>>
    BY <1>19, <1>h, <1>q, <2>1 DEF backlog_pop, InHand
  <2>2. CASE backlog # <<>>
    <3>1. Len(backlog') = Len(backlog) - 1 /\ held = 0 /\ held' = 1 /\ pc' = "line"
      BY <1>19, <1>h, <1>t, <2>2 DEF backlog_pop, InHand
    <3>2. UNCHANGED <<emitted, sent, reported, discarded, backlog_dropped, lp, log_panic_mode>>
      BY <1>19 DEF backlog_pop
    <3>3. InHand'
      BY <3>1 DEF InHand
    <3>4. LinesAccounted'
      BY <1>h, <1>t, <3>1, <3>2 DEF LinesAccounted
    <3> QED BY <3>3, <3>4
  <2> QED BY <2>1, <2>2
<1>20. ASSUME SendHeld PROVE InHand' /\ LinesAccounted'
  BY <1>20, <1>h, <1>t DEF SendHeld, InHand, LinesAccounted
<1>21. ASSUME dev_bench_log_panic PROVE InHand' /\ LinesAccounted'
  BY <1>21, <1>h, <1>q DEF dev_bench_log_panic, InHand
<1>22. ASSUME PanicProcess PROVE InHand' /\ LinesAccounted'
  <2>1. \/ UNCHANGED <<emitted, sent, discarded>>
        \/ emitted' = emitted + 1 /\ sent' = sent + 1 /\ UNCHANGED discarded
        \/ emitted' = emitted + 1 /\ discarded' = discarded + 1 /\ UNCHANGED sent
    BY <1>22 DEF PanicProcess, PanicLine
  <2>2. log_panic_mode' = TRUE
    <3>1. log_panic_mode /\ log_panic_mode \in BOOLEAN
      BY <1>22 DEF PanicProcess, Counted, TypeOK
    <3>2. log_panic_mode' = log_panic_mode
      BY <1>22 DEF PanicProcess
    <3> QED BY <3>1, <3>2
  <2>3. UNCHANGED <<pc, held, reported, backlog, backlog_dropped, lp>>
    BY <1>22 DEF PanicProcess
  <2>4. InHand'
    BY <1>h, <2>3 DEF InHand
  <2> DEFINE inHand == IF lp = "idle" THEN 0 ELSE 1
  <2>5. inHand \in Nat /\ inHand' = inHand
    BY <2>3
  <2>6. emitted = sent + reported + discarded + Len(backlog) + backlog_dropped + held + inHand
    BY <1>h DEF LinesAccounted
  <2>7. ASSUME NEW h \in Nat,
               emitted = sent + reported + discarded + Len(backlog) + backlog_dropped + held + h
        PROVE  emitted' = sent' + reported' + discarded' + Len(backlog') + backlog_dropped'
                            + held' + h
    BY <1>t, <2>1, <2>3, <2>7
  <2>8. emitted' = sent' + reported' + discarded' + Len(backlog') + backlog_dropped' + held'
                     + inHand'
    <3>1. emitted' = sent' + reported' + discarded' + Len(backlog') + backlog_dropped' + held'
                       + inHand
      <4> HIDE DEF inHand
      <4> QED BY <2>5, <2>6, <2>7
    <3> HIDE DEF inHand
    <3> QED BY <2>5, <3>1
  <2>9. LinesAccounted'
    BY <2>2, <2>8 DEF LinesAccounted
  <2> QED BY <2>4, <2>9
<1>23. CASE UNCHANGED vars
  BY <1>23, <1>h, <1>q DEF vars, InHand
<1> QED
  BY <1>1, <1>2, <1>3, <1>4, <1>5, <1>6, <1>7, <1>8, <1>9, <1>10, <1>11, <1>12, <1>13, <1>14,
     <1>15, <1>16, <1>17, <1>18, <1>19, <1>20, <1>21, <1>22, <1>23
     DEF Next, LogThread, MainThread

(* No line is lost uncounted: what the backlog overwrote is in its count, and
   the count has been reported or is still to be, for every depth.            *)
THEOREM LinesAreAccounted == Spec => []LinesAccounted
<1>1. Init => Counted
  <2>1. Init => InHand /\ LinesAccounted
    BY DEF Init, InHand, LinesAccounted
  <2> QED BY <2>1, TypeInit DEF Counted
<1>2. Counted => LinesAccounted
  BY DEF Counted
<1> QED BY <1>1, <1>2, CountedNext, PTL DEF Spec

-----------------------------------------------------------------------------
(* The level main is about to set, and the one in force, by where it is.      *)
LevelInHand ==
  /\ pc \in {"flush", "nap", "level", "filter"} /\ op # "study" => want = BootLevel
  /\ pc = "filter" => current_level = want
  /\ pc \in {"idle", "ack", "sink", "count", "report", "drain", "line"} =>
       current_level = BootLevel

LEMMA LevelNext == TypeOK /\ LevelInHand /\ [Next]_vars => LevelInHand'
<1> SUFFICES ASSUME TypeOK, LevelInHand, [Next]_vars PROVE LevelInHand'
  OBVIOUS
<1> USE DEF mainVars, levelVars, coreVars, logVars, backVars, counts, mainRest, LevelInHand
<1>1. ASSUME UNCHANGED <<mainVars, levelVars>> PROVE LevelInHand'
  BY <1>1
<1>2. ASSUME NEW r \in Records, LogRecord(r) PROVE LevelInHand'
  BY <1>1, <1>2 DEF LogRecord
<1>3. CASE LogThread
  BY <1>1, <1>3 DEF LogThread, dev_bench_log_process, dev_bench_log_dropped, emit_line, backlog_put,
                    SinkLock, log_backend_sink
<1>4. CASE handle_hello
  BY <1>4 DEF handle_hello, SetLevel
<1>5. CASE dispatch_study
  BY <1>5 DEF dispatch_study, SetLevel
<1>6. CASE StudyEnds
  BY <1>6 DEF StudyEnds, SetLevel, LevelAfterStudy
<1>7. CASE log_flush
  BY <1>7 DEF log_flush
<1>8. CASE dev_bench_log_set_level
  BY <1>8 DEF dev_bench_log_set_level
<1>9. CASE log_filter_set
  BY <1>9 DEF log_filter_set, TypeOK
<1>10. CASE MainLock \/ HelloAck \/ dev_bench_log_set_sink
  BY <1>10 DEF MainLock, HelloAck, dev_bench_log_set_sink
<1>11. CASE TakeCount \/ ReportDropped \/ backlog_pop \/ SendHeld
  BY <1>11 DEF TakeCount, ReportDropped, backlog_pop, SendHeld
<1>12. CASE dev_bench_log_panic \/ PanicProcess
  BY <1>1, <1>12 DEF dev_bench_log_panic, PanicProcess
<1>13. CASE UNCHANGED vars
  BY <1>1, <1>13 DEF vars
<1> QED
  BY <1>2, <1>3, <1>4, <1>5, <1>6, <1>7, <1>8, <1>9, <1>10, <1>11, <1>12, <1>13
     DEF Next, MainThread

(* Whatever a study asks for and however it ends, the next one starts from
   the idle level.                                                            *)
THEOREM IdleIsQuiet == Spec => []QuietWhenIdle
<1>1. Init => LevelInHand
  BY DEF Init, LevelInHand
<1>2. LevelInHand => QuietWhenIdle
  BY DEF LevelInHand, QuietWhenIdle
<1> QED BY <1>1, <1>2, LevelNext, LogTypeCorrect, PTL DEF Spec

-----------------------------------------------------------------------------
(* Lines are numbered as they are finished; the one in hand is newer than any
   that has been held.                                                        *)
Numbered ==
  /\ gone <= emitted
  /\ \A k \in DOMAIN backlog : gone < backlog[k].id /\ backlog[k].id <= emitted
  /\ lp # "idle" => gone < line.id /\ line.id <= emitted

Ordered == TypeOK /\ Numbered /\ HeldInOrder

LEMMA OrderedNext == Ordered /\ [Next]_vars => Ordered'
<1> SUFFICES ASSUME Ordered, [Next]_vars PROVE Numbered' /\ HeldInOrder'
  BY TypeNext DEF Ordered
<1> USE DEF mainVars, levelVars, coreVars, logVars, backVars, counts, mainRest
<1>t. /\ emitted \in Nat /\ gone \in Nat /\ backlog \in Seq(Line) /\ line \in Line
      /\ line.id \in Nat /\ \A k \in DOMAIN backlog : backlog[k].id \in Nat
  <2>1. emitted \in Nat /\ gone \in Nat /\ backlog \in Seq(Line) /\ line \in Line
    BY DEF Ordered, TypeOK
  <2>2. \A k \in DOMAIN backlog : backlog[k] \in Line
    BY <2>1
  <2>3. \A l \in Line : l.id \in Nat
    BY DEF Line
  <2> QED BY <2>1, <2>2, <2>3
<1>n. Numbered /\ HeldInOrder
  BY DEF Ordered
(* Steps that touch no line, and those that finish one.                       *)
<1>q. ASSUME UNCHANGED <<backVars, logVars>>, emitted' \in {emitted, emitted + 1}
      PROVE  Numbered' /\ HeldInOrder'
  <2>1. HeldInOrder'
    BY <1>n, <1>q DEF HeldInOrder
  <2>2. Numbered'
    BY <1>n, <1>t, <1>q DEF Numbered
  <2> QED BY <2>1, <2>2
<1>l. ASSUME UNCHANGED <<backVars, line, emitted>>, lp # "idle" \/ lp' = "idle"
      PROVE  Numbered' /\ HeldInOrder'
  BY <1>n, <1>l DEF Numbered, HeldInOrder
<1>f. ASSUME NEW r, Finish(r), UNCHANGED backVars
      PROVE  Numbered' /\ HeldInOrder'
  <2>1. line'.id = emitted + 1 /\ emitted' = emitted + 1
    BY <1>f DEF Finish
  <2>2. HeldInOrder'
    BY <1>n, <1>t, <1>f, <2>1 DEF Numbered, HeldInOrder
  <2>3. Numbered'
    BY <1>n, <1>t, <1>f, <2>1 DEF Numbered
  <2> QED BY <2>2, <2>3
<1>1. ASSUME NEW r \in Records, LogRecord(r) PROVE Numbered' /\ HeldInOrder'
  BY <1>1, <1>q DEF LogRecord
<1>2. CASE dev_bench_log_process
  <2>1. CASE Finish(Head(pending))
    BY <1>2, <1>f, <2>1 DEF dev_bench_log_process
  <2>2. CASE UNCHANGED <<lp, line, emitted>>
    BY <1>2, <1>q, <2>2 DEF dev_bench_log_process
  <2> QED BY <1>2, <2>1, <2>2 DEF dev_bench_log_process
<1>3. CASE dev_bench_log_dropped
  BY <1>3, <1>f DEF dev_bench_log_dropped
<1>4. CASE emit_line \/ SinkLock
  BY <1>4, <1>l DEF emit_line, SinkLock
<1>5. CASE backlog_put
  <2>1. lp # "idle" /\ lp' = "idle" /\ UNCHANGED emitted
    BY <1>5 DEF backlog_put
  <2>2. /\ gone < line.id /\ line.id <= emitted
        /\ \A k \in DOMAIN backlog : backlog[k].id < line.id
    BY <1>n, <2>1 DEF Numbered, HeldInOrder
  <2>3. CASE BacklogHasRoom
    <3>1. backlog' = Append(backlog, line) /\ UNCHANGED gone
      BY <1>5, <2>3 DEF backlog_put
    <3>2. /\ DOMAIN backlog' = 1..(Len(backlog) + 1) /\ backlog'[Len(backlog) + 1] = line
          /\ \A k \in DOMAIN backlog : backlog'[k] = backlog[k]
          /\ DOMAIN backlog = 1..Len(backlog) /\ Len(backlog) \in Nat
      BY <1>t, <3>1
    <3>3. HeldInOrder'
      BY <1>n, <1>t, <2>1, <2>2, <3>1, <3>2 DEF HeldInOrder
    <3>4. Numbered'
      BY <1>n, <1>t, <2>1, <2>2, <3>1, <3>2 DEF Numbered
    <3> QED BY <3>3, <3>4
  <2>4. CASE ~BacklogHasRoom
    <3>1. backlog # <<>>
      BY <2>4, LogAssumption DEF BacklogHasRoom
    <3>2. backlog' = Append(Tail(backlog), line) /\ gone' = backlog[1].id
      BY <1>5, <2>4, <1>t, <3>1 DEF backlog_put, OverOldest
    <3>3. /\ DOMAIN backlog' = 1..Len(backlog) /\ backlog'[Len(backlog)] = line
          /\ \A k \in 1..(Len(backlog) - 1) : backlog'[k] = backlog[k + 1]
          /\ DOMAIN backlog = 1..Len(backlog) /\ Len(backlog) \in Nat \ {0}
      BY <1>t, <3>1, <3>2
    <3>o. /\ \A k \in 1..(Len(backlog) - 1) : backlog[1].id < backlog[k + 1].id
          /\ \A j, k \in 1..(Len(backlog) - 1) : j < k => backlog[j + 1].id < backlog[k + 1].id
      <4>1. \A k \in 1..(Len(backlog) - 1) : k + 1 \in DOMAIN backlog /\ 1 \in DOMAIN backlog /\ 1 < k + 1
        BY <3>3
      <4>2. \A k \in 1..(Len(backlog) - 1) : backlog[1].id < backlog[k + 1].id
        BY <1>n, <4>1 DEF HeldInOrder
      <4>3. \A j, k \in 1..(Len(backlog) - 1) : j < k => j + 1 < k + 1
        OBVIOUS
      <4>4. \A j, k \in 1..(Len(backlog) - 1) : j < k => backlog[j + 1].id < backlog[k + 1].id
        BY <1>n, <4>1, <4>3 DEF HeldInOrder
      <4> QED BY <4>2, <4>4
    <3>l. \A k \in 1..(Len(backlog) - 1) : backlog[k + 1].id < line.id
      BY <2>2, <3>3
    <3>4. HeldInOrder'
      <4>1. \A k \in DOMAIN backlog' : gone' < backlog'[k].id
        BY <2>2, <3>2, <3>3, <3>o
      <4>2. ASSUME NEW j \in DOMAIN backlog', NEW k \in DOMAIN backlog', j < k
            PROVE  backlog'[j].id < backlog'[k].id
        <5>1. j \in 1..(Len(backlog) - 1)
          BY <3>3, <4>2
        <5>2. CASE k = Len(backlog)
          BY <2>2, <3>3, <3>l, <5>1, <5>2
        <5>3. CASE k # Len(backlog)
          <6>1. k \in 1..(Len(backlog) - 1)
            BY <3>3, <5>3
          <6> QED BY <3>3, <3>o, <4>2, <5>1, <6>1
        <5> QED BY <5>2, <5>3
      <4> QED BY <2>1, <4>1, <4>2 DEF HeldInOrder
    <3>5. Numbered'
      <4>1. gone' <= emitted' /\ lp' = "idle"
        BY <1>n, <2>1, <3>2, <3>3 DEF Numbered
      <4>2. \A k \in DOMAIN backlog' : backlog'[k].id <= emitted'
        BY <1>n, <2>1, <2>2, <3>3 DEF Numbered
      <4> QED BY <3>4, <4>1, <4>2 DEF Numbered, HeldInOrder
    <3> QED BY <3>4, <3>5
  <2> QED BY <2>3, <2>4
<1>6. CASE log_backend_sink
  BY <1>6, <1>n DEF log_backend_sink, Numbered, HeldInOrder
<1>7. CASE handle_hello \/ dispatch_study
  BY <1>7, <1>q DEF handle_hello, dispatch_study
<1>8. CASE StudyEnds \/ log_flush \/ dev_bench_log_set_level \/ log_filter_set
  BY <1>8, <1>q DEF StudyEnds, log_flush, dev_bench_log_set_level, log_filter_set
<1>9. CASE MainLock \/ HelloAck \/ dev_bench_log_set_sink \/ ReportDropped \/ SendHeld
  BY <1>9, <1>q DEF MainLock, HelloAck, dev_bench_log_set_sink, ReportDropped, SendHeld
<1>10. CASE TakeCount
  BY <1>10, <1>n DEF TakeCount, Numbered, HeldInOrder
<1>11. CASE backlog_pop
  <2>1. CASE backlog = <<>>
    BY <1>11, <1>q, <2>1 DEF backlog_pop
  <2>2. CASE backlog # <<>>
    <3>1. backlog' = Tail(backlog) /\ gone' = backlog[1].id /\ UNCHANGED <<lp, line, emitted>>
      BY <1>11, <1>t, <2>2 DEF backlog_pop
    <3>2. /\ DOMAIN backlog' = 1..(Len(backlog) - 1) /\ DOMAIN backlog = 1..Len(backlog)
          /\ \A k \in 1..(Len(backlog) - 1) : backlog'[k] = backlog[k + 1]
          /\ Len(backlog) \in Nat \ {0}
      BY <1>t, <2>2, <3>1
    <3>3. /\ \A k \in DOMAIN backlog' : gone' < backlog'[k].id
          /\ \A j, k \in DOMAIN backlog' : j < k => backlog'[j].id < backlog'[k].id
      <4>1. \A j, k \in 1..Len(backlog) : j < k => backlog[j].id < backlog[k].id
        BY <1>n, <3>2 DEF HeldInOrder
      <4> QED BY <3>1, <3>2, <4>1
    <3>4. lp # "idle" => \A k \in DOMAIN backlog' : backlog'[k].id < line.id
      BY <1>n, <3>2 DEF HeldInOrder
    <3>5. HeldInOrder'
      BY <3>1, <3>3, <3>4 DEF HeldInOrder
    <3>6. gone' <= emitted /\ \A k \in DOMAIN backlog' : backlog'[k].id <= emitted
      BY <1>n, <3>1, <3>2 DEF Numbered
    <3>7. lp # "idle" => gone' < line.id /\ line.id <= emitted
      BY <1>n, <3>1, <3>2 DEF Numbered, HeldInOrder
    <3>8. Numbered'
      BY <3>1, <3>3, <3>6, <3>7 DEF Numbered
    <3> QED BY <3>5, <3>8
  <2> QED BY <2>1, <2>2
<1>12. CASE dev_bench_log_panic
  BY <1>12, <1>q DEF dev_bench_log_panic
<1>13. CASE PanicProcess
  BY <1>13, <1>q DEF PanicProcess, PanicLine
<1>14. CASE UNCHANGED vars
  BY <1>14, <1>q DEF vars
<1> QED
  BY <1>1, <1>2, <1>3, <1>4, <1>5, <1>6, <1>7, <1>8, <1>9, <1>10, <1>11, <1>12, <1>13, <1>14
     DEF Next, LogThread, MainThread

(* The backlog keeps the newest lines and gives them up oldest first, for
   every depth.                                                               *)
THEOREM BacklogIsOrdered == Spec => []HeldInOrder
<1>1. Init => Ordered
  <2>1. Init => Numbered /\ HeldInOrder
    BY DEF Init, Numbered, HeldInOrder
  <2> QED BY <2>1, TypeInit DEF Ordered
<1>2. Ordered => HeldInOrder
  BY DEF Ordered
<1> QED BY <1>1, <1>2, OrderedNext, PTL DEF Spec

(* What keeps the kernel's own trace out of a study: its filter is at the
   ceiling from the boot's level on, and the flush of a study's level ends only
   with what was made before that gone.                                        *)
Quelled ==
  LET KernelCapped == \A k \in DOMAIN pending :
                        pending[k].source = Kernel => pending[k].level <= KernelCeiling
  IN /\ op = "boot" => pc \in {"flush", "nap", "level", "filter", "idle"}
     /\ ~(op = "boot" /\ pc # "idle") => filter[Kernel] <= KernelCeiling
     /\ pc = "study" => op = "study"
     /\ op = "study" /\ pc \in {"nap", "level", "filter", "study"} => KernelCapped

LEMMA QuelledNext == TypeOK /\ Quelled /\ [Next]_vars => Quelled'
<1> SUFFICES ASSUME TypeOK, Quelled, [Next]_vars PROVE Quelled'
  OBVIOUS
<1> USE DEF mainVars, levelVars, coreVars, logVars, backVars, counts, mainRest
<1>s. pending \in Seq(Record)
  BY DEF TypeOK
<1>b. ASSUME UNCHANGED <<pc, op, filter, pending>> PROVE Quelled'
  BY <1>b DEF Quelled
<1>t. ASSUME pending # <<>>, pending' = Tail(pending), UNCHANGED <<pc, op, filter>>
      PROVE  Quelled'
  <2>1. /\ DOMAIN pending = 1..Len(pending) /\ DOMAIN pending' = 1..(Len(pending) - 1)
        /\ \A k \in 1..(Len(pending) - 1) : pending'[k] = pending[k + 1]
        /\ Len(pending) \in Nat
    BY <1>s, <1>t
  <2>2. \A k \in DOMAIN pending' : k + 1 \in DOMAIN pending /\ pending'[k] = pending[k + 1]
    BY <2>1
  <2> QED BY <1>t, <2>2 DEF Quelled
<1>1. ASSUME NEW r \in Records, LogRecord(r) PROVE Quelled'
  <2>1. /\ UNCHANGED <<pc, op, filter>>
        /\ r.source = Kernel => r.level <= filter[Kernel]
    BY <1>1 DEF LogRecord, Made, Kernel, Printk
  <2>2. \A k \in DOMAIN pending' : \/ pending'[k] = r
                                   \/ \E j \in DOMAIN pending : pending'[k] = pending[j]
    <3>1. CASE pending' = Append(pending, r)
      <4>1. /\ DOMAIN pending = 1..Len(pending) /\ DOMAIN pending' = 1..(Len(pending) + 1)
            /\ \A k \in 1..Len(pending) : pending'[k] = pending[k]
            /\ pending'[Len(pending) + 1] = r /\ Len(pending) \in Nat
        BY <1>s, <3>1
      <4> QED BY <4>1
    <3>2. CASE Len(pending) = BufferSlots /\ pending' = Append(Tail(pending), r)
      <4>1. Len(pending) \in Nat \ {0} /\ pending # <<>>
        BY <1>s, <3>2, LogAssumption
      <4>2. /\ DOMAIN pending = 1..Len(pending) /\ DOMAIN pending' = 1..Len(pending)
            /\ \A k \in 1..(Len(pending) - 1) : pending'[k] = pending[k + 1]
            /\ pending'[Len(pending)] = r
        BY <1>s, <3>2, <4>1
      <4>3. \A k \in 1..Len(pending) : k = Len(pending) \/ k \in 1..(Len(pending) - 1)
        BY <4>1
      <4>4. \A k \in 1..(Len(pending) - 1) : k + 1 \in DOMAIN pending
        BY <4>1, <4>2
      <4> QED BY <4>2, <4>3, <4>4
    <3> QED BY <1>1, <3>1, <3>2 DEF LogRecord
  <2>3. CASE op = "study" /\ pc \in {"nap", "level", "filter", "study"}
    <3>1. r.source = Kernel => r.level <= KernelCeiling
      <4>1. r.level \in Int /\ filter[Kernel] \in Int /\ filter[Kernel] <= KernelCeiling
        BY <2>3, LogAssumption DEF Quelled, TypeOK, Levels, Sources, Kernel
      <4> QED BY <2>1, <4>1 DEF KernelCeiling
    <3> QED BY <2>1, <2>2, <2>3, <3>1 DEF Quelled
  <2>4. CASE ~(op = "study" /\ pc \in {"nap", "level", "filter", "study"})
    BY <2>1, <2>4 DEF Quelled
  <2> QED BY <2>3, <2>4
<1>2. CASE dev_bench_log_process
  BY <1>2, <1>t DEF dev_bench_log_process
<1>3. CASE PanicProcess
  BY <1>3, <1>b, <1>t DEF PanicProcess
<1>4. CASE \/ dev_bench_log_dropped \/ emit_line \/ backlog_put \/ SinkLock \/ log_backend_sink
           \/ MainLock \/ dev_bench_log_panic \/ UNCHANGED vars
  BY <1>4, <1>b DEF dev_bench_log_dropped, emit_line, backlog_put, SinkLock, log_backend_sink,
     MainLock, dev_bench_log_panic, vars
<1>5. CASE handle_hello \/ dispatch_study \/ StudyEnds
  BY <1>5, <1>b DEF handle_hello, dispatch_study, StudyEnds, SetLevel, Quelled
<1>6. CASE log_flush
  <2>1. CASE pending = <<>>
    BY <1>6, <2>1 DEF log_flush, Quelled
  <2>2. CASE pc = "nap"
    BY <1>6, <2>2 DEF log_flush, Quelled
  <2> QED BY <1>6, <2>1, <2>2 DEF log_flush
<1>7. CASE dev_bench_log_set_level
  BY <1>7 DEF dev_bench_log_set_level, Quelled
<1>8. CASE log_filter_set
  <2>1. filter'[Kernel] <= KernelCeiling
    <3>1. filter'[Kernel] = Min2(want, KernelCeiling)
      BY <1>8 DEF log_filter_set, FilterFor, Sources, Kernel, App
    <3> QED BY <3>1 DEF Min2, KernelCeiling, TypeOK, Levels
  <2>2. /\ UNCHANGED <<op, pending>> /\ pc = "filter"
        /\ op = "study" => pc' = "study"
        /\ op = "boot" => pc' = "idle"
        /\ op # "study" => pc' \in {"ack", "idle"}
    BY <1>8 DEF log_filter_set, TypeOK
  <2> QED BY <2>1, <2>2 DEF Quelled
<1>9. CASE \/ HelloAck \/ dev_bench_log_set_sink \/ TakeCount \/ ReportDropped \/ backlog_pop
           \/ SendHeld
  <2>1. /\ UNCHANGED <<op, filter, pending>>
        /\ pc \in {"ack", "sink", "count", "report", "drain", "line"}
        /\ pc' \in {"sink", "count", "report", "drain", "line", "idle"}
    BY <1>9 DEF HelloAck, dev_bench_log_set_sink, TakeCount, ReportDropped, backlog_pop, SendHeld
  <2> QED BY <2>1 DEF Quelled
<1> QED BY <1>1, <1>2, <1>3, <1>4, <1>5, <1>6, <1>7, <1>8, <1>9 DEF Next, LogThread, MainThread

(* Whatever level a study asks for, none of the kernel's records above the
   ceiling is made while it runs.                                             *)
THEOREM KernelIsQuelled == Spec => []NoFeedback
<1>1. Init => Quelled
  BY DEF Init, Quelled
<1>2. Quelled => NoFeedback
  BY DEF Quelled, NoFeedback
<1> QED BY <1>1, <1>2, QuelledNext, LogTypeCorrect, PTL DEF Spec
-----------------------------------------------------------------------------
(* Once the sink is installed the log thread takes no new line to the backlog:
   what lies there when a drain has ended and what is still on its way there
   are one line together.                                                     *)
Stragglers == Len(backlog) + (IF lp = "park" THEN 1 ELSE 0)

Strands ==
  /\ pc \in {"count", "report", "drain", "line"} => log_sink
  /\ log_sink /\ pc \notin {"count", "report", "drain", "line"} => Stragglers <= 1

LEMMA StrandsNext == TypeOK /\ Strands /\ [Next]_vars => Strands'
<1> SUFFICES ASSUME TypeOK, Strands, [Next]_vars PROVE Strands'
  OBVIOUS
<1> USE DEF mainVars, levelVars, coreVars, logVars, backVars, counts, mainRest
<1>t. backlog \in Seq(Line) /\ Len(backlog) \in Nat /\ line \in Line /\ log_sink \in BOOLEAN
  BY DEF TypeOK
<1>q. ASSUME UNCHANGED <<pc, log_sink, backlog>>, lp' = "park" => lp = "park" \/ ~log_sink
      PROVE  Strands'
  BY <1>q, <1>t DEF Strands, Stragglers
(* A step of main outside the service of a Hello.                             *)
<1>m. ASSUME UNCHANGED <<log_sink, backlog, lp>>,
             pc \notin {"count", "report", "drain", "line"},
             pc' \notin {"count", "report", "drain", "line"}
      PROVE  Strands'
  BY <1>m DEF Strands, Stragglers
(* A step of the drain that does not end it.                                  *)
<1>d. ASSUME UNCHANGED log_sink, pc \in {"count", "report", "drain", "line"},
             pc' \in {"count", "report", "drain", "line"}
      PROVE  Strands'
  BY <1>d DEF Strands
<1>1. ASSUME NEW r \in Records, LogRecord(r) PROVE Strands'
  BY <1>1, <1>q DEF LogRecord
<1>2. CASE \/ dev_bench_log_process \/ dev_bench_log_dropped \/ emit_line \/ SinkLock
           \/ log_backend_sink
  BY <1>2, <1>q DEF dev_bench_log_process, dev_bench_log_dropped, emit_line, SinkLock,
                    log_backend_sink
<1>3. CASE backlog_put
  <2>1. lp = "park" /\ lp' = "idle" /\ UNCHANGED <<pc, log_sink>>
    BY <1>3 DEF backlog_put
  <2>2. Len(backlog') <= Len(backlog) + 1 /\ Len(backlog') \in Nat
    <3>1. CASE BacklogHasRoom
      BY <1>3, <1>t, <3>1 DEF backlog_put
    <3>2. CASE ~BacklogHasRoom
      <4>1. backlog # <<>>
        BY <3>2, LogAssumption DEF BacklogHasRoom
      <4>2. Len(Append(Tail(backlog), line)) = Len(backlog)
        BY <1>t, <4>1, PutFirst
      <4> QED BY <1>3, <1>t, <3>2, <4>2 DEF backlog_put, OverOldest
    <3> QED BY <3>1, <3>2
  <2> QED BY <1>t, <2>1, <2>2 DEF Strands, Stragglers
<1>4. CASE handle_hello \/ dispatch_study \/ StudyEnds
  BY <1>4, <1>m DEF handle_hello, dispatch_study, StudyEnds, SetLevel
<1>5. CASE log_flush \/ dev_bench_log_set_level \/ HelloAck
  BY <1>5, <1>m DEF log_flush, dev_bench_log_set_level, HelloAck
<1>6. CASE log_filter_set
  <2>1. pc' \in {"ack", "study", "idle"}
    BY <1>6 DEF log_filter_set, TypeOK
  <2> QED BY <1>6, <1>m, <2>1 DEF log_filter_set
<1>7. CASE MainLock
  BY <1>7, <1>q DEF MainLock
<1>8. CASE dev_bench_log_set_sink
  BY <1>8 DEF dev_bench_log_set_sink, Strands
<1>9. CASE TakeCount \/ ReportDropped \/ SendHeld
  BY <1>9, <1>d DEF TakeCount, ReportDropped, SendHeld
<1>10. CASE backlog_pop
  <2>1. CASE backlog = <<>>
    <3>1. Len(backlog') = 0 /\ pc' = "idle" /\ UNCHANGED <<lp, log_sink>>
      BY <1>10, <2>1 DEF backlog_pop
    <3> QED BY <3>1 DEF Strands, Stragglers
  <2>2. CASE backlog # <<>>
    BY <1>10, <1>d, <2>2 DEF backlog_pop
  <2> QED BY <2>1, <2>2
<1>11. CASE dev_bench_log_panic \/ PanicProcess \/ UNCHANGED vars
  BY <1>11, <1>q DEF dev_bench_log_panic, PanicProcess, vars
<1> QED
  BY <1>1, <1>2, <1>3, <1>4, <1>5, <1>6, <1>7, <1>8, <1>9, <1>10, <1>11
     DEF Next, LogThread, MainThread

(* A Hello leaves behind at most the line that was on its way to the backlog
   when the sink was installed, however many are served and for every depth.  *)
THEOREM FewAreStranded == Spec => []AtMostOneStranded
<1>1. Init => Strands
  BY DEF Init, Strands
<1>2. TypeOK /\ Strands => AtMostOneStranded
  BY DEF TypeOK, Strands, Stragglers, AtMostOneStranded
<1> QED BY <1>1, <1>2, StrandsNext, LogTypeCorrect, PTL DEF Spec
-----------------------------------------------------------------------------
(* Who has the mutex of the link follows from where the threads are.          *)
Handover ==
  /\ link_tx_mutex = "log" <=> lp = "send"
  /\ link_tx_mutex = "main" => pc \in {"ack", "report", "line"}

LEMMA HandoverNext == TypeOK /\ Handover /\ [Next]_vars => Handover'
<1> SUFFICES ASSUME TypeOK, Handover, [Next]_vars PROVE Handover'
  OBVIOUS
<1> USE DEF mainVars, levelVars, coreVars, logVars, backVars, counts, mainRest
<1>1. ASSUME UNCHANGED <<pc, link_tx_mutex>>, lp # "send", lp' # "send" PROVE Handover'
  BY <1>1 DEF Handover
<1>2. ASSUME UNCHANGED <<link_tx_mutex, lp>>,
             link_tx_mutex = "main" => pc' \in {"ack", "report", "line"}
      PROVE  Handover'
  BY <1>2 DEF Handover
<1>3. ASSUME NEW r \in Records, LogRecord(r) PROVE Handover'
  BY <1>2, <1>3 DEF LogRecord, Handover
<1>4. CASE dev_bench_log_process \/ dev_bench_log_dropped \/ emit_line \/ backlog_put
  BY <1>1, <1>4 DEF dev_bench_log_process, dev_bench_log_dropped, emit_line, backlog_put
<1>5. CASE SinkLock \/ log_backend_sink
  BY <1>5 DEF SinkLock, log_backend_sink, Handover
<1>6. CASE MainLock
  BY <1>6 DEF MainLock, Handover
(* Where main has the mutex, it gives it back.                                *)
<1>7. CASE HelloAck \/ ReportDropped \/ SendHeld
  BY <1>7 DEF HelloAck, MutexAfterAck, ReportDropped, SendHeld, Handover
<1>8. CASE handle_hello \/ dispatch_study \/ StudyEnds \/ log_flush \/ dev_bench_log_set_level
           \/ log_filter_set \/ dev_bench_log_set_sink \/ TakeCount \/ backlog_pop
  <2>1. pc \notin {"ack", "report", "line"} /\ UNCHANGED <<link_tx_mutex, lp>>
    BY <1>8 DEF handle_hello, dispatch_study, StudyEnds, SetLevel, log_flush,
       dev_bench_log_set_level, log_filter_set, dev_bench_log_set_sink, TakeCount, backlog_pop
  <2> QED BY <1>2, <2>1 DEF Handover
<1>9. CASE dev_bench_log_panic \/ PanicProcess \/ UNCHANGED vars
  BY <1>2, <1>9 DEF dev_bench_log_panic, PanicProcess, vars, Handover
<1> QED
  BY <1>3, <1>4, <1>5, <1>6, <1>7, <1>8, <1>9 DEF Next, LogThread, MainThread

(* main and the log thread never wait for each other: whatever main waits for,
   the log thread has a step to take towards it.                              *)
THEOREM NobodyIsStuck == Spec => []WaitersAreServed
<1>1. Init => Handover
  BY DEF Init, Handover
<1>2. TypeOK /\ Handover => WaitersAreServed
  BY DEF TypeOK, Handover, WaitersAreServed, LogMayRun, MainBlocked
<1> QED BY <1>1, <1>2, HandoverNext, LogTypeCorrect, PTL DEF Spec

(* The backlog keeps the newest lines in their order, and next to none once a
   host is there, for every depth and however many Hellos are served.         *)
THEOREM BacklogKeepsOrder == Spec => []BacklogKeepsItsOrder
<1>1. HeldInOrder /\ AtMostOneStranded => BacklogKeepsItsOrder
  BY DEF BacklogKeepsItsOrder
<1> QED BY <1>1, BacklogIsOrdered, FewAreStranded, PTL

(* A study's verbosity feeds on nothing and ends with it, whatever levels the
   studies ask for.                                                           *)
THEOREM VerbosityIsContained == Spec => []VerbosityContained
<1>1. NoFeedback /\ QuietWhenIdle => VerbosityContained
  BY DEF VerbosityContained
<1> QED BY <1>1, KernelIsQuelled, IdleIsQuiet, PTL
=============================================================================
