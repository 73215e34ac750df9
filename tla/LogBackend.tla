------------------------------ MODULE LogBackend ------------------------------
(***************************************************************************)
(* The log backend of app/src/dev_bench_log.c and what main.c does with    *)
(* it.  Any thread or interrupt makes records; the log thread judges them  *)
(* against the level in force, and hands each line to the sink, or parks   *)
(* it in the boot backlog while there is none; the main thread sets the    *)
(* level, installs the sink at a Hello and drains the backlog; a fatal     *)
(* error stops all of them and writes out what is left.                    *)
(*                                                                         *)
(* The main thread has a higher priority than the log thread, which runs   *)
(* only while main is blocked: waiting for a message or a step, inside     *)
(* log_flush, or for the mutex of the link.  A record is one line.         *)
(***************************************************************************)
EXTENDS Integers, Sequences

CONSTANTS
  Records,       (* the [source, level] of the records that may be made      *)
  StudyLevels,   (* the dev_bench_log_level of a study                       *)
  Depth,         (* DEV_BENCH_LOG_BACKLOG_DEPTH                              *)
  BufferSlots,   (* records the log core holds for the log thread            *)
  MaxRecords     (* bound: records made                                      *)

OFF == 0  ERR == 1  WRN == 2  INF == 3  DBG == 4
Levels == OFF..DBG

App    == "dev_bench"
Kernel == "os"
Printk == "printk"      (* a printk routed through the log core              *)
Sources == {App, Kernel, Printk, "bt"}

BootLevel     == WRN
KernelCeiling == WRN

ASSUME LogAssumption ==
  /\ Records \subseteq [source : Sources, level : Levels \ {OFF}]
  /\ StudyLevels \subseteq Levels
  /\ Depth \in Nat \ {0} /\ BufferSlots \in Nat \ {0} /\ MaxRecords \in Nat

VARIABLES
  pc, op, want,          (* main: where it is, what for, the level to set    *)
  awaiting_study,
  current_level, filter, (* the backend's level; the log core's, per source  *)
  log_sink,              (* log_sink # NULL                                  *)
  link_tx_mutex,
  pending, lost,         (* records the log core holds, and has dropped      *)
  lp, line,              (* the log thread and the line in its hand          *)
  backlog, backlog_dropped,
  held,                  (* main's line, or its count, on the way out        *)
  log_panic_mode,
  made, emitted,         (* history: records made, lines finished            *)
  sent, reported, discarded, (* history: lines that reached the sink, lines
                                reported as dropped, lines nobody will read   *)
  gone                   (* history: the last line to leave the backlog      *)

mainVars  == <<pc, op, want, awaiting_study, held>>
levelVars == <<current_level, filter>>
coreVars  == <<pending, lost, made>>
logVars   == <<lp, line>>
backVars  == <<backlog, backlog_dropped, gone>>
counts    == <<emitted, sent, reported, discarded>>
vars == <<mainVars, levelVars, log_sink, link_tx_mutex, coreVars, logVars, backVars,
          log_panic_mode, counts>>

Record == [source : Sources, level : Levels]
NoRecord == [source |-> App, level |-> OFF]
Line == [id : Nat, record : Record]
NoLine == [id |-> 0, record |-> NoRecord]

(* The line that reports records the log core had no room for.                *)
LostNote == [source |-> App, level |-> WRN]

Max2(a, b) == IF a > b THEN a ELSE b
Min2(a, b) == IF a < b THEN a ELSE b

-----------------------------------------------------------------------------
(* Levels.                                                                   *)

(* Off silences everything.  A printk counts as INF; the kernel's own records
   are held at their ceiling; this firmware's keep INF.                      *)
record_passes(r) ==
  /\ current_level # OFF
  /\ CASE r.source = Printk -> INF <= current_level
       [] r.source = Kernel -> r.level <= KernelCeiling
       [] r.source \notin {Printk, Kernel} ->
            r.level <= current_level \/ (r.source = App /\ r.level <= INF)

FilterUncapped(source, level) ==
  IF source = App /\ level # OFF THEN Max2(level, INF) ELSE level

(* What dev_bench_log_set_level asks of the log core for a source.            *)
FilterFor(source, level) ==
  CASE source = App /\ level # OFF -> Max2(level, INF)
    [] source = Kernel -> Min2(level, KernelCeiling)
    [] OTHER -> level

(* The log core makes no record above its source's filter; a printk always.   *)
Made(r) == r.source = Printk \/ r.level <= filter[r.source]

-----------------------------------------------------------------------------
(* Any thread: LOG_ERR and its like.  With the buffer full the oldest goes.   *)
LogRecord(r) ==
  /\ made < MaxRecords
  /\ Made(r)
  /\ made' = made + 1
  /\ \/ Len(pending) < BufferSlots /\ pending' = Append(pending, r) /\ UNCHANGED lost
     \/ Len(pending) = BufferSlots /\ pending' = Append(Tail(pending), r) /\ lost' = lost + 1
  /\ UNCHANGED <<mainVars, levelVars, log_sink, link_tx_mutex, logVars, backVars, log_panic_mode,
                 counts>>

-----------------------------------------------------------------------------
(* The log thread.                                                           *)

MainBlocked ==
  \/ pc \in {"idle", "flush", "nap", "study"}
  \/ pc \in {"ack", "report", "line"} /\ link_tx_mutex = "log"

LogMayRun == MainBlocked /\ ~log_panic_mode

Finish(r) == line' = [id |-> emitted + 1, record |-> r] /\ emitted' = emitted + 1

dev_bench_log_process ==
  /\ LogMayRun
  /\ lp = "idle" /\ pending # <<>>
  /\ pending' = Tail(pending)
  /\ \/ record_passes(Head(pending)) /\ Finish(Head(pending)) /\ lp' = "emit"
     \/ ~record_passes(Head(pending)) /\ UNCHANGED <<lp, line, emitted>>
  /\ UNCHANGED <<mainVars, levelVars, log_sink, link_tx_mutex, lost, made, backVars,
                 log_panic_mode, sent, reported, discarded>>

dev_bench_log_dropped ==
  /\ LogMayRun
  /\ lp = "idle" /\ lost > 0
  /\ lost' = 0
  /\ Finish(LostNote) /\ lp' = "emit"
  /\ UNCHANGED <<mainVars, levelVars, log_sink, link_tx_mutex, pending, made, backVars,
                 log_panic_mode, sent, reported, discarded>>

(* log_sink is read once, before the line goes either way.                   *)
emit_line ==
  /\ LogMayRun
  /\ lp = "emit"
  /\ lp' = IF log_sink THEN "lock" ELSE "park"
  /\ UNCHANGED <<mainVars, levelVars, log_sink, link_tx_mutex, coreVars, line, backVars,
                 log_panic_mode, counts>>

BacklogHasRoomOrSo == Len(backlog) <= Depth
BacklogHasRoom == Len(backlog) < Depth

(* With the backlog full the new line takes the oldest one's place.          *)
OverOldest(l) == Append(Tail(backlog), l)

OverwriteUncounted == backlog_dropped
OverwriteCounted == backlog_dropped + 1

backlog_put ==
  /\ LogMayRun
  /\ lp = "park"
  /\ lp' = "idle" /\ line' = NoLine
  /\ \/ /\ BacklogHasRoom
        /\ backlog' = Append(backlog, line)
        /\ UNCHANGED <<backlog_dropped, gone>>
     \/ /\ ~BacklogHasRoom
        /\ backlog' = OverOldest(line)
        /\ backlog_dropped' = OverwriteCounted
        /\ gone' = Head(backlog).id
  /\ UNCHANGED <<mainVars, levelVars, log_sink, link_tx_mutex, coreVars, log_panic_mode, counts>>

SinkLock ==
  /\ LogMayRun
  /\ lp = "lock"
  /\ link_tx_mutex = "free"
  /\ link_tx_mutex' = "log" /\ lp' = "send"
  /\ UNCHANGED <<mainVars, levelVars, log_sink, coreVars, line, backVars, log_panic_mode, counts>>

log_backend_sink ==
  /\ LogMayRun
  /\ lp = "send"
  /\ sent' = sent + 1
  /\ link_tx_mutex' = "free"
  /\ lp' = "idle" /\ line' = NoLine
  /\ UNCHANGED <<mainVars, levelVars, log_sink, coreVars, backVars, log_panic_mode, emitted,
                 reported, discarded>>

-----------------------------------------------------------------------------
(* The main thread.                                                          *)

SetLevel(o, l) == op' = o /\ want' = l /\ pc' = "flush"

mainRest == <<levelVars, log_sink, coreVars, logVars, backVars, log_panic_mode>>

(* A Hello, at any time between studies.                                     *)
handle_hello ==
  /\ ~log_panic_mode
  /\ pc = "idle"
  /\ SetLevel("hello", BootLevel)
  /\ UNCHANGED <<awaiting_study, held, mainRest, link_tx_mutex, counts>>

(* A StudyStart is ignored without a Hello of its own and refused if a seal
   does not match; only then is its level set.                               *)
dispatch_study ==
  /\ ~log_panic_mode
  /\ pc = "idle" /\ awaiting_study
  /\ awaiting_study' = FALSE
  /\ \/ \E l \in StudyLevels : SetLevel("study", l)
     \/ UNCHANGED <<pc, op, want>>
  /\ UNCHANGED <<held, mainRest, link_tx_mutex, counts>>

LevelAfterStudy == BootLevel

(* The study is over, however it ended.                                      *)
StudyEnds ==
  /\ ~log_panic_mode
  /\ pc = "study"
  /\ SetLevel("revert", LevelAfterStudy)
  /\ UNCHANGED <<awaiting_study, held, mainRest, link_tx_mutex, counts>>

(* Zephyr's log_flush looks every 10 ms whether a record is pending, and
   sleeps once more when none is.                                            *)
log_flush ==
  /\ ~log_panic_mode
  /\ \/ pc = "flush" /\ pending = <<>> /\ pc' = "nap"
     \/ pc = "nap" /\ pc' = "level"
  /\ UNCHANGED <<op, want, awaiting_study, held, mainRest, link_tx_mutex, counts>>

dev_bench_log_set_level ==
  /\ ~log_panic_mode
  /\ pc = "level"
  /\ current_level' = want
  /\ pc' = "filter"
  /\ UNCHANGED <<op, want, awaiting_study, held, filter, log_sink, link_tx_mutex, coreVars, logVars,
                 backVars, log_panic_mode, counts>>

log_filter_set ==
  /\ ~log_panic_mode
  /\ pc = "filter"
  /\ filter' = [source \in Sources |-> FilterFor(source, want)]
  /\ pc' = CASE op = "hello" -> "ack"
              [] op = "study" -> "study"
              [] op \in {"boot", "revert"} -> "idle"
  /\ UNCHANGED <<op, want, awaiting_study, held, current_level, log_sink, link_tx_mutex, coreVars,
                 logVars, backVars, log_panic_mode, counts>>

MainLock ==
  /\ ~log_panic_mode
  /\ pc \in {"ack", "report", "line"}
  /\ link_tx_mutex = "free"
  /\ link_tx_mutex' = "main"
  /\ UNCHANGED <<mainVars, mainRest, counts>>

MutexKept == "main"
MutexAfterAck == "free"

(* HelloAck goes out before the sink is installed.                           *)
HelloAck ==
  /\ ~log_panic_mode
  /\ pc = "ack" /\ link_tx_mutex = "main"
  /\ link_tx_mutex' = MutexAfterAck
  /\ awaiting_study' \in BOOLEAN
  /\ pc' = "sink"
  /\ UNCHANGED <<op, want, held, mainRest, counts>>

dev_bench_log_set_sink ==
  /\ ~log_panic_mode
  /\ pc = "sink"
  /\ log_sink' = TRUE
  /\ pc' = "count"
  /\ UNCHANGED <<op, want, awaiting_study, held, levelVars, link_tx_mutex, coreVars, logVars,
                 backVars, log_panic_mode, counts>>

(* The count is taken and reset under the backlog's lock, then reported.     *)
TakeCount ==
  /\ ~log_panic_mode
  /\ pc = "count"
  /\ held' = backlog_dropped
  /\ backlog_dropped' = 0
  /\ pc' = IF backlog_dropped > 0 THEN "report" ELSE "drain"
  /\ UNCHANGED <<op, want, awaiting_study, levelVars, log_sink, link_tx_mutex, coreVars, logVars,
                 backlog, gone, log_panic_mode, counts>>

ReportDropped ==
  /\ ~log_panic_mode
  /\ pc = "report" /\ link_tx_mutex = "main"
  /\ link_tx_mutex' = "free"
  /\ reported' = reported + held /\ held' = 0
  /\ pc' = "drain"
  /\ UNCHANGED <<op, want, awaiting_study, mainRest, emitted, sent, discarded>>

backlog_pop ==
  /\ ~log_panic_mode
  /\ pc = "drain"
  /\ \/ backlog = <<>> /\ pc' = "idle" /\ UNCHANGED <<held, backlog, gone>>
     \/ /\ backlog # <<>>
        /\ held' = 1
        /\ gone' = Head(backlog).id /\ backlog' = Tail(backlog)
        /\ pc' = "line"
  /\ UNCHANGED <<op, want, awaiting_study, levelVars, log_sink, link_tx_mutex, coreVars, logVars,
                 backlog_dropped, log_panic_mode, counts>>

DrainOne == "idle"
DrainOn == "drain"

SendHeld ==
  /\ ~log_panic_mode
  /\ pc = "line" /\ link_tx_mutex = "main"
  /\ link_tx_mutex' = "free"
  /\ sent' = sent + 1 /\ held' = 0
  /\ pc' = DrainOn
  /\ UNCHANGED <<op, want, awaiting_study, mainRest, emitted, reported, discarded>>

-----------------------------------------------------------------------------
(* A fatal error: every thread stops where it is, and the log core processes
   what is pending in the faulting context.                                  *)
dev_bench_log_panic ==
  /\ ~log_panic_mode
  /\ log_panic_mode' = TRUE
  /\ UNCHANGED <<mainVars, levelVars, log_sink, link_tx_mutex, coreVars, logVars, backVars, counts>>

PanicSkipsLock == TRUE

(* A line of the faulting context.  Without a sink nobody will read it.       *)
PanicLine ==
  /\ emitted' = emitted + 1
  /\ \/ log_sink /\ PanicSkipsLock /\ sent' = sent + 1 /\ UNCHANGED discarded
     \/ ~log_sink /\ discarded' = discarded + 1 /\ UNCHANGED sent

PanicProcess ==
  /\ log_panic_mode
  /\ \/ /\ pending # <<>>
        /\ pending' = Tail(pending)
        /\ \/ record_passes(Head(pending)) /\ PanicLine
           \/ ~record_passes(Head(pending)) /\ UNCHANGED <<emitted, sent, discarded>>
        /\ UNCHANGED lost
     \/ lost > 0 /\ lost' = 0 /\ PanicLine /\ UNCHANGED pending
  /\ UNCHANGED <<mainVars, levelVars, log_sink, link_tx_mutex, made, logVars, backVars,
                 log_panic_mode, reported>>

-----------------------------------------------------------------------------
(* main() begins with the idle level; until then the log core lets by what
   the build has compiled in.                                                *)
Init ==
  /\ pc = "flush" /\ op = "boot" /\ want = BootLevel /\ awaiting_study = FALSE /\ held = 0
  /\ current_level = BootLevel /\ filter = [source \in Sources |-> DBG]
  /\ log_sink = FALSE /\ link_tx_mutex = "free"
  /\ pending = <<>> /\ lost = 0 /\ made = 0
  /\ lp = "idle" /\ line = NoLine
  /\ backlog = <<>> /\ backlog_dropped = 0 /\ gone = 0
  /\ log_panic_mode = FALSE
  /\ emitted = 0 /\ sent = 0 /\ reported = 0 /\ discarded = 0

LogThread ==
  \/ dev_bench_log_process \/ dev_bench_log_dropped \/ emit_line
  \/ backlog_put \/ SinkLock \/ log_backend_sink

MainThread ==
  \/ StudyEnds \/ log_flush \/ dev_bench_log_set_level \/ log_filter_set
  \/ MainLock \/ HelloAck \/ dev_bench_log_set_sink
  \/ TakeCount \/ ReportDropped \/ backlog_pop \/ SendHeld

Next ==
  \/ \E r \in Records : LogRecord(r)
  \/ LogThread
  \/ MainThread
  \/ handle_hello \/ dispatch_study
  \/ dev_bench_log_panic \/ PanicProcess

Spec == Init /\ [][Next]_vars

(* Each thread runs when the ones above it are blocked.                      *)
FairSpec == Spec /\ WF_vars(LogThread) /\ WF_vars(MainThread) /\ WF_vars(PanicProcess)

-----------------------------------------------------------------------------
(* Properties.                                                               *)

TypeOK ==
  /\ pc \in {"flush", "nap", "level", "filter", "idle", "study", "ack", "sink", "count", "report",
             "drain", "line"}
  /\ op \in {"boot", "hello", "study", "revert"} /\ want \in Levels
  /\ awaiting_study \in BOOLEAN /\ held \in Nat
  /\ current_level \in Levels /\ filter \in [Sources -> Levels]
  /\ log_sink \in BOOLEAN /\ link_tx_mutex \in {"free", "main", "log"}
  /\ pending \in Seq(Record) /\ Len(pending) <= BufferSlots /\ lost \in Nat /\ made \in Nat
  /\ lp \in {"idle", "emit", "park", "lock", "send"} /\ line \in Line
  /\ backlog \in Seq(Line) /\ Len(backlog) <= Depth
  /\ backlog_dropped \in Nat /\ gone \in Nat
  /\ log_panic_mode \in BOOLEAN
  /\ emitted \in Nat /\ sent \in Nat /\ reported \in Nat /\ discarded \in Nat

(* Every line the backend finished has reached the sink, is held for it, is in
   a thread's hand, has been counted as overwritten and reported, or is still
   to be reported; only a fatal error without a sink discards one.            *)
LinesAccounted ==
  /\ emitted = sent + reported + discarded + Len(backlog) + backlog_dropped + held
                + (IF lp = "idle" THEN 0 ELSE 1)
  /\ ~log_panic_mode => discarded = 0

(* The backlog holds the newest lines, oldest first: no line leaves it, to the
   sink or overwritten, before an older one.                                  *)
HeldInOrder ==
  /\ \A k \in DOMAIN backlog : gone < backlog[k].id
  /\ \A j, k \in DOMAIN backlog : j < k => backlog[j].id < backlog[k].id
  /\ lp # "idle" => \A k \in DOMAIN backlog : backlog[k].id < line.id

(* A study that asks for everything does not make the kernel trace the very
   forwarding of its records: none above the ceiling is made while it runs.   *)
NoFeedback ==
  pc = "study" => \A k \in DOMAIN pending :
                    pending[k].source = Kernel => pending[k].level <= KernelCeiling

(* Between studies the bench is at its idle level, whatever the last study
   asked for and however it ended.                                            *)
QuietWhenIdle == pc = "idle" => current_level = BootLevel

(* A study's verbosity is contained: it does not feed on the forwarding of its
   own records, and ends with the study.                                      *)
VerbosityContained == NoFeedback /\ QuietWhenIdle

(* A level is set and a Hello is served to its end: log_flush never waits for
   a log thread that waits for main.                                          *)
LevelIsSet == pc = "flush" ~> (pc \in {"idle", "study"} \/ log_panic_mode)

(* After a fatal error what is pending gets out, whoever holds the mutex.     *)
PanicGetsOut == log_panic_mode ~> (log_panic_mode /\ pending = <<>> /\ lost = 0)

(* Three threads, one mutex and a wait by polling: nothing hangs, in service or
   in a fatal error.                                                          *)
NothingHangs == LevelIsSet /\ PanicGetsOut

(* The comment in dev_bench_log_set_sink: with the sink installed before the
   flush no line goes into a backlog nobody will read again.                  *)
NothingStranded == pc \in {"idle", "study"} /\ log_sink => backlog = <<>>

(* Whenever main waits, for the pending records to be processed or for the
   mutex of the link, the log thread can take a step that brings it nearer:
   it never waits for main in turn.                                           *)
WaitersAreServed ==
  ~log_panic_mode =>
    /\ pc = "flush" /\ pending # <<>> => LogMayRun /\ (lp = "lock" => link_tx_mutex = "free")
    /\ pc \in {"ack", "report", "line"} /\ link_tx_mutex = "log" => LogMayRun /\ lp = "send"
    /\ link_tx_mutex = "main" => pc \in {"ack", "report", "line"}

(* What does hold of it: the one line that was on its way to the backlog when
   the sink was installed is all that can be left there after a Hello; however
   many more are served, every later line goes to the sink.                   *)
AtMostOneStranded == pc \in {"idle", "study"} /\ log_sink => Len(backlog) <= 1

(* The backlog does what it is for: it keeps the newest of the lines made
   before a host is there, in their order, and next to none after that.       *)
BacklogKeepsItsOrder == HeldInOrder /\ AtMostOneStranded
=============================================================================
