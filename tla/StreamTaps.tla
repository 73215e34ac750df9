----------------------------- MODULE StreamTaps -----------------------------
(***************************************************************************)
(* The capture pipeline of app/src/main.c: the BT RX thread queues GATT    *)
(* events, the transcript TX thread turns each into records on the open    *)
(* taps, and the dispatch thread opens and closes the taps around the      *)
(* steps of a study, drains the queue and declares the study done.         *)
(*                                                                         *)
(* The three threads and the log thread share one core under strict        *)
(* priorities (BT RX > dispatch > transcript TX > log), so a lower thread  *)
(* moves only while every higher one is blocked, and link_tx_mutex hands   *)
(* itself to its highest waiter with priority inheritance.                 *)
(***************************************************************************)
EXTENDS Naturals, Sequences, FiniteSets

CONSTANTS
  Studies,       (* the studies Core may send: their tap declarations and steps *)
  Entries,       (* the GATT events the bridge may emit                         *)
  Chars,         (* characteristic UUIDs                                        *)
  NoChar,        (* an event without a characteristic                           *)
  MaxTaps,       (* DBM_MAX_STREAMS_PER_STUDY                                   *)
  QueueDepth,    (* TRANSCRIPT_QUEUE_DEPTH                                      *)
  MaxEvents      (* bound: events of one study                                  *)

TapIds == 1..MaxTaps

Sources == {"gatt_notify", "power_front_end", "gatt_transcript", "dev_bench_log", "signal"}

TapDecl == [source : Sources, char : Chars \cup {NoChar},
            whole : BOOLEAN, from : Nat, to : Nat]

Study == {s \in [taps : Seq(TapDecl), steps : Nat] : Len(s.taps) <= MaxTaps}

(* `value` tells a notification or indication from the other event kinds.    *)
Entry == [char : Chars \cup {NoChar}, value : BOOLEAN, len : Nat]

(* A queued event, with the taps that were open for it.                      *)
Item == [entry : Entry, for : SUBSET TapIds]

ASSUME StreamTapsAssumption ==
  /\ Studies \subseteq Study
  /\ Entries \subseteq Entry
  /\ NoChar \notin Chars
  /\ MaxTaps \in Nat
  /\ QueueDepth \in Nat \ {0}
  /\ MaxEvents \in Nat

VARIABLES
  pc,                 (* where the dispatch thread is                           *)
  step,               (* the loop index of dispatch_study                       *)
  study,              (* study_taps and the steps                               *)
  change,             (* the arguments of the set_tap_open call being made      *)
  tap_open, tap_dropped, transcript_dropped,
  transcript_q,       (* queued items, each with the taps it was queued for     *)
  tx,                 (* where the transcript TX thread is                      *)
  held,               (* the item it has taken from the queue                   *)
  loaded,             (* a drop counter it has read and not yet stored          *)
  link_tx_mutex,      (* its owner                                              *)
  wire, reported,     (* what Core has been told of each tap                    *)
  delivered,          (* records Core has received on each tap                  *)
  offered,            (* events lost or queued while the tap was open for them  *)
  stray,              (* records of events that predate the tap's opening       *)
  due,                (* offered and stray events when the drain was over       *)
  events              (* events of this study so far                            *)

mainVars == <<pc, step, study, change>>
tapVars  == <<tap_open, tap_dropped, transcript_dropped>>
txVars   == <<tx, held, loaded>>
coreVars == <<wire, reported, delivered>>
ghosts   == <<offered, stray, due, events>>
vars     == <<mainVars, tapVars, transcript_q, txVars, link_tx_mutex, coreVars, ghosts>>

Zero     == [i \in TapIds |-> 0]
NoStudy  == [taps |-> <<>>, steps |-> 0]
NoChange == [tap |-> 0, open |-> FALSE, dropped |-> 0, back |-> "sync"]
Nothing  == [entry |-> [char |-> NoChar, value |-> FALSE, len |-> 0], for |-> {}]

Bump(f, S) == [i \in TapIds |-> IF i \in S THEN f[i] + 1 ELSE f[i]]

-----------------------------------------------------------------------------
(* Declarations.                                                             *)

is_ours(tap) == tap.source # "signal"

covers(tap, s) == tap.whole \/ (s >= tap.from /\ s <= tap.to)

Ours == {i \in DOMAIN study.taps : is_ours(study.taps[i])}

Transcripts == {i \in DOMAIN study.taps : study.taps[i].source = "gatt_transcript"}

(* Only the first declared transcript tap is served.                         *)
IsTranscriptTap(i) == i \in Transcripts /\ \A j \in Transcripts : i <= j

FedByNotify(i, e) ==
  /\ study.taps[i].source = "gatt_notify"
  /\ e.value
  /\ study.taps[i].char = e.char

(* The open taps an event belongs to, as notify_tap_wants, charge_drop_to_taps
   and the fan-out of transcript_tx_thread each work it out.                 *)
Listeners(e) ==
  {i \in DOMAIN study.taps : tap_open[i] /\ (IsTranscriptTap(i) \/ FedByNotify(i, e))}

(* A transcript record wraps the payload in a postcard envelope; a notify
   tap's record is the payload alone.                                        *)
MaxStreamChunkBytes == 256
Envelope(e) == IF e.char = NoChar THEN 1 + 2 + 2 + 1 + 1 ELSE 1 + 2 + 34 + 1 + 2
TranscriptFits(e) == Envelope(e) + e.len <= MaxStreamChunkBytes

Unencodable(e) ==
  {i \in Listeners(e) : IsTranscriptTap(i) /\ ~TranscriptFits(e)}

-----------------------------------------------------------------------------
(* Scheduling.                                                               *)

(* About to take link_tx_mutex.                                              *)
Sending == pc \in {"want", "result", "refuse", "notice", "done"}

MainBlocked ==
  \/ pc \in {"idle", "exec", "window", "nap", "bonds"}
  \/ Sending /\ link_tx_mutex \notin {"free", "main"}

(* A log thread that holds the mutex the dispatch thread waits for runs at
   the dispatch thread's priority.                                           *)
TxMayRun == MainBlocked /\ ~(Sending /\ link_tx_mutex = "log")

TxReady ==
  \/ tx = "get" /\ transcript_q # <<>>
  \/ tx \in {"lock", "send", "count", "charge"}

LogMayRun == MainBlocked /\ (Sending \/ ~TxReady)

(* Mutant: the mutex is given back and its waiter not woken.                  *)
ReleaseUnwoken == link_tx_mutex' = "free" /\ tx' = tx

(* k_mutex_unlock: the owner after the present one, and the TX thread's place. *)
ReleaseByMain ==
  IF tx = "pend"
  THEN link_tx_mutex' = "tx" /\ tx' = "send"
  ELSE link_tx_mutex' = "free" /\ tx' = tx

-----------------------------------------------------------------------------
(* The BT RX thread (and the dispatch thread inside ble_bridge_execute).      *)

RoomForOneMore == Len(transcript_q) <= QueueDepth
HasRoom == Len(transcript_q) < QueueDepth

TranscriptOnly(e) == {i \in Listeners(e) : IsTranscriptTap(i)}
charge_drop_to_taps(e) == Listeners(e)

transcript_sink_cb(e) ==
  /\ events < MaxEvents
  /\ Listeners(e) # {}
  /\ events' = events + 1
  /\ offered' = Bump(offered, Listeners(e))
  /\ \/ /\ HasRoom
        /\ transcript_q' = Append(transcript_q, [entry |-> e, for |-> Listeners(e)])
        /\ UNCHANGED <<tap_dropped, transcript_dropped>>
     \/ /\ ~HasRoom
        /\ transcript_dropped' = transcript_dropped + 1
        /\ tap_dropped' = Bump(tap_dropped, charge_drop_to_taps(e))
        /\ UNCHANGED transcript_q
  /\ UNCHANGED <<mainVars, tap_open, txVars, link_tx_mutex, coreVars, stray, due>>

(* A notification the protocol queue of the bridge lost before it became an
   event: charged to the notify taps alone.                                  *)
NotifyTapsOf(c) == {i \in DOMAIN study.taps : /\ tap_open[i]
                                              /\ study.taps[i].source = "gatt_notify"
                                              /\ study.taps[i].char = c}

ChargedUpstream(c) == NotifyTapsOf(c)

drop_sink_cb(c) ==
  /\ pc = "exec"
  /\ events < MaxEvents
  /\ NotifyTapsOf(c) # {}
  /\ events' = events + 1
  /\ offered' = Bump(offered, NotifyTapsOf(c))
  /\ tap_dropped' = Bump(tap_dropped, ChargedUpstream(c))
  /\ UNCHANGED <<mainVars, tap_open, transcript_dropped, transcript_q, txVars,
                 link_tx_mutex, coreVars, stray, due>>

-----------------------------------------------------------------------------
(* The transcript TX thread.                                                  *)

QueueAfterGet == Tail(transcript_q)

OwnerAfterTx == IF Sending THEN "main" ELSE "free"

TxGet ==
  /\ TxMayRun
  /\ tx = "get"
  /\ transcript_q # <<>>
  /\ held' = Head(transcript_q)
  /\ transcript_q' = QueueAfterGet
  /\ tx' = "lock"
  /\ UNCHANGED <<mainVars, tapVars, loaded, link_tx_mutex, coreVars, ghosts>>

TxLock ==
  /\ TxMayRun
  /\ tx = "lock"
  /\ IF link_tx_mutex = "free"
     THEN link_tx_mutex' = "tx" /\ tx' = "send"
     ELSE tx' = "pend" /\ UNCHANGED link_tx_mutex
  /\ UNCHANGED <<mainVars, tapVars, transcript_q, held, loaded, coreVars, ghosts>>

(* The fan-out, against the taps open now rather than when it was queued.     *)
TxSend ==
  LET failed == Unencodable(held.entry)
  IN /\ TxMayRun
     /\ tx = "send"
     /\ delivered' = Bump(delivered, Listeners(held.entry) \ failed)
     /\ stray' = Bump(stray, Listeners(held.entry) \ held.for)
     /\ IF failed = {}
        THEN /\ tx' = "get"
             /\ held' = Nothing
             /\ link_tx_mutex' = OwnerAfterTx
             /\ UNCHANGED loaded
        ELSE /\ tx' = "count"
             /\ held' = [held EXCEPT !.for = failed]
             /\ loaded' = transcript_dropped
             /\ UNCHANGED link_tx_mutex
     /\ UNCHANGED <<mainVars, tapVars, transcript_q, wire, reported, offered, due,
                    events>>

(* The two increments are not atomic: BT RX may count a loss between the
   load and the store.                                                       *)
TxCount ==
  /\ TxMayRun
  /\ tx = "count"
  /\ transcript_dropped' = loaded + 1
  /\ \E i \in held.for : loaded' = tap_dropped[i]
  /\ tx' = "charge"
  /\ UNCHANGED <<mainVars, tap_open, tap_dropped, transcript_q, held, link_tx_mutex,
                 coreVars, ghosts>>

TxCharge ==
  /\ TxMayRun
  /\ tx = "charge"
  /\ tap_dropped' = [i \in TapIds |-> IF i \in held.for THEN loaded + 1 ELSE tap_dropped[i]]
  /\ tx' = "get"
  /\ held' = Nothing
  /\ loaded' = 0
  /\ link_tx_mutex' = OwnerAfterTx
  /\ UNCHANGED <<mainVars, tap_open, transcript_dropped, transcript_q, coreVars,
                 ghosts>>

-----------------------------------------------------------------------------
(* The log thread borrows the link for a line of its own.                     *)

LogTake ==
  /\ LogMayRun
  /\ link_tx_mutex = "free"
  /\ link_tx_mutex' = "log"
  /\ UNCHANGED <<mainVars, tapVars, transcript_q, txVars, coreVars, ghosts>>

LogSend ==
  /\ LogMayRun
  /\ link_tx_mutex = "log"
  /\ IF Sending
     THEN link_tx_mutex' = "main" /\ tx' = tx
     ELSE ReleaseByMain
  /\ UNCHANGED <<mainVars, tapVars, transcript_q, held, loaded, coreVars, ghosts>>

-----------------------------------------------------------------------------
(* The dispatch thread.                                                       *)

(* Nothing is left of the last study when the next one arrives: the two link
   frames of a handshake take longer than discarding the backlog.            *)
BacklogSettled == transcript_q = <<>> /\ tx = "get" /\ link_tx_mutex = "free"

load_study_taps(s) ==
  /\ study' = s
  /\ tap_open' = [i \in TapIds |-> FALSE]
  /\ tap_dropped' = Zero

dispatch_study(s) ==
  /\ pc = "idle"
  /\ BacklogSettled
  /\ load_study_taps(s)
  /\ transcript_dropped' = 0
  /\ step' = 0
  /\ pc' = "sync"
  /\ wire' = [i \in TapIds |-> "none"]
  /\ reported' = Zero /\ delivered' = Zero /\ offered' = Zero /\ stray' = Zero
  /\ due' = Zero /\ events' = 0
  /\ UNCHANGED <<change, transcript_q, txVars, link_tx_mutex>>

(* The first tap, in index order, whose state is not `want`.                  *)
FirstOff(want) ==
  {i \in Ours : want[i] # tap_open[i] /\ \A j \in Ours : j < i => want[j] = tap_open[j]}

InLine(want) == \A i \in Ours : want[i] = tap_open[i]

WantedNow == [i \in Ours |-> covers(study.taps[i], step)]

(* The `dropped` argument is read here, before the mutex is taken.            *)
BeginChange(want, back) ==
  \E i \in FirstOff(want) :
    /\ change' = [tap |-> i, open |-> want[i], back |-> back,
                  dropped |-> IF want[i] THEN 0 ELSE tap_dropped[i]]
    /\ pc' = "want"
    /\ UNCHANGED <<step, study, tapVars, transcript_q, txVars, link_tx_mutex, coreVars, ghosts>>

sync_taps_for_step ==
  /\ pc = "sync"
  /\ \/ BeginChange(WantedNow, "sync")
     \/ /\ InLine(WantedNow)
        /\ \/ pc' = IF step < study.steps THEN "exec" ELSE "drain"
           \/ step = 0 /\ study.steps > 0 /\ pc' = "refuse"
        /\ UNCHANGED <<step, study, change, tapVars, transcript_q, txVars, link_tx_mutex,
                       coreVars, ghosts>>

(* StreamOpen or StreamClose goes out under the mutex ...                     *)
SendChange ==
  /\ pc = "want"
  /\ link_tx_mutex \in {"free", "main"}
  /\ wire' = [wire EXCEPT ![change.tap] = IF change.open THEN "open" ELSE "closed"]
  /\ reported' = [reported EXCEPT ![change.tap] = change.dropped]
  /\ pc' = "mark"
  /\ ReleaseByMain
  /\ UNCHANGED <<step, study, change, tapVars, transcript_q, held, loaded, delivered, ghosts>>

(* ... and only then, without it, the tap counts as open or closed.           *)
MarkChange ==
  /\ pc = "mark"
  /\ tap_open' = [tap_open EXCEPT ![change.tap] = change.open]
  /\ pc' = change.back
  /\ UNCHANGED <<step, study, change, tap_dropped, transcript_dropped, transcript_q, txVars,
                 link_tx_mutex, coreVars, ghosts>>

(* The step's delay and ble_bridge_execute are over.                          *)
StepEnds ==
  /\ pc = "exec"
  /\ pc' = "result"
  /\ UNCHANGED <<step, study, change, tapVars, transcript_q, txVars, link_tx_mutex, coreVars,
                 ghosts>>

(* A study may leave a capture window open, but for one that ran no step.    *)
LeftByLoop == IF pc = "refuse" /\ step = 0 THEN {"drain"} ELSE {"drain", "window"}

(* StepResult; then out of the loop, or on to the next step, whose protocol
   indices are checked before its windows are synchronised.                   *)
send_step_result ==
  /\ pc \in {"result", "refuse"}
  /\ link_tx_mutex \in {"free", "main"}
  /\ ReleaseByMain
  /\ \/ pc' \in LeftByLoop /\ step' = step
     \/ /\ pc = "result"
        /\ step' = step + 1
        /\ pc' \in IF step + 1 < study.steps THEN {"sync", "refuse"} ELSE LeftByLoop
  /\ UNCHANGED <<study, change, tapVars, transcript_q, held, loaded, coreVars, ghosts>>

(* The window left open is closed by a step of the bench's own ...            *)
CloseWindow ==
  /\ pc = "window"
  /\ pc' = "notice"
  /\ UNCHANGED <<step, study, change, tapVars, transcript_q, txVars, link_tx_mutex, coreVars,
                 ghosts>>

(* ... and a line of main's own says so.                                      *)
send_log_line ==
  /\ pc = "notice"
  /\ link_tx_mutex \in {"free", "main"}
  /\ ReleaseByMain
  /\ pc' = "drain"
  /\ UNCHANGED <<step, study, change, tapVars, transcript_q, held, loaded, coreVars, ghosts>>

QueueFull == Len(transcript_q) = QueueDepth
AllButOne == Len(transcript_q) <= 1
Drained == transcript_q = <<>>

Drain ==
  /\ pc = "drain"
  /\ IF Drained
     THEN /\ pc' = "close"
          /\ due' = [i \in TapIds |-> IF tap_open[i] THEN offered[i] + stray[i] ELSE 0]
     ELSE pc' = "nap" /\ UNCHANGED due
  /\ UNCHANGED <<step, study, change, tapVars, transcript_q, txVars, link_tx_mutex, coreVars,
                 offered, stray, events>>

NapEnds ==
  /\ pc = "nap"
  /\ pc' = "drain"
  /\ UNCHANGED <<step, study, change, tapVars, transcript_q, txVars, link_tx_mutex, coreVars,
                 ghosts>>

CoveredPastTheEnd == [i \in Ours |-> covers(study.taps[i], study.steps)]
Shut == [i \in Ours |-> FALSE]

close_all_taps ==
  /\ pc = "close"
  /\ \/ BeginChange(Shut, "close")
     \/ /\ InLine(Shut)
        /\ pc' = "bonds"
        /\ UNCHANGED <<step, study, change, tapVars, transcript_q, txVars, link_tx_mutex,
                       coreVars, ghosts>>

(* ble_bridge_clear_bonds waits for the peer to go.                           *)
clear_bonds ==
  /\ pc = "bonds"
  /\ pc' = "done"
  /\ UNCHANGED <<step, study, change, tapVars, transcript_q, txVars, link_tx_mutex, coreVars,
                 ghosts>>

send_study_done ==
  /\ pc = "done"
  /\ link_tx_mutex \in {"free", "main"}
  /\ ReleaseByMain
  /\ pc' = "idle"
  /\ UNCHANGED <<step, study, change, tapVars, transcript_q, held, loaded, coreVars, ghosts>>

-----------------------------------------------------------------------------
Init ==
  /\ pc = "idle" /\ step = 0 /\ study = NoStudy /\ change = NoChange
  /\ tap_open = [i \in TapIds |-> FALSE]
  /\ tap_dropped = Zero /\ transcript_dropped = 0
  /\ transcript_q = <<>>
  /\ tx = "get" /\ held = Nothing /\ loaded = 0
  /\ link_tx_mutex = "free"
  /\ wire = [i \in TapIds |-> "none"]
  /\ reported = Zero /\ delivered = Zero /\ offered = Zero /\ stray = Zero
  /\ due = Zero /\ events = 0

Sinks == (\E e \in Entries : transcript_sink_cb(e)) \/ (\E c \in Chars : drop_sink_cb(c))

TxThread == TxGet \/ TxLock \/ TxSend \/ TxCount \/ TxCharge

DispatchThread ==
  \/ sync_taps_for_step \/ SendChange \/ MarkChange
  \/ StepEnds \/ send_step_result \/ CloseWindow \/ send_log_line
  \/ Drain \/ NapEnds \/ close_all_taps \/ clear_bonds \/ send_study_done

Next ==
  \/ Sinks
  \/ TxThread
  \/ LogTake \/ LogSend
  \/ \E s \in Studies : dispatch_study(s)
  \/ DispatchThread

Spec == Init /\ [][Next]_vars

(* The dispatch thread runs whenever it can; its sleeps give the TX and log
   threads the processor again and again.                                    *)
FairSpec ==
  /\ Spec
  /\ WF_vars(DispatchThread)
  /\ SF_vars(TxThread)
  /\ SF_vars(LogSend)
-----------------------------------------------------------------------------
(* Properties.                                                                *)

TypeOK ==
  /\ pc \in {"idle", "sync", "want", "mark", "exec", "result", "refuse", "window",
             "notice", "drain", "nap", "close", "bonds", "done"}
  /\ step \in Nat
  /\ study \in Study
  /\ change \in [tap : Nat, open : BOOLEAN, dropped : Nat, back : {"sync", "close"}]
  /\ tap_open \in [TapIds -> BOOLEAN]
  /\ tap_dropped \in [TapIds -> Nat]
  /\ transcript_dropped \in Nat
  /\ transcript_q \in Seq(Item)
  /\ Len(transcript_q) <= QueueDepth
  /\ tx \in {"get", "lock", "pend", "send", "count", "charge"}
  /\ held \in Item
  /\ loaded \in Nat
  /\ link_tx_mutex \in {"free", "main", "tx", "log"}
  /\ wire \in [TapIds -> {"none", "open", "closed"}]
  /\ reported \in [TapIds -> Nat]
  /\ delivered \in [TapIds -> Nat]
  /\ offered \in [TapIds -> Nat]
  /\ stray \in [TapIds -> Nat]
  /\ due \in [TapIds -> Nat]
  /\ events \in Nat

(* What Core sees of each tap is an ordered capture: records only between the
   StreamOpen and the StreamClose, although the TX thread, which sends them,
   reads tap_open[] that the dispatch thread updates only after it has sent
   the StreamClose.                                                          *)
Link == INSTANCE CaptureLink WITH
          running <- pc # "idle", tap <- wire, records <- delivered

LinkSpec == Link!Spec

(* Why the records stay inside their windows: tap_open[] and what Core has
   been told agree but for the one tap between its frame and its mark; a tap
   is announced once its window is reached and closed in mid-study only when
   the window is past, so it is never announced again; and no tap is left open
   when the closing is over.                                                  *)
Reached(i) == study.taps[i].whole \/ step >= study.taps[i].from
Past(i)    == ~study.taps[i].whole /\ step > study.taps[i].to
Changing   == pc \in {"want", "mark"}
Closing    == pc \in {"close", "bonds", "done", "idle"} \/ (Changing /\ change.back = "close")

WireAgrees ==
  /\ \A i \in TapIds : (pc = "mark" /\ change.tap = i) \/ (tap_open[i] <=> wire[i] = "open")
  /\ pc = "mark" => wire[change.tap] = IF change.open THEN "open" ELSE "closed"

WindowsInOrder ==
  /\ \A i \in TapIds : wire[i] # "none" => i \in Ours /\ Reached(i)
  /\ \A i \in TapIds : wire[i] = "closed" => Closing \/ Past(i)

ChangeIsDue ==
  Changing => /\ change.tap \in Ours
              /\ change.open => change.back = "sync" /\ Reached(change.tap)
              /\ ~change.open => Closing \/ Past(change.tap)
              /\ pc = "want" => wire[change.tap] = IF change.open THEN "none" ELSE "open"

AllShut == pc \in {"bonds", "done", "idle"} => \A i \in TapIds : wire[i] # "open"

LinkInv == WireAgrees /\ WindowsInOrder /\ ChangeIsDue /\ AllShut

(* Items on their way to tap i.                                              *)
InFlight(i) ==
  Cardinality({k \in DOMAIN transcript_q : i \in transcript_q[k].for})
    + (IF tx # "get" /\ i \in held.for THEN 1 ELSE 0)

(* A tap never owns up to more losses than it had, in its counter or in its
   StreamClose: records sent, losses counted and events still on their way are
   at most the events it got.                                                *)
NeverOverCounts ==
  \A i \in TapIds :
    /\ delivered[i] + tap_dropped[i] + InFlight(i) <= offered[i] + stray[i]
    /\ wire[i] = "closed" => delivered[i] + reported[i] + InFlight(i) <= offered[i] + stray[i]

(* While a tap is open, an event that it got and that is neither sent nor
   still on its way shows in tap_dropped, which Core compares with zero: the
   unlocked increments of two threads may lose a count but never all of it.  *)
LossNeverReadsZero ==
  \A i \in TapIds :
    /\ tap_open[i]
    /\ offered[i] + stray[i] > delivered[i] + InFlight(i)
    => tap_dropped[i] > 0

(* Whenever the transcript tap counts a loss, the end of the study says that
   the transcript is not exhaustive.                                         *)
TranscriptLossIsAnnounced ==
  \A i \in DOMAIN study.taps :
    IsTranscriptTap(i) /\ tap_dropped[i] > 0 => transcript_dropped > 0

(* A tap that opens in mid-study starts with at most one queue's worth of
   records from before its window.                                           *)
StrayBounded == \A i \in TapIds : stray[i] <= QueueDepth + 1

(* What a tap's count of losses is worth to Core: it is never too large, never
   zero after a loss, and a window's own records are what it is about.        *)
CountsAreHonest == NeverOverCounts /\ LossNeverReadsZero /\ StrayBounded

(* Every event that a tap open to the end had got when the drain was over is
   on the wire before the tap's StreamClose, unless that reports a loss: what
   the comment above close_all_taps in dispatch_study says the drain is for.  *)
CloseIsComplete ==
  \A i \in TapIds :
    wire[i] = "closed" /\ reported[i] = 0 => delivered[i] >= due[i]

(* What the drain does achieve: of the events that a tap open to the end had
   got when it was over, a StreamClose that admits no loss is short of one
   record at most, the one the TX thread had in its hands.                    *)
CloseLosesAtMostOne ==
  \A i \in TapIds :
    wire[i] = "closed" /\ reported[i] = 0 => delivered[i] + 1 >= due[i]

(* No loss is passed over in silence, but for that one record: a capture that
   is short says so in its StreamClose, and the transcript's losses are told
   once more at the end of the study.                                         *)
LossReachesCore == TranscriptLossIsAnnounced /\ CloseLosesAtMostOne

(* Whenever the dispatch thread waits for another, for link_tx_mutex or for the
   queue to be drained, that one can run: the TX thread has a step to take, or
   the log thread has the mutex and gives it back.                            *)
WaitersAreServed ==
  \/ Sending /\ link_tx_mutex \notin {"free", "main"}
  \/ pc = "nap" /\ transcript_q # <<>>
  => (TxMayRun /\ TxReady) \/ (LogMayRun /\ link_tx_mutex = "log")

(* Every study ends, whatever the queue holds when its steps are over, and what
   the sink accepted is taken off the queue.                                  *)
StudyEnds ==
  /\ pc # "idle" ~> pc = "idle"
  /\ transcript_q # <<>> ~> transcript_q = <<>>
=============================================================================
