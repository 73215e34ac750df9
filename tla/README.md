# Verification of embarch-dev-bench

TLA+ models of the dev-bench firmware (`app/`, a Zephyr application that runs
studies against a BLE device) and of the USB-PD bench (`pd-bench/`), the TLC
configurations that check them on small instances, and TLAPS proofs of what
matters most for every value of the constants. Paths below are relative to the
repository; `ble_bridge_real.c`, `main.c` and the like are those of `app/src/`
unless said otherwise.

    tlc -config MCStreamTaps.cfg MCStreamTaps      # likewise for each run below
    tlapm StreamTapsProofs.tla                     # likewise for each *Proofs module

## 1. Inventory

Core (the host) sends a `Hello`, then one `StudyStart`; the bench runs the study's
steps one by one, streams captures while it does, and ends with a `StudyDone`.

| Component | State | Operations | Interacts with |
|---|---|---|---|
| Session and study dispatch (`main.c`) | `awaiting_study`, step index, `completed` | `handle_hello`, `dispatch_study`, `send_step_result`, `send_study_done` | the bridge (calls), taps, log backend, the link |
| Stream taps and GATT transcript (`main.c`) | `study_taps`, `tap_open`, `tap_dropped`, `transcript_dropped`, `transcript_q`, `link_tx_mutex` | `transcript_sink_cb` (BT RX), `transcript_tx_thread`, `sync_taps_for_step`, `set_tap_open`, `close_all_taps` | three threads over one queue, one mutex and unlocked counters |
| Link receive path (`main.c`) | `link_rx_ring`, overrun counters | `link_uart_isr`, `receive_message` | the UART interrupt fills what dispatch reads |
| Wire codec (`serial_protocol.c`) | none | postcard, COBS, CRC-32 and the two seals | called under `link_tx_mutex` and by `receive_message` |
| Log backend (`dev_bench_log.c`) | `current_level`, `log_sink`, backlog, `log_panic_mode` | `process`, `dropped`, `panic`, `set_sink`, `set_level` | log thread, dispatch thread, the faulting context |
| EAP interpreter (`eap_interp.c`) | `struct eap_run` | `eap_run_start`, `_enter`, `_on_event`, `_abandon` | a pure machine driven by RunProtocol |
| RunProtocol (`ble_bridge_real.c`) | `protocol_notify_q`, its subscriptions and drop counter | `execute_run_protocol`, `protocol_notify_cb` | BT RX (callbacks), the interpreter |
| Connect, advertise, security, unbond (`ble_bridge_real.c`) | `active_conn`, `pending_conn`, semaphores, `link_lost` | `execute_connect`, `execute_set_security`, ... | stack callbacks on BT RX |
| Data exchange (`ble_bridge_real.c`) | `subscribe_params`, `handle_cache`, `captured` | read, write, notify, indicate, stream capture | the same |
| Discovery and capture window (`ble_bridge_real.c`) | `discovered`, `monitor_subscribe_params`, `monitor_window_open` | `monitor_subscribe_matching`, `execute_gatt_monitor_*` | subscriptions outlive the step that made them |
| Scan census (`ble_bridge_real.c`, `scan_seen_*.c`) | `scan_seen`, `scan_seen_len` | scan callback, summary | BT RX writes, dispatch reads |
| PD bench (`pd-bench/src/main.c`) | sink contract, keepalive, swap and source-path state under one spinlock | stack callbacks, shell commands, work items | callback thread, shell thread, work queue |
| TCPP03 (`pd-bench/src/tcpp03.c`) | switch and fault state | enable, disable, fault work | interrupt, work queue, source path |

Bridge stub, study FFI, shell parsing, tests and board files keep no state that
a property here is about.

What is hard in this code: threads of different priority sharing counters without a
lock, stack callbacks that run at any moment of a blocking step, values read before a
lock or a sleep and used after it, bounded queues that overflow, timeouts that race
the answers they wait for, and state that outlives the step that made it. The
`hazards` of `PROJECT.json` list them at their lines.

What makes each component correct: a capture is an ordered sequence between its
open and its close, and whatever it lost is admitted; every step and every study ends; a
protocol's verdict says what happened and its machine sees this run's frames in
order; no log line vanishes uncounted and no study leaves its verbosity behind; a window's
subscriptions end with the window; a census reports what it saw; a source path is never
closed against a fault.

## 2. Modules

| Module | Models |
|---|---|
| `CaptureLink` | abstract: what Core may rely on when it reads the captures of a study |
| `StreamTaps` | taps, transcript queue, TX thread, dispatch thread's step loop; implements `CaptureLink` |
| `EapInterp` | the EAP interpreter, as operators on a run |
| `ProtocolWalk` | abstract: what a protocol declaration promises its author of one step |
| `RunProtocol` | a RunProtocol step around `EapInterp`: BT RX, queue, deadlines, verdict; implements `ProtocolWalk` |
| `LogBackend` | log core, log thread, dispatch thread, panic |
| `MonitorWindow` | discovery, subscribing, capture windows and who gives their subscriptions back |
| `BleLink` | advertise, connect in both roles, security, data exchange, unbond and the reset of a Hello, against the connection callbacks |
| `PdBench` | the PD bench: Requests, contracts, keep-alive, swaps and asks under one spinlock |
| `SourcePath` | the PD bench's provider path and the fault work of the TCPP03 |
| `MC*` | the small instances; nothing but the values of constants |
| `*Proofs`, `StreamTapsLink` | theorems and their lemmas |

The names of actions and variables are those of the C functions and statics they
stand for; `PROJECT.json` maps every definition to its lines.

### StreamTaps

The BT RX thread queues an event for the taps open at that moment (or charges the loss
to them); the TX thread takes it, waits for the mutex, looks again at which taps are
open, encodes and sends; the dispatch thread opens and closes taps around the steps, polls
the queue at the end, closes what is left and says `StudyDone`. Priorities are those of the
build (BT RX over dispatch over TX over log): a thread moves only while those above
it are blocked, and the mutex hands itself to its highest waiter. What is *not* protected by
the mutex is interleaved as the code has it: the unlocked read-modify-write of
`tap_dropped` is a load (`tx = "count"`, `"charge"`) and a store, and `set_tap_open`
reads the dropped count before it waits for the mutex and writes `tap_open` after it gave
it back. An event is its characteristic, its kind and its length; the length matters only
to whether it encodes. A capture window the study left open is closed by the bridge before the
drain, and the line that says so goes out under the mutex (`CloseWindow`, `send_log_line`): one more
wait in which the tap's events keep coming. A comment (`main.c:1508-1511`) has `clear_bonds` before the
drain of the transcript; the code calls it after, and so does the model. `wire`, `delivered`, `reported` are what Core has been told;
`offered`, `stray`, `due` are history.

### EapInterp and RunProtocol

The interpreter is a set of operators from a run to `[run, step]`, one per entry point
of `eap_interp.c`; operands and comparisons are abstracted to the set of (session,
payload) pairs for which a guard holds, and a write operand to whether it resolves. A
definition is assumed `WellFormed`: its goto targets exist. Core validates that; the firmware's own decoder
does not look at them, and `eap_run_start` looks at `entry_state` alone. A timeout of zero, which the
decoder lets through, is within the proofs (`after_ms` is any natural number) and not in the instance.
`RunProtocol` walks
`execute_run_protocol`: resolve the sources, subscribe, enter, then write, wait, take a
frame or a deadline, feed the machine. A notification goes straight to a waiting thread and
is queued otherwise, dropped and counted when the queue is full, and thrown away unseen when it
precedes its slot being counted. Time is in ticks and passes only while the dispatch
thread waits for something that is not due: computing takes no time. A call on a lost link is
a refused call. Discovery is one step that passes, fails, times out or loses the link.
Left out: `-EALREADY` and the stack's own list of subscriptions.

`ProtocolWalk` knows neither queue nor clock nor instruction: a declared graph, the state the machine
is in, how often it was entered again, its write, how many notifications are on their way, and the
report. The refinement reads the phase and the owed write off `pc` and the interpreter's
instruction (`Phase`, `Mail`), the notifications off the queue and the frame in hand (`Inbox`), and the graph
off the definition (`Graph`).

### LogBackend

Main's priority is above the log thread's, which runs only while main waits for a message
or a step, is inside `log_flush`, or waits for the mutex the log thread holds. Records are
a source and a level; a record is one line. The log core is external: a runtime filter per
source, a buffer that overwrites its oldest and counts, and a `log_flush` that polls until
nothing is pending and sleeps once more. The kernel, the application and printk have the rules
of `record_passes` and of the filter loop of `dev_bench_log_set_level`, which
are two different pieces of code and are modelled as two. The lines of the backlog are numbered
as they are finished, which is history. Left out: the assembly and truncation of lines,
`set_sink(NULL)` (only the unit tests call it), main's own `send_log_line`, which bypasses the
backend, and the TX thread's use of the mutex, which only delays.

### MonitorWindow

The dispatch thread runs a study's steps; each step that discovers or subscribes is taken apart
at the places where BT RX can come between: the discovery, each CCC write, the moment between
the end of a wait and `abandon`, each unsubscribe. A slot is an element of
`monitor_subscribe_params`, `listed` the slots the stack has a pointer to. It holds a slot from
the answer to its CCC write until it is unsubscribed or the link goes; those of a bonded
peer stay until the bond goes (the comment in `ensure_subscribed`). `memset` of a slot that is listed cuts
the stack's list there, so which slots behind it are still found is left open. Any step but
these is `OtherStep`. `orphaned` is history: a slot is listed and no window or step will give it
back. `filed` says what the last notification was filed as, against the characteristic it
was of; one that comes between the answer to its CCC write and the counting of its slot is filed under the
slot being filled, whichever that is (`stray`), and the properties say nothing of it. Left out: the grouping of characteristics into services, the limits of
`discovered`, a notification's value.

### BleLink

The dispatch thread takes a step, goes through the places of its functions (`at`), waits on one of
the six semaphores and gives up at its deadline; BT RX is above it and its callbacks come between
any two places. `scan_cb` itself waits twice, for the scan to stop and in
`bt_conn_le_create`, and the dispatch thread runs then (`rx`). A step is its kind and the peer it
is for. There are two connection objects, as `BT_MAX_CONN` has it, each free, being made, being cancelled,
up or being closed; a cancelled one may be up already. The stack keeps one security procedure, of the
bridge or of the peer, and one GATT request. Time is open: a wait may end whenever nothing was given.
Conventions: one characteristic; a read stands for a write, which has the same shape; a subscribe
step is the first half of an await; a call without a connection fails. `scan_cb` may fail to stop the
scan, which then goes on; the stops of a timeout and of a reset, whose results the code ignores, succeed.
The filters of `scan_cb` are the statics the last step left (`scan_target`). `bt_gatt_subscribe` may return
`-EALREADY`, and the stack may refuse the disconnect of a reset. `lost`, `cut`, `late`, `refused`,
`intruded` and `fresh` are history.

What the properties exempt is real behaviour of the code: `connect_as_central` does not look
whom it has got, so a stranger that answers advertising left on, or a connection the step before gave up,
makes it pass (`intruded`, which the step's own target never sets, and which excuses no
`connect_as_peripheral`); a disconnect the stack refuses leaves the link up (`refused`); a loss under a CCC
write is reported as `fail`, in the words of a characteristic without a CCC (`cut`); and a second link, of which the bridge has no pointer, survives a reset
(`late`). Behaviour the model contains and no property forbids, since nothing in the repository promises otherwise:
`handle_cache.valid` and `subscribed` are set after the last look at the link, so they may be
true of a link that has gone; `advertising` is set after the advertising has started, when it may have been
answered already; `k_sem_reset` of `conn_sem` can throw away the give of an earlier connection; a stream capture
clears `link_lost` and its semaphore after the link went, so that a capture whose link goes
between the CCC answer and there runs its time and passes. One such behaviour a comment does speak against: `await_notification` is to
wait "for a value pushed after the step began", yet a disconnect of the second link between the start of the step and the
clearing of `link_lost` in its discovery leaves `notify_sem` given and the flag down, and the await passes with nothing pushed.

### PdBench

A section under `self.lock` is one step, and what a callback or a command does after it gave the lock back is
another (`call`, `shell`): arming the keep-alive, queueing a request, taking a PR_Swap back. The USB-C stack's thread, the shell
and the work queue interleave freely. The stack is external: `pe` is its Policy Engine as far
as the callbacks tell; `queue` is what `usbc_request` holds for it, which it looks at before its own
machines and drops what it cannot act on. Timers fire whenever they are armed, but the swap window
does not end while a PR_Swap moves VBUS: `SWAP_WINDOW_MS` is longer than the PD timers of a swap. A PDO is its
kind, voltages and current, in mV and mA: the steps of 10, 20 and 50 of the wire are left out with their rounding.
A Request for a position outside the capabilities has `NoPdo`, where the code has what an earlier partner left at that
position; the positions that reach it are in range. `pd ask` is its two sections, the question and the wait for
its semaphore. `overtaken`, `alone` and `ask_crossed` are history. Left out: what only `pd status` prints (outcome words, `rp_ma`, `pd_connected`,
counters), the dual-role-data bit, VCONN, argument parsing.

### SourcePath

`source_on` and `source_off` run on the stack's thread and sleep between the writes to the TCPP03; the
fault work of the system queue runs before that thread whenever it can run at all, and both take the chip's mutex for their
writes. Places of the two are `at` and `fw`. Any I2C transfer may fail, CN3 may come and go, a fault may fall at any moment. A poll of
VBUS is one step that succeeds or times out. `fell`, `errors`, `lost` and `dark` are history.

## 3. Runs

Every passing run checks one type invariant and the properties below; each
property has a mutant of the code in `PROJECT.json` that it catches.

**`stream_taps`** (403 000 states). Two studies of two steps with two or three taps (a
whole-study transcript, a tap of Core's own, windows over one step, a whole notify tap),
three kinds of event, a queue of one (the proofs below are for every depth), four events a study:
enough for the queue to overflow between the TX thread's load of a tap's counter and its store, which loses what was counted in between.
`LinkSpec`: refinement of `CaptureLink`, with `LinkInv` saying why.
`CountsAreHonest`: a tap never admits more losses than it had; though increments may be lost between
two threads, a tap with a loss never reads zero; a tap opened in mid-study starts with at most one queue of
older events. `LossReachesCore`: a loss of the transcript tap is also announced at the end of the
study (`TranscriptLossIsAnnounced`); the drain does not always wait for the last event (`stream_taps_drain` below), but
a close that admits no loss is short of one at most (`CloseLosesAtMostOne`). `WaitersAreServed`: while the dispatch thread waits for the mutex or
for the queue, the TX thread has a step to take or the log thread gives the mutex back. `StudyEnds`: every study ends and what the sink accepted leaves the queue.

**`run_protocol`** (406 000 states). Two protocols (a retried request followed by a
watched pump; an acknowledged stream over two characteristics with a write that cannot
be encoded), one after the other, two queue slots (the code has four), up to four
frames, a DUT that notifies, answers, rejects, stays silent or disconnects.
`EveryFrameAccounted`, `FramesInOrder` (the machine is fed frames in the order they came, the queue
holds them in that order, and none is left over from an earlier run),
`TimeoutsAreKept` (the step's deadline holds, and a state's timeout is neither early, nor forgotten, nor
repeated beyond its retries), `VerdictIsEarned`, `RunEnds`. `WalkSpec`: refinement of `ProtocolWalk`.

**`log_backend`** (306 000 states). Four kinds of record, studies at OFF and at DBG, Hellos, a fatal error
at any moment; backlog of two (eight in the code), buffer of two, four records.
`LinesAccounted`: a finished line is sent, held, in one thread's hand, or in a count that
is or will be reported. `BacklogKeepsItsOrder`: the backlog holds the newest lines, oldest first (`HeldInOrder`), and what `log_backend_stranded`
below finds is one line at most, however many Hellos follow (`AtMostOneStranded`).
`VerbosityContained`: a study never makes the kernel trace the forwarding of its own records (`NoFeedback`), and its
level does not outlive it (`QuietWhenIdle`). `NothingHangs`: `log_flush` and the log
thread never wait for each other, and what is pending at a fatal error gets out.

**`monitor_window`** (743 000 states). Seven studies over a DUT of four characteristics, one of
which cannot notify, and two slots (32 in the code): a window around a step, one re-armed, one left
open over a discovery and a reconnection, captures before and inside a window, targets that are missing or
cannot notify, a bond made and dropped inside a window; the DUT rejects or delays any CCC write and the link
may go at any moment. `OrphansHaveACause`: the stack never holds a slot that is not counted, but
for four ways named there. `NothingStaysArmed`: between windows (`NothingArmedWhenClosed`), and
between studies (`WindowEndsWithStudy`), nothing is armed but what was lost in one of those ways. `FiledUnderItsOwn`: a notification of
a counted slot is filed under its own characteristic, or under none. `StudyEnds`.

**`ble_link`** (1 888 000 states). Two connection objects, a DUT and a stranger, six studies of three to
five steps, most with a Hello behind them, three connections that come up. `LossIsNamed`: a step whose link goes while it waits for
a GATT answer, a value, a security procedure or the end of a capture ends with `disconnected`, and one whose link goes under a CCC
write with `fail`; none passes or times out. `NoLostElevation`: a security step never sleeps on a link that is secure
already. `ResetLeavesNothing`: after the reset of a Hello nothing is connected and nothing can connect any more
(`ResetIsHard`), and the write whose parameters the reset zeroes (`ble_link_params` below) goes with the link
the reset ends, late as that may be (`WriteDiesWithLink`).
`PassNamesTarget`: a connect step for one peer passes with that peer, as a peripheral whoever else comes in, as a
central unless a device it is not for came in by itself.

**`pd_bench`** (4 640 000 states). A partner with two sets of capabilities that attaches twice in either role, changes
its capabilities, rejects, waits, swaps, resets and leaves; seven command sequences of the host; one
fault; a request queue of one. `RequestNamesHeldPdo`: a Request names a PDO the source offers now and stays
within it. `KeepaliveArmed`: a PPS contract is never left without its keep-alive. `PartnerForgotten`: of
a partner that is gone nothing is left, no swap, window, capabilities or contract; a DR_Swap is pending then only if the host
typed it with nobody there (`alone`), which `cmd_drswap` does not refuse and which the next partner's Reject will pass for an answer to.
`AnswerIsTheAsked`: `pd ask` takes no answer to an earlier question, but for one whose semaphore was still to be given when the
shell reset it. `SwapIsCovered`: the VBUS loss of a PR_Swap is not taken for a
detach. `SourceContractFits`: as a source the bench agrees only to what it offered.

**`source_path`** (475 000 states). Two faults and two failed transfers at any moment of attaches, swaps, Hard
Resets and ErrorRecovery. `GateSwap`: the provider path closes only from both paths
open. `VbusStaysOff`: once `source_off` has returned 0, VBUS is off until the stack calls again.
`TroubleIsOwed`: a fault (`FaultIsOwed`), and a Hard Reset (`ResetIsOwed`), that is not over has work due,
ErrorRecovery requested, or a request that could not be queued, whichever transfer failed. `TroubleEnds`: a fault under a
sourcing port ends its attach, unless ErrorRecovery could not be queued (`FaultEndsAttach`), and a Hard Reset comes to an end
(`HardResetEnds`).

Five runs show the code at variance with a comment; each property states the
comment and TLC finds the code's counterexample:

| Run | Property | What it shows |
|---|---|---|
| `stream_taps_drain` | `CloseIsComplete` | the drain looks at the queue only; an item in the TX thread's hand is overtaken by the `StreamClose` and lost without the close's count saying so |
| `run_protocol_deadline` | `TimeoutCountsFromEntry` | a frame that leads nowhere restarts a state's timeout in full |
| `monitor_window_orphans` | `WindowOwnsItsSubscriptions` | a capture step inside an open window counts slots from zero: the window's subscriptions are never given back |
| `log_backend_stranded` | `NothingStranded` | a line whose sink was read before the sink was installed is parked in a backlog already drained |
| `ble_link_params` | `ParamsOutliveWrite` | the reset of a Hello zeroes `subscribe_params` while the CCC write it has just sent is unanswered |

### Bounds

Each bound is small but reaches its case: two studies run back to back without reset (`events`
restarts), so leftovers of one meet the next; queues of one or two overflow, drain and
overflow again; three taps give one always open, one windowed and one that is none of
the bench's; four frames against two slots give taken, queued, handed over, dropped and unseen in
one run; four log records fill buffer and backlog and overwrite in both; two slots for three characteristics
reach the limit and leave a second slot for what the first one's reuse does to it. `MaxEvents`,
`MaxFrames` and `MaxRecords` bound history counters and inputs only; no property depends on
reaching them. A flood of records that never ends is outside `NothingHangs`: `log_flush` would
then wait on it. Three links over two connection objects give one abandoned, one of a stranger
and one more; two attaches let what a partner left meet the next; a request queue of one is
full at the second request, so every caller meets a refusal; one fault is an ErrorRecovery asked for in every
state of the Policy Engine; two faults give one that falls while the work for the other runs, and two failed transfers one in a
turn-on and one in its undoing. `ble_link` and `pd_bench` do not check deadlock: their studies and
command sequences end, and nothing need happen then.

### Fairness

`StreamTaps`: weak fairness of the dispatch thread; strong fairness of the TX thread and of the
log thread's release of the mutex, since higher threads keep interrupting them but block
again and again (every poll of the drain sleeps 5 ms). `RunProtocol`: weak fairness of the
dispatch thread and of time. `LogBackend`: weak fairness of main, of the log thread
and of panic processing. `MonitorWindow`: weak fairness of the dispatch thread alone, since each of its
waits has a deadline. `SourcePath`: weak fairness of the fault work and of the switching functions, whose waits all have a
deadline; of the timer of a Hard Reset; and of what the stack does in any case: `src_recovered` when that timer is over, and the
end of the attach when ErrorRecovery is requested. `PdBench` and `BleLink` state safety only. No environment action (an
event, a record, a `Hello`, a crash, a fault, a peer) is fair.

## 4. Proofs

TLAPS proves, for every value of the constants the ASSUMEs admit (any depths, sets of studies,
taps, protocols, records, peers, connections, capabilities and commands, and any number of events):

| Theorem | Property | Argument |
|---|---|---|
| `StreamTapsProofs!TypeCorrect` | `TypeOK` | inductive as it stands |
| `StreamTapsLink!LinkCorrect` | `LinkInv` | flag and wire agree but for the one tap being changed; windows are passed in order; a change is asked for only when due |
| `StreamTapsLink!CaptureIsOrdered` | `LinkSpec` | step simulation from `LinkInv` |
| `StreamTapsLink!CountsHonest` | `CountsAreHonest` | `Ledger`: the books of every tap also while its change or a charge is in hand; a tap not yet opened has empty ones (`Unopened`), and items queued before it opened are at most a queue's (`Stale`) |
| `StreamTapsLink!LossesReachCore` | `LossReachesCore` | from `TranscriptLossAnnounced` (`AnnouncedFirst`: the transcript's counter is raised before or with the tap's, also between the TX thread's load and store) and `ClosesNearlyComplete` (`LossShows`: a tap short by more than one has counted a loss, also while its close is in hand) |
| `StreamTapsProofs!NobodyIsStuck` | `WaitersAreServed` | `Handover`: who has the mutex follows from where the threads are |
| `RunProtocolProofs!ProtocolTypeCorrect` | `TypeOK` | lemmas on every operator of `EapInterp` |
| `RunProtocolProofs!FramesAccounted` | `EveryFrameAccounted` | `Accounted`: the sum, with the frame in hand tied to `pc` |
| `RunProtocolProofs!FramesOrdered` | `FramesInOrder` | `Numbered`: no frame is newer than the last that arrived, a waiting thread leaves none in the queue, and none can come while sources are resolved |
| `RunProtocolProofs!TimeoutsKept` | `TimeoutsAreKept` | `Kept`: a wait begins only with time left in the state it has entered (`AboutToWait`, `InWait`), and retries are counted where they are made (`Tried`); the step's deadline by `DeadlineHolds` (`InTime`: a wait's end never exceeds the step's deadline) |
| `RunProtocolProofs!MachineWalks` | `WalkSpec` | step simulation from `Followed` (the instruction about to be followed suits the state the machine is in) and `Earned`; lemmas on the interpreter's entry points say which move of the graph each makes |
| `RunProtocolProofs!VerdictsEarned` | `VerdictIsEarned` | `Earned`: the machine's outcome is honest at every step (`*Honest` lemmas), and pc decides who may report it |
| `LogBackendProofs!LogTypeCorrect` | `TypeOK` | inductive as it stands |
| `LogBackendProofs!LinesAreAccounted` | `LinesAccounted` | `Counted`: adds what main holds at each place (`InHand`) |
| `LogBackendProofs!VerbosityIsContained` | `VerbosityContained` | from `KernelIsQuelled` (`Quelled`: the kernel's filter is at its ceiling from boot on, and a change of level leaves nothing made under the old one) and `IdleIsQuiet` (`LevelInHand`: the level about to be set, by where main is) |
| `LogBackendProofs!BacklogKeepsOrder` | `BacklogKeepsItsOrder` | from `BacklogIsOrdered` (`Ordered`: lines in hand are newer than every line held (`Numbered`)) and `FewAreStranded` (`Strands`: once the sink is installed, the backlog and the line on its way there are one line together) |
| `LogBackendProofs!NobodyIsStuck` | (`WaitersAreServed`: while main waits for the mutex or for the pending records, the log thread can run and does not wait for main; the safety half of `NothingHangs`) | `Handover`, as above |
| `MonitorWindowProofs!WindowTypeCorrect` | `TypeOK` | with `SlotsFilled`: a slot exists while its CCC write is answered |
| `MonitorWindowProofs!OrphansCaused`, `NothingRemainsArmed` | `OrphansHaveACause`, `NothingStaysArmed` | `GivenBack`: what an unsubscribing loop has passed is not listed, so at its end nothing counted is; a start over an open window has run one |
| `MonitorWindowProofs!FiledRight` | `FiledUnderItsOwn` | `SlotsFilled`: a counted slot's index is the characteristic of its parameters; by `OrphansHaveACause` a listed slot is counted |
| `BleLinkProofs!TypeCorrect` | `TypeOK` | `StepTypes`: a step is at a place of its kind |
| `BleLinkProofs!ElevationIsTaken` | `NoLostElevation` | `SecArmed`: from the look at the level on, an elevation leaves the semaphore given |
| `BleLinkProofs!LossIsSaid` | `LossIsNamed` | `LossHeld`: in each wait, the flag and the semaphore that a loss has left; `CutHeld`: under a CCC write, that the link is gone or its answer torn down, up to the place that judges it |
| `BleLinkProofs!ResetIsComplete` | `ResetLeavesNothing` | from `ResetStops` (`Halts`: what each place of the reset has stopped, which no callback starts again (`CallbackStill`)) and `ZeroedDieWithLink` (`Zeroed`: a request is owed only on the active link, and one to zeroed parameters only from the reset to the end of that link) |
| `BleLinkProofs!ConnectsToItsPeer` | `PassNamesTarget` | `Meant`: what is matched, being made, or connected while a step scans is for its target, by the filter the step has set; a peripheral's pass asks the peer |
| `PdBenchProofs!TypeCorrect` | `TypeOK` | in groups; what a Request is made of by lemmas on `rdo_for_locked` |
| `PdBenchProofs!AlwaysArmed` | `KeepaliveArmed` | inductive with the types |
| `PdBenchProofs!NothingRemembered` | `PartnerForgotten` | `RolesAgree`: bench and stack agree on who is attached and in which role; a DR_Swap survives a detach only if asked for alone |
| `PdBenchProofs!AnswersAreTheAsked` | `AnswerIsTheAsked` | `AsksAgree`: once the question is out, the semaphore is given, or a callback is about to give it, only for an answer, or for one that was under way at the reset |
| `PdBenchProofs!RequestsAreOffered` | `RequestNamesHeldPdo` | `AgreedFits`, `RequestsFit`: what the contract and the capabilities in hand offer, wherever a Request can be made |
| `PdBenchProofs!SwapsAreCovered` | `SwapIsCovered` | `WindowsCover`: each way into a PR_Swap has opened the window first |
| `PdBenchProofs!SourceAgreesToItsOffer` | `SourceContractFits` | with `RolesAgree`; a Request is judged by what was sent, not by the offer |
| `SourcePathProofs!TypeCorrect` | `TypeOK` | a run of the fault work counts at most one of the faults that fell, so `faults < fell` while it runs |
| `SourcePathProofs!GatesNeverMeet` | `GateSwap` | `UnderMutex`: who holds the mutex at which place, and both paths open between the two writes |
| `SourcePathProofs!StaysDischarged` | `VbusStaysOff` | `SwitchedOff`: which call each place belongs to, and the provider path open from the first write of `source_off` |
| `SourcePathProofs!TroublesAreOwed` | `TroubleIsOwed` | from `FaultsAreOwed` (`FaultHeld`: between the work's read of the flags and its end, a fault is in its hand or has submitted it again) and `ResetsAreOwed` (`ResetHeld`: a call under way in a Hard Reset is one of its own or ends the attach) |

The larger proofs share a layout: the invariant in named groups, a frame lemma for each group that says which
actions can change it, and one step per such action. Proofs cite the ASSUME of the module
and nothing else.

Only model-checked: everything temporal under fairness (`StudyEnds`, `RunEnds`, `NothingHangs`, `TroubleEnds`), since
liveness and `ENABLED` are out of the prover's reach. Their safety halves are proved where there is one: that a
waiting thread waits for one that can run (`WaitersAreServed` of both modules), and that a fault or a Hard Reset is never forgotten
(`TroubleIsOwed`).
No proof does induction over data, and no module with a theorem uses a RECURSIVE operator.

## 5. Not modelled

- The link receive path: a ring between one interrupt and one thread, and frames found again
  by their delimiter. What can go wrong there is in byte positions and the checksum, not in the order of steps.
- The scan census: a table that one callback fills and one thread reads after the scan. The wrap of its
  eight-bit length follows from two widths; the summary is text.
- The wire codec beyond the size of a transcript entry: field layout, COBS and CRC-32 are functions of bytes, which the
  repository's codec tests exercise.
- The decoding of a study and the refusal of a malformed one: one thread, straight-line code.
- Operand arithmetic of the EAP interpreter, abstracted to which condition holds; the assembly and truncation of log
  lines; services and the limits of `discovered`; shell parsing and printing; all wording.
- The study FFI (a Rust library outside the repository), the bridge stub, tests, device trees.

The stack, the kernel and the peers are external: modelled by how `src` uses them. The status of each component is in
`PROJECT.json`.
