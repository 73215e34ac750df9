----------------------------- MODULE RunProtocol -----------------------------
(***************************************************************************)
(* A RunProtocol step of app/src/ble_bridge_real.c: the dispatch thread    *)
(* arms the characteristics a protocol reads, then drives the interpreter  *)
(* with the notifications the BT RX thread queues and with the deadlines   *)
(* it lets pass, until the interpreter has a verdict, a write fails or the *)
(* step's own time is up.                                                  *)
(*                                                                         *)
(* BT RX may run between any two steps of the dispatch thread.  Time, in   *)
(* ticks since the step began, passes only while the dispatch thread waits *)
(* for something that is not due: what it computes takes no time.          *)
(***************************************************************************)
EXTENDS EapInterp, FiniteSets

CONSTANTS
  Jobs,         (* the RunProtocol steps of a study: what to run, for how long *)
  QueueSlots,   (* PROTOCOL_NOTIFY_QUEUE_SLOTS                                 *)
  MaxFrames     (* bound: notifications of one run                             *)

Job == [def : ProtocolDef, entry_state : Nat, timeout_ms : Nat]

ASSUME RunProtocolAssumption ==
  /\ Jobs \subseteq Job
  /\ \A j \in Jobs : WellFormed(j.def) /\ j.entry_state \in DOMAIN j.def.states
  /\ SourceIds \subseteq Nat
  /\ QueueSlots \in Nat \ {0}
  /\ MaxFrames \in Nat

VARIABLES
  pc,          (* where execute_run_protocol is                               *)
  job, run, step,
  now, wake,   (* the time, and when the wait for a frame is over             *)
  armed,       (* the sources with a slot in protocol_subscribe_params        *)
  answer,      (* what ccc_sem or gatt_sem was given with                     *)
  conn,        (* active_conn # NULL                                          *)
  protocol_notify_q,
  note,        (* the notification handed to the waiting dispatch thread      *)
  protocol_notifications_dropped,
  result,
  turn, arrived, taken, unseen,     (* history: one run from the next; frames of
                                       this run, taken, and thrown away for want
                                       of a slot                              *)
  since, fresh, heard, stalls       (* history: when the state's wait began,
                                       whether it has, the last frame taken,
                                       expiries in a row                      *)

runVars  == <<job, run, step>>
timeVars == <<now, wake>>
radio    == <<armed, answer, conn>>
queueVars == <<protocol_notify_q, note, protocol_notifications_dropped>>
frameHistory == <<arrived, taken, unseen>>
waitHistory  == <<since, fresh, heard, stalls>>
vars == <<pc, runVars, timeVars, radio, queueVars, result, turn, frameHistory, waitHistory>>

NoNote   == [source |-> 0, payload |-> 0, id |-> 0, run |-> 0]
NoResult == [kind |-> "none", protocol |-> "none", state |-> 0]

Verdict(k, p) == [kind |-> k, protocol |-> p, state |-> run.state]

Failed(k) == result' = [kind |-> k, protocol |-> "none", state |-> 0]

StepDeadlinePassed == now >= job.timeout_ms

-----------------------------------------------------------------------------
(* The BT RX thread.                                                         *)

protocol_source_is_read(s) == \E f \in DOMAIN job.def.frames : job.def.frames[f].source = s

NextSource == Lowest({s \in SourceIds : protocol_source_is_read(s) /\ s \notin armed})

(* Sources the DUT notifies: those with a slot, and one whose CCC write it
   has accepted while the dispatch thread has yet to count the slot.         *)
Enabled == armed \cup (IF pc = "ccc" /\ answer = "ok" THEN NextSource ELSE {})

HasSlotOrSo == Len(protocol_notify_q) <= QueueSlots
HasSlot == Len(protocol_notify_q) < QueueSlots

k_msgq_put_front(n) == <<n>> \o protocol_notify_q
k_msgq_put(n) == Append(protocol_notify_q, n)

UncountedDrop == protocol_notifications_dropped
CountedDrop == protocol_notifications_dropped + 1

protocol_notify_cb(s, p) ==
  LET n == [source |-> s, payload |-> p, id |-> arrived + 1, run |-> turn]
  IN /\ conn
     /\ s \in Enabled
     /\ arrived < MaxFrames
     /\ arrived' = arrived + 1
     /\ \/ /\ s \notin armed
           /\ unseen' = unseen + 1
           /\ UNCHANGED <<pc, queueVars>>
        \/ /\ s \in armed /\ pc = "wait"
           /\ note' = n /\ pc' = "woken"
           /\ UNCHANGED <<protocol_notify_q, protocol_notifications_dropped, unseen>>
        \/ /\ s \in armed /\ pc # "wait" /\ HasSlot
           /\ protocol_notify_q' = k_msgq_put(n)
           /\ UNCHANGED <<pc, note, protocol_notifications_dropped, unseen>>
        \/ /\ s \in armed /\ pc # "wait" /\ ~HasSlot
           /\ protocol_notifications_dropped' = CountedDrop
           /\ UNCHANGED <<pc, protocol_notify_q, note, unseen>>
     /\ UNCHANGED <<runVars, timeVars, radio, result, turn, taken, waitHistory>>

(* subscribe_cb or write_cb.                                                 *)
AttResponse ==
  /\ pc \in {"ccc", "write"}
  /\ conn
  /\ answer = "none"
  /\ answer' \in {"ok", "rejected"}
  /\ UNCHANGED <<pc, runVars, timeVars, armed, conn, queueVars, result, turn, frameHistory,
                 waitHistory>>

(* Gives gatt_sem; ccc_sem only if the stack fails the CCC write as well.    *)
disconnected_cb ==
  /\ pc # "idle"
  /\ conn
  /\ conn' = FALSE
  /\ answer' \in IF pc = "ccc" /\ answer = "none" THEN {"none", "rejected"} ELSE {answer}
  /\ UNCHANGED <<pc, runVars, timeVars, armed, queueVars, result, turn, frameHistory,
                 waitHistory>>

-----------------------------------------------------------------------------
(* Arming.                                                                   *)

(* Another step may have connected or disconnected since the last run.       *)
execute_run_protocol(j) ==
  /\ pc = "idle"
  /\ turn' = 1 - turn
  /\ job' = j
  /\ run' = eap_run_start(j.def, j.entry_state)
  /\ now' = 0 /\ wake' = 0
  /\ armed' = {} /\ answer' = "none"
  /\ arrived' = 0 /\ taken' = 0 /\ unseen' = 0
  /\ since' = 0 /\ fresh' = FALSE /\ heard' = 0 /\ stalls' = 0
  /\ \/ conn' = TRUE /\ pc' = "resolve" /\ result' = NoResult
     \/ conn' = FALSE /\ pc' = "idle" /\ Failed("fail")
  /\ UNCHANGED <<step, queueVars>>

protocol_resolve_sources ==
  /\ pc = "resolve"
  /\ \/ /\ conn
        /\ pc' = "arm"
        /\ protocol_notify_q' = <<>>
        /\ protocol_notifications_dropped' = 0
        /\ UNCHANGED result
     \/ /\ \/ Failed("fail")
           \/ StepDeadlinePassed /\ Failed("timed_out")
           \/ ~conn /\ Failed("disconnected")
        /\ pc' = "idle"
        /\ UNCHANGED <<protocol_notify_q, protocol_notifications_dropped>>
  /\ UNCHANGED <<runVars, timeVars, radio, note, turn, frameHistory, waitHistory>>

(* The next CCC write, or the run itself when every source is armed.         *)
protocol_subscribe_sources ==
  /\ pc = "arm"
  /\ \/ /\ NextSource = {}
        /\ run' = eap_run_enter(job.def, run).run
        /\ step' = eap_run_enter(job.def, run).step
        /\ pc' = "step" /\ fresh' = TRUE
        /\ UNCHANGED <<result, answer>>
     \/ /\ NextSource # {} /\ conn
        /\ pc' = "ccc" /\ answer' = "none"
        /\ UNCHANGED <<run, step, result, fresh>>
     \/ /\ NextSource # {}
        /\ Failed("fail")
        /\ pc' = "unsubscribe"
        /\ UNCHANGED <<run, step, answer, fresh>>
  /\ UNCHANGED <<job, timeVars, armed, conn, queueVars, turn, frameHistory, since, heard, stalls>>

SubscribeDone ==
  /\ pc = "ccc"
  /\ \/ answer = "ok" /\ armed' = armed \cup NextSource /\ pc' = "arm" /\ UNCHANGED result
     \/ /\ \/ answer = "rejected" /\ Failed("fail")
           \/ answer = "none" /\ StepDeadlinePassed /\ Failed("timed_out")
        /\ pc' = "unsubscribe"
        /\ UNCHANGED armed
  /\ UNCHANGED <<runVars, timeVars, answer, conn, queueVars, turn, frameHistory, waitHistory>>

-----------------------------------------------------------------------------
(* The loop.                                                                 *)

TakeVerdict ==
  /\ pc = "step" /\ step.kind = "done"
  /\ result' = Verdict(step.outcome, step.outcome)
  /\ pc' = "unsubscribe"
  /\ UNCHANGED <<runVars, timeVars, radio, queueVars, turn, frameHistory, waitHistory>>

(* A failed write ends the run where it stands.                              *)
WriteFails(k) ==
  /\ run' = eap_run_abandon(job.def, run).run
  /\ result' = Verdict(k, "fail")
  /\ pc' = "unsubscribe"

protocol_write ==
  /\ pc = "step" /\ step.kind = "write"
  /\ \/ /\ conn /\ ~step.with_response
        /\ pc' = "await"
        /\ UNCHANGED <<run, answer, result>>
     \/ /\ conn /\ step.with_response
        /\ pc' = "write" /\ answer' = "none"
        /\ UNCHANGED <<run, result>>
     \/ WriteFails("fail") /\ UNCHANGED answer
  /\ UNCHANGED <<job, step, timeVars, armed, conn, queueVars, turn, frameHistory, waitHistory>>

WaitForever == FALSE
WriteTimesOut == answer = "none" /\ StepDeadlinePassed

WriteDone ==
  /\ pc = "write"
  /\ \/ conn /\ answer = "ok" /\ pc' = "await" /\ UNCHANGED <<run, result>>
     \/ conn /\ answer = "rejected" /\ WriteFails("fail")
     \/ conn /\ WriteTimesOut /\ WriteFails("timed_out")
     \/ ~conn /\ WriteFails("disconnected")
  /\ UNCHANGED <<job, step, timeVars, radio, queueVars, turn, frameHistory, waitHistory>>

GoOnWaiting ==
  /\ pc = "step" /\ step.kind = "wait"
  /\ pc' = "await"
  /\ UNCHANGED <<runVars, timeVars, radio, queueVars, result, turn, frameHistory, waitHistory>>

Earlier(a, b) == IF a < b THEN a ELSE b

(* Counted from now, whatever the machine has waited in this state already.   *)
protocol_state_deadline ==
  IF step.has_deadline THEN Earlier(now + step.deadline_ms, job.timeout_ms) ELSE job.timeout_ms

(* k_msgq_get: a queued frame at once, or a wait.                            *)
AwaitFrame ==
  /\ pc = "await"
  /\ wake' = protocol_state_deadline
  /\ since' = IF fresh THEN now ELSE since
  /\ fresh' = FALSE
  /\ IF protocol_notify_q # <<>>
     THEN /\ pc' = "woken"
          /\ note' = Head(protocol_notify_q)
          /\ protocol_notify_q' = Tail(protocol_notify_q)
     ELSE pc' = "wait" /\ UNCHANGED <<note, protocol_notify_q>>
  /\ UNCHANGED <<runVars, now, radio, protocol_notifications_dropped, result, turn, frameHistory,
                 heard, stalls>>

OnFrame ==
  LET next == eap_run_on_event(job.def, run,
                [kind |-> "notify", source |-> note.source, payload |-> note.payload])
  IN /\ pc = "woken"
     /\ run' = next.run /\ step' = next.step
     /\ pc' = "step"
     /\ note' = NoNote
     /\ taken' = taken + 1
     /\ heard' = now
     /\ fresh' = next.step.entered
     /\ stalls' = 0
     /\ UNCHANGED <<job, timeVars, radio, protocol_notify_q, protocol_notifications_dropped, result,
                    turn, arrived, unseen, since>>

(* The wait timed out; a frame may still arrive before the thread acts on it. *)
WaitExpires ==
  /\ pc = "wait"
  /\ now >= wake
  /\ pc' = "expired"
  /\ UNCHANGED <<runVars, timeVars, radio, queueVars, result, turn, frameHistory, waitHistory>>

OutOfWait == now >= wake
OutOfTime == StepDeadlinePassed

OnExpiry ==
  LET next == IF OutOfTime
              THEN eap_run_abandon(job.def, run)
              ELSE eap_run_on_event(job.def, run, [kind |-> "timeout"])
  IN /\ pc = "expired"
     /\ run' = next.run /\ step' = next.step
     /\ pc' = "step"
     /\ fresh' = next.step.entered
     /\ stalls' = IF next.run.state = run.state THEN stalls + 1 ELSE 0
     /\ UNCHANGED <<job, timeVars, radio, queueVars, result, turn, frameHistory, since, heard>>

protocol_unsubscribe_all ==
  /\ pc = "unsubscribe"
  /\ armed' = {}
  /\ pc' = "idle"
  /\ UNCHANGED <<runVars, timeVars, answer, conn, queueVars, result, turn, frameHistory,
                 waitHistory>>

-----------------------------------------------------------------------------
Blocked ==
  \/ pc = "resolve" /\ ~StepDeadlinePassed
  \/ pc = "ccc" /\ answer = "none" /\ ~StepDeadlinePassed
  \/ pc = "write" /\ answer = "none" /\ conn /\ ~StepDeadlinePassed
  \/ pc = "wait" /\ now < wake

Tick ==
  /\ Blocked
  /\ now' = now + 1
  /\ UNCHANGED <<pc, runVars, wake, radio, queueVars, result, turn, frameHistory, waitHistory>>

Init ==
  /\ pc = "idle"
  /\ job \in Jobs
  /\ run = eap_run_start(job.def, job.entry_state)
  /\ step = Outcome("none", FALSE)
  /\ now = 0 /\ wake = 0
  /\ armed = {} /\ answer = "none" /\ conn = FALSE
  /\ protocol_notify_q = <<>> /\ note = NoNote /\ protocol_notifications_dropped = 0
  /\ result = NoResult
  /\ turn = 0 /\ arrived = 0 /\ taken = 0 /\ unseen = 0
  /\ since = 0 /\ fresh = FALSE /\ heard = 0 /\ stalls = 0

BtRx ==
  \/ \E s \in SourceIds, p \in Payload : protocol_notify_cb(s, p)
  \/ AttResponse
  \/ disconnected_cb

Dispatch ==
  \/ protocol_resolve_sources \/ protocol_subscribe_sources \/ SubscribeDone
  \/ TakeVerdict \/ protocol_write \/ WriteDone \/ GoOnWaiting
  \/ AwaitFrame \/ OnFrame \/ WaitExpires \/ OnExpiry
  \/ protocol_unsubscribe_all

Next ==
  \/ \E j \in Jobs : execute_run_protocol(j)
  \/ BtRx
  \/ Dispatch
  \/ Tick

Spec == Init /\ [][Next]_vars

(* The dispatch thread runs when BT RX is done, and time passes.             *)
FairSpec == Spec /\ WF_vars(Dispatch) /\ WF_vars(Tick)
-----------------------------------------------------------------------------
(* Properties.                                                               *)

Note == [source : SourceIds, payload : Payload, id : Nat, run : {0, 1}]

Running == pc \in {"step", "write", "await", "wait", "woken", "expired"}

TypeOK ==
  /\ pc \in {"idle", "resolve", "arm", "ccc", "step", "write", "await", "wait", "woken",
             "expired", "unsubscribe"}
  /\ job \in Jobs
  /\ run \in Run /\ run.state \in DOMAIN job.def.states
  /\ step \in EapStep
  /\ now \in Nat /\ wake \in Nat
  /\ armed \subseteq SourceIds
  /\ answer \in {"none", "ok", "rejected"}
  /\ conn \in BOOLEAN
  /\ protocol_notify_q \in Seq(Note) /\ Len(protocol_notify_q) <= QueueSlots
  /\ pc = "woken" => note \in Note
  /\ protocol_notifications_dropped \in Nat
  /\ result \in [kind : {"none", "pass", "fail", "timed_out", "disconnected"},
                 protocol : {"none", "pass", "fail", "timed_out"}, state : Nat]
  /\ turn \in {0, 1} /\ arrived \in Nat /\ taken \in Nat /\ unseen \in Nat
  /\ since \in Nat /\ fresh \in BOOLEAN /\ heard \in Nat /\ stalls \in Nat

(* Every notification that reached the bridge during a run was taken by the
   machine, is on its way to it, was counted as dropped, or came before its
   slot was counted: the queue loses nothing silently.                       *)
EveryFrameAccounted ==
  pc \notin {"idle", "resolve"} =>
    arrived = taken + Len(protocol_notify_q) + (IF pc = "woken" THEN 1 ELSE 0)
                + protocol_notifications_dropped + unseen

(* The machine is fed this run's frames only, in the order they arrived: none
   that an earlier run left in the queue, none out of turn.                  *)
FramesInOrder ==
  pc \notin {"idle", "resolve"} =>
    /\ \A k \in DOMAIN protocol_notify_q : protocol_notify_q[k].run = turn
    /\ \A j, k \in DOMAIN protocol_notify_q :
         j < k => protocol_notify_q[j].id < protocol_notify_q[k].id
    /\ pc = "woken" => /\ note.run = turn
                       /\ \A k \in DOMAIN protocol_notify_q : note.id < protocol_notify_q[k].id

(* The step's timeout_ms bounds the whole run, whatever the machine's states
   declare and however often it re-enters them.                              *)
NeverPastDeadline == pc # "idle" => now <= job.timeout_ms

(* A state's timeout is not taken before its after_ms has gone by since the
   state was entered or last retried.                                        *)
TimeoutNotEarly ==
  pc = "expired" /\ ~StepDeadlinePassed =>
    /\ CurrentState(job.def, run).has_on_timeout
    /\ now >= since + CurrentState(job.def, run).on_timeout.after_ms

(* A DUT that has gone silent is noticed: a state with a timeout waits no
   longer than its after_ms from the last frame or from its entry.           *)
SilenceIsNoticed ==
  pc = "wait" /\ CurrentState(job.def, run).has_on_timeout =>
    \/ wake <= since + CurrentState(job.def, run).on_timeout.after_ms
    \/ wake <= heard + CurrentState(job.def, run).on_timeout.after_ms

(* A silent DUT is asked again at most `retry` times before the machine goes
   on, unless its timeout leads back to the same state.                      *)
RetriesBounded ==
  LET st == CurrentState(job.def, run)
  IN Running /\ st.kind = "active" /\ st.has_on_timeout /\ st.on_timeout.goto_state # run.state
       => stalls <= st.on_timeout.retry + (IF run.finished THEN 1 ELSE 0)

(* The step's time is kept, and a state's timeout is neither early, nor
   forgotten, nor repeated beyond its retries.                                *)
TimeoutsAreKept == NeverPastDeadline /\ TimeoutNotEarly /\ SilenceIsNoticed /\ RetriesBounded

(* What the step reports is what happened: a pass only from a state that
   declares one, time out only when the step's time was up, a disconnection
   only when the link was lost.                                              *)
VerdictIsEarned ==
  pc \in {"unsubscribe", "idle"} =>
    /\ result.kind = "pass" => /\ result.protocol = "pass"
                               /\ job.def.states[result.state].kind = "terminal"
                               /\ job.def.states[result.state].terminal = "pass"
    /\ result.protocol = "pass" => result.kind = "pass"
    /\ result.kind = "timed_out" => StepDeadlinePassed
    /\ result.kind = "disconnected" => ~conn

(* A declaration, and the graph its machine walks.                           *)
Writes(st) == st.kind = "active" /\ st.has_on_enter /\ st.on_enter.resolves
Fails(st) == \/ st.kind = "terminal" /\ st.terminal = "fail"
             \/ st.kind = "active" /\ st.has_on_enter /\ ~st.on_enter.resolves
Passes(st) == st.kind = "terminal" /\ st.terminal = "pass"

ArmGotos(arm) == arm.otherwise \cup {arm.when[w].goto_state : w \in DOMAIN arm.when}
Gotos(st) == UNION {ArmGotos(st.on_event[a]) : a \in DOMAIN st.on_event}
Expiry(st) == IF st.has_on_timeout THEN {st.on_timeout.goto_state} ELSE {}

Graph(j) ==
  LET S == DOMAIN j.def.states
      st(s) == j.def.states[s]
  IN [entry   |-> j.entry_state,
      pass    |-> {s \in S : Passes(st(s))},
      fail    |-> {s \in S : Fails(st(s))},
      writes  |-> {s \in S : Writes(st(s))},
      acked   |-> {s \in S : Writes(st(s)) /\ st(s).on_enter.with_response},
      gotos   |-> [s \in S |-> Gotos(st(s))],
      expires |-> [s \in S |-> Expiry(st(s))],
      retry   |-> [s \in S |-> st(s).on_timeout.retry]]

Phase == CASE pc = "idle" -> "idle"
           [] pc \in {"resolve", "arm", "ccc"} -> "setup"
           [] pc = "unsubscribe" -> "over"
           [] OTHER -> "walking"

Mail == CASE pc = "step" /\ step.kind = "write" -> "owed"
          [] pc = "write" -> "asked"
          [] OTHER -> "none"

Inbox == IF pc \in {"idle", "resolve"} THEN 0
         ELSE Len(protocol_notify_q) + (IF pc = "woken" THEN 1 ELSE 0)

(* The step does what the declaration promises: whatever the DUT sends and
   when, the machine walks the declared graph, one frame or expiry a move, and
   sends a state's write once for each entry and retry; no verdict but the one
   of the state it reached, of a failed write or of the step's time.          *)
Walk == INSTANCE ProtocolWalk WITH
          Graphs <- {Graph(j) : j \in Jobs}, graph <- Graph(job), phase <- Phase,
          at <- run.state, asked <- run.retries, mail <- Mail, inbox <- Inbox,
          report <- result
WalkSpec == Walk!Spec

(* Every run ends.                                                           *)
RunEnds == pc # "idle" ~> pc = "idle"

(* The header and the interpreter say of a frame that leads nowhere that the
   timeout keeps counting from the original entry.                           *)
TimeoutCountsFromEntry ==
  pc = "wait" /\ CurrentState(job.def, run).has_on_timeout =>
    wake <= since + CurrentState(job.def, run).on_timeout.after_ms
=============================================================================
