------------------------------ MODULE EapInterp ------------------------------
(***************************************************************************)
(* The .eap protocol interpreter of app/src/eap_interp.c: events in,       *)
(* instructions out.  A protocol definition is data; an operator here      *)
(* takes a run and an event and returns the run afterwards and the one     *)
(* instruction for the caller.                                             *)
(*                                                                         *)
(* Operands, scalars and payload bytes are abstracted to what a machine    *)
(* can tell apart: `matches` holds the payloads a frame's select accepts,  *)
(* `remember` maps the session variables and a payload to the session      *)
(* after it, and a guard `holds` for a set of those pairs.                 *)
(***************************************************************************)
EXTENDS Naturals, Sequences

CONSTANTS Session,     (* what the session variables may be                  *)
          Payload,     (* what a notification may carry                      *)
          SourceIds    (* indices of the characteristics of a protocol       *)

Write == [with_response : BOOLEAN, resolves : BOOLEAN]

TimeoutArm == [after_ms : Nat, retry : Nat, goto_state : Nat]

GuardedGoto == [holds : SUBSET (Session \X Payload), goto_state : Nat]

(* `otherwise` is empty, or holds the one state it goes to.                  *)
EventArm == [frame : Nat, remember : [Session -> [Payload -> Session]],
             when : Seq(GuardedGoto), otherwise : SUBSET Nat]

State == [kind : {"active", "terminal"}, terminal : {"pass", "fail"},
          has_on_enter : BOOLEAN, on_enter : Write, on_event : Seq(EventArm),
          has_on_timeout : BOOLEAN, on_timeout : TimeoutArm]

Frame == [source : SourceIds, matches : SUBSET Payload]

ProtocolDef == [states : Seq(State), frames : Seq(Frame), session_initial : Session]

(* Every goto names a state.  This is an assumption on Core, which validates a
   protocol before it sends it: the decoder of the bench does not look, and
   eap_run_start checks the entry state only.                                *)
WellFormed(def) ==
  \A s \in DOMAIN def.states :
    LET st == def.states[s]
    IN /\ st.on_timeout.goto_state \in DOMAIN def.states
       /\ \A a \in DOMAIN st.on_event :
            /\ st.on_event[a].otherwise \subseteq DOMAIN def.states
            /\ \A w \in DOMAIN st.on_event[a].when :
                 st.on_event[a].when[w].goto_state \in DOMAIN def.states

Run == [state : Nat, session : Session, retries : Nat, finished : BOOLEAN]

(* An instruction.  `entered` is no field of the code's: it tells a step that
   entering a state gave from one that only goes on waiting in it.           *)
EapStep == [kind : {"write", "wait", "done"}, with_response : BOOLEAN,
            has_deadline : BOOLEAN, deadline_ms : Nat,
            outcome : {"none", "pass", "fail", "timed_out"}, entered : BOOLEAN]

Outcome(o, e) == [kind |-> "done", with_response |-> FALSE, has_deadline |-> FALSE,
                  deadline_ms |-> 0, outcome |-> o, entered |-> e]

CurrentState(def, run) == def.states[run.state]

Lowest(S) == {i \in S : \A j \in S : i <= j}

-----------------------------------------------------------------------------
(* Frames and arms.                                                          *)

(* The first frame on this source whose select accepts the payload.          *)
select_frame(def, src, p) ==
  Lowest({f \in DOMAIN def.frames : def.frames[f].source = src /\ p \in def.frames[f].matches})

(* The first arm of the state that names that frame.                         *)
ArmsFor(def, run, src, p) ==
  Lowest({a \in DOMAIN CurrentState(def, run).on_event :
            CurrentState(def, run).on_event[a].frame \in select_frame(def, src, p)})

(* The first guard that holds, seen with this frame's remembers applied;
   failing all, `otherwise`.                                                 *)
Targets(arm, session, p) ==
  LET hits == Lowest({w \in DOMAIN arm.when : <<session, p>> \in arm.when[w].holds})
  IN IF hits # {} THEN {arm.when[w].goto_state : w \in hits} ELSE arm.otherwise

-----------------------------------------------------------------------------
(* Instructions.                                                             *)

WaitAsArmed(st, e) ==
  [kind |-> "wait", with_response |-> FALSE, has_deadline |-> e /\ st.has_on_timeout,
   deadline_ms |-> IF e /\ st.has_on_timeout THEN st.on_timeout.after_ms ELSE 0,
   outcome |-> "none", entered |-> e]

wait_step(st, e) ==
  [kind |-> "wait", with_response |-> FALSE, has_deadline |-> st.has_on_timeout,
   deadline_ms |-> IF st.has_on_timeout THEN st.on_timeout.after_ms ELSE 0,
   outcome |-> "none", entered |-> e]

write_step(st) ==
  [wait_step(st, TRUE) EXCEPT !.kind = "write", !.with_response = st.on_enter.with_response]

Finished(run) == [run EXCEPT !.finished = TRUE]

(* Entering the current state: a verdict, its on_enter write, or a wait.     *)
on_entered(def, run) ==
  LET st == CurrentState(def, run)
  IN CASE st.kind = "terminal" ->
            [run |-> Finished(run), step |-> Outcome(st.terminal, TRUE)]
       [] st.kind = "active" /\ ~st.has_on_enter ->
            [run |-> run, step |-> wait_step(st, TRUE)]
       [] st.kind = "active" /\ st.has_on_enter /\ ~st.on_enter.resolves ->
            [run |-> Finished(run), step |-> Outcome("fail", TRUE)]
       [] OTHER -> [run |-> run, step |-> write_step(st)]

eap_run_start(def, entry_state) ==
  [state |-> entry_state, session |-> def.session_initial, retries |-> 0, finished |-> FALSE]

eap_run_enter(def, run) == on_entered(def, [run EXCEPT !.retries = 0])

Resumed(def, run, s) == on_entered(def, [run EXCEPT !.state = s])

GoTo(def, run, s) == eap_run_enter(def, [run EXCEPT !.state = s])

-----------------------------------------------------------------------------
(* Events.                                                                   *)

Retried(run) == [run EXCEPT !.retries = @ + 1]

(* A retry enters the state again without giving its retries back.           *)
on_timeout(def, run) ==
  LET st == CurrentState(def, run)
  IN CASE ~st.has_on_timeout -> [run |-> run, step |-> wait_step(st, FALSE)]
       [] st.has_on_timeout /\ run.retries < st.on_timeout.retry ->
            on_entered(def, Retried(run))
       [] OTHER -> GoTo(def, run, st.on_timeout.goto_state)

(* A frame no arm names is ignored.  One that leads nowhere is remembered and
   the machine stays where it is, without entering the state again.          *)
on_notify(def, run, src, p) ==
  LET st   == CurrentState(def, run)
      arms == ArmsFor(def, run, src, p)
      arm  == st.on_event[CHOOSE a \in arms : TRUE]
      told == [run EXCEPT !.session = arm.remember[run.session][p]]
      to   == Targets(arm, told.session, p)
  IN CASE arms = {} -> [run |-> run, step |-> wait_step(st, FALSE)]
       [] arms # {} /\ to = {} -> [run |-> told, step |-> wait_step(st, FALSE)]
       [] OTHER -> GoTo(def, told, CHOOSE s \in to : TRUE)

(* A run that is over answers every event with a pass.                       *)
eap_run_on_event(def, run, ev) ==
  CASE run.finished -> [run |-> run, step |-> Outcome("pass", FALSE)]
    [] ~run.finished /\ CurrentState(def, run).kind = "terminal" -> on_entered(def, run)
    [] ~run.finished /\ CurrentState(def, run).kind = "active" /\ ev.kind = "timeout" ->
         on_timeout(def, run)
    [] OTHER -> on_notify(def, run, ev.source, ev.payload)

eap_run_abandon(def, run) == [run |-> Finished(run), step |-> Outcome("timed_out", FALSE)]
=============================================================================
