-------------------------- MODULE RunProtocolProofs --------------------------
(* Proofs about the interpreter and the RunProtocol step for every protocol,  *)
(* queue size and number of notifications.                                    *)
EXTENDS RunProtocol, TLAPS

LEMMA LowestIsIn == ASSUME NEW S PROVE Lowest(S) \subseteq S
BY DEF Lowest

(* A state of a protocol, with its parts.                                     *)
LEMMA StateType ==
  ASSUME NEW def \in ProtocolDef, NEW s \in DOMAIN def.states
  PROVE  def.states[s] \in State
<1>1. def.states \in Seq(State)
  BY DEF ProtocolDef
<1> QED BY <1>1

(* An instruction of the interpreter, by its three shapes.                    *)
LEMMA WaitType ==
  ASSUME NEW st \in State, NEW e \in BOOLEAN
  PROVE  wait_step(st, e) \in EapStep
<1>1. st.has_on_timeout \in BOOLEAN /\ st.on_timeout.after_ms \in Nat
  BY DEF State, TimeoutArm
<1>2. (IF st.has_on_timeout THEN st.on_timeout.after_ms ELSE 0) \in Nat
  BY <1>1
<1> QED BY <1>1, <1>2 DEF wait_step, EapStep

LEMMA WriteType ==
  ASSUME NEW st \in State
  PROVE  write_step(st) \in EapStep
<1>1. wait_step(st, TRUE) \in EapStep
  BY WaitType
<1>2. st.on_enter.with_response \in BOOLEAN
  BY DEF State, Write
<1> QED BY <1>1, <1>2 DEF write_step, EapStep

LEMMA OutcomeType ==
  ASSUME NEW o \in {"none", "pass", "fail", "timed_out"}, NEW e \in BOOLEAN
  PROVE  Outcome(o, e) \in EapStep
BY DEF Outcome, EapStep

(* What the interpreter returns is a run in a state of the protocol and an
   instruction.                                                               *)
Returned(def, r) == /\ r.run \in Run /\ r.run.state \in DOMAIN def.states
                    /\ r.step \in EapStep

LEMMA EnteredType ==
  ASSUME NEW def \in ProtocolDef, NEW r \in Run, r.state \in DOMAIN def.states
  PROVE  Returned(def, on_entered(def, r))
<1> DEFINE st == CurrentState(def, r)
<1>1. st \in State
  BY StateType DEF CurrentState
<1>2. st.kind \in {"active", "terminal"} /\ st.terminal \in {"pass", "fail"}
      /\ st.has_on_enter \in BOOLEAN /\ st.on_enter.resolves \in BOOLEAN
  BY <1>1 DEF State, Write
<1>3. Finished(r) \in Run /\ Finished(r).state = r.state
  BY DEF Finished, Run
<1>4. Outcome(st.terminal, TRUE) \in EapStep /\ Outcome("fail", TRUE) \in EapStep
  BY <1>2, OutcomeType
<1>5. wait_step(st, TRUE) \in EapStep /\ write_step(st) \in EapStep
  BY <1>1, WaitType, WriteType
<1> HIDE DEF st
<1>6. CASE st.kind = "terminal"
  BY <1>3, <1>4, <1>6 DEF on_entered, Returned, st
<1>7. CASE st.kind = "active" /\ ~st.has_on_enter
  BY <1>5, <1>7 DEF on_entered, Returned, st
<1>8. CASE st.kind = "active" /\ st.has_on_enter /\ ~st.on_enter.resolves
  BY <1>3, <1>4, <1>8 DEF on_entered, Returned, st
<1>9. CASE st.kind = "active" /\ st.has_on_enter /\ st.on_enter.resolves
  BY <1>5, <1>9 DEF on_entered, Returned, st
<1> QED BY <1>2, <1>6, <1>7, <1>8, <1>9

LEMMA GoToType ==
  ASSUME NEW def \in ProtocolDef, NEW r \in Run, NEW s \in DOMAIN def.states, s \in Nat
  PROVE  Returned(def, GoTo(def, r, s))
<1>1. [[r EXCEPT !.state = s] EXCEPT !.retries = 0] \in Run
  BY DEF Run
<1>2. [[r EXCEPT !.state = s] EXCEPT !.retries = 0].state = s
  BY DEF Run
<1> QED BY <1>1, <1>2, EnteredType DEF GoTo, eap_run_enter

LEMMA TimeoutType ==
  ASSUME NEW def \in ProtocolDef, WellFormed(def), NEW r \in Run, r.state \in DOMAIN def.states
  PROVE  Returned(def, on_timeout(def, r))
<1> DEFINE st == CurrentState(def, r)
<1>1. st \in State
  BY StateType DEF CurrentState
<1>2. st.has_on_timeout \in BOOLEAN /\ st.on_timeout.goto_state \in Nat
      /\ st.on_timeout.goto_state \in DOMAIN def.states
  BY <1>1 DEF State, TimeoutArm, WellFormed, CurrentState
<1>3. Retried(r) \in Run /\ Retried(r).state = r.state
  BY DEF Retried, Run
<1>4. wait_step(st, FALSE) \in EapStep
  BY <1>1, WaitType
<1>5. Returned(def, on_entered(def, Retried(r)))
  BY <1>3, EnteredType
<1>6. Returned(def, GoTo(def, r, st.on_timeout.goto_state))
  BY <1>2, GoToType
<1> HIDE DEF st
<1>7. CASE ~st.has_on_timeout
  BY <1>4, <1>7 DEF on_timeout, Returned, st
<1>8. CASE st.has_on_timeout /\ r.retries < st.on_timeout.retry
  BY <1>5, <1>8 DEF on_timeout, st
<1>9. CASE st.has_on_timeout /\ ~(r.retries < st.on_timeout.retry)
  BY <1>6, <1>9 DEF on_timeout, st
<1> QED BY <1>2, <1>7, <1>8, <1>9

(* A run and an instruction, put together.                                    *)
LEMMA PairReturned ==
  ASSUME NEW def, NEW t \in Run, t.state \in DOMAIN def.states, NEW w \in EapStep
  PROVE  Returned(def, [run |-> t, step |-> w])
BY DEF Returned

(* A notification is remembered and then either waited on or followed.        *)
Stays(def, r, told, x) == x = [run |-> told, step |-> wait_step(CurrentState(def, r), FALSE)]
Leaves(def, told, x) ==
  \E s \in DOMAIN def.states : /\ s \in Nat /\ s \in Gotos(CurrentState(def, told))
                               /\ x = GoTo(def, told, s)
Answered(def, r, told, x) ==
  /\ told.state = r.state /\ told.finished = r.finished /\ told.retries = r.retries
  /\ Stays(def, r, told, x) \/ Leaves(def, told, x)

(* A frame leads nowhere but where its arm says.                              *)
LEMMA TargetsOfArm ==
  ASSUME NEW arm, NEW session, NEW p
  PROVE  Targets(arm, session, p) \subseteq ArmGotos(arm)
<1>1. Lowest({w \in DOMAIN arm.when : <<session, p>> \in arm.when[w].holds}) \subseteq DOMAIN arm.when
  BY LowestIsIn
<1> QED BY <1>1 DEF Targets, ArmGotos

LEMMA NotifyShape ==
  ASSUME NEW def \in ProtocolDef, WellFormed(def), NEW r \in Run, r.state \in DOMAIN def.states,
         NEW src, NEW p \in Payload
  PROVE  \E told \in Run : Answered(def, r, told, on_notify(def, r, src, p))
<1> DEFINE st   == CurrentState(def, r)
           arms == ArmsFor(def, r, src, p)
           arm  == st.on_event[CHOOSE a \in arms : TRUE]
           told == [r EXCEPT !.session = arm.remember[r.session][p]]
           to   == Targets(arm, told.session, p)
<1>1. st \in State
  BY StateType DEF CurrentState
<1>3. arms \subseteq DOMAIN st.on_event
  BY LowestIsIn DEF ArmsFor
<1>4. CASE arms = {}
  <2>1. on_notify(def, r, src, p) = [run |-> r, step |-> wait_step(st, FALSE)]
    BY <1>4 DEF on_notify
  <2> QED BY <2>1 DEF Answered, Stays
<1>5. CASE arms # {}
  <2>1. (CHOOSE a \in arms : TRUE) \in DOMAIN st.on_event
    BY <1>3, <1>5
  <2>2. st.on_event \in Seq(EventArm)
    BY <1>1 DEF State
  <2>3. arm \in EventArm
    BY <2>1, <2>2
  <2>4. arm.remember[r.session][p] \in Session
    <3>1. r.session \in Session
      BY DEF Run
    <3> QED BY <2>3, <3>1 DEF EventArm
  <2>5. told \in Run /\ told.state = r.state /\ told.finished = r.finished
        /\ told.retries = r.retries
    BY <2>4 DEF Run
  <2>6. to \subseteq DOMAIN def.states
    <3>1. /\ arm.otherwise \subseteq DOMAIN def.states
          /\ \A w \in DOMAIN arm.when : arm.when[w].goto_state \in DOMAIN def.states
      BY <2>1 DEF WellFormed, CurrentState
    <3> HIDE DEF arm, told
    <3>2. Lowest({w \in DOMAIN arm.when : <<told.session, p>> \in arm.when[w].holds})
            \subseteq DOMAIN arm.when
      BY LowestIsIn
    <3> QED BY <3>1, <3>2 DEF Targets
  <2> HIDE DEF to, told, arm, arms, st
  <2>7. CASE to = {}
    <3>1. on_notify(def, r, src, p) = [run |-> told, step |-> wait_step(st, FALSE)]
      BY <1>5, <2>7 DEF on_notify, to, told, arm, arms, st
    <3>2. Stays(def, r, told, on_notify(def, r, src, p))
      BY <3>1 DEF Stays, st
    <3> QED BY <2>5, <3>2 DEF Answered
  <2>8. CASE to # {}
    <3>1. (CHOOSE s \in to : TRUE) \in DOMAIN def.states
      BY <2>6, <2>8
    <3>2. (CHOOSE s \in to : TRUE) \in Nat
      <4>1. def.states \in Seq(State)
        BY DEF ProtocolDef
      <4> QED BY <3>1, <4>1
    <3>3. on_notify(def, r, src, p) = GoTo(def, told, CHOOSE s \in to : TRUE)
      BY <1>5, <2>8 DEF on_notify, to, told, arm, arms, st
    <3>4. (CHOOSE s \in to : TRUE) \in Gotos(CurrentState(def, told))
      <4>1. (CHOOSE s \in to : TRUE) \in ArmGotos(arm)
        BY <2>8, TargetsOfArm DEF to
      <4>2. st.on_event[CHOOSE a \in arms : TRUE] = arm
        BY DEF arm
      <4>3. CurrentState(def, told) = st
        BY <2>5 DEF CurrentState, st
      <4> QED BY <2>1, <4>1, <4>2, <4>3 DEF Gotos
    <3>5. Leaves(def, told, on_notify(def, r, src, p))
      BY <3>1, <3>2, <3>3, <3>4 DEF Leaves
    <3> QED BY <2>5, <3>5 DEF Answered
  <2> QED BY <2>7, <2>8
<1> QED BY <1>4, <1>5

LEMMA NotifyType ==
  ASSUME NEW def \in ProtocolDef, WellFormed(def), NEW r \in Run, r.state \in DOMAIN def.states,
         NEW src, NEW p \in Payload
  PROVE  Returned(def, on_notify(def, r, src, p))
<1>1. wait_step(CurrentState(def, r), FALSE) \in EapStep
  BY StateType, WaitType DEF CurrentState
<1> DEFINE x == on_notify(def, r, src, p)
<1>2. PICK told \in Run : Answered(def, r, told, x)
  BY NotifyShape
<1> HIDE DEF x
<1>3. told.state \in DOMAIN def.states
  BY <1>2 DEF Answered
<1>4. ASSUME Stays(def, r, told, x) PROVE Returned(def, x)
  BY <1>1, <1>3, <1>4, PairReturned DEF Stays
<1>5. ASSUME Leaves(def, told, x) PROVE Returned(def, x)
  <2>1. PICK s \in DOMAIN def.states : s \in Nat /\ x = GoTo(def, told, s)
    BY <1>5 DEF Leaves
  <2> QED BY <2>1, GoToType
<1>6. Returned(def, x)
  BY <1>2, <1>4, <1>5 DEF Answered
<1> QED BY <1>6 DEF x

LEMMA EventType ==
  ASSUME NEW def \in ProtocolDef, WellFormed(def), NEW r \in Run, r.state \in DOMAIN def.states,
         NEW ev, ev.kind = "timeout" \/ ev.payload \in Payload
  PROVE  Returned(def, eap_run_on_event(def, r, ev))
<1>1. r.finished \in BOOLEAN
  BY DEF Run
<1>2. CurrentState(def, r).kind \in {"active", "terminal"}
  BY StateType DEF CurrentState, State
<1>3. CASE r.finished
  BY <1>3, OutcomeType DEF eap_run_on_event, Returned
<1>4. CASE ~r.finished /\ CurrentState(def, r).kind = "terminal"
  BY <1>4, EnteredType DEF eap_run_on_event
<1>5. CASE ~r.finished /\ CurrentState(def, r).kind = "active" /\ ev.kind = "timeout"
  BY <1>5, TimeoutType DEF eap_run_on_event
<1>6. CASE ~r.finished /\ CurrentState(def, r).kind = "active" /\ ev.kind # "timeout"
  BY <1>6, NotifyType DEF eap_run_on_event
<1> QED BY <1>1, <1>2, <1>3, <1>4, <1>5, <1>6

LEMMA AbandonType ==
  ASSUME NEW def, NEW r \in Run, r.state \in DOMAIN def.states
  PROVE  Returned(def, eap_run_abandon(def, r))
<1>1. Finished(r) \in Run /\ Finished(r).state = r.state
  BY DEF Finished, Run
<1> QED BY <1>1, OutcomeType DEF eap_run_abandon, Returned

-----------------------------------------------------------------------------
LEMMA JobType ==
  ASSUME NEW j \in Jobs
  PROVE  /\ j.def \in ProtocolDef /\ WellFormed(j.def)
         /\ j.entry_state \in DOMAIN j.def.states /\ j.entry_state \in Nat
         /\ j.timeout_ms \in Nat
BY RunProtocolAssumption DEF Job

(* A run starts in its entry state.                                           *)
LEMMA StartType ==
  ASSUME NEW j \in Jobs
  PROVE  /\ eap_run_start(j.def, j.entry_state) \in Run
         /\ eap_run_start(j.def, j.entry_state).state \in DOMAIN j.def.states
BY JobType DEF eap_run_start, ProtocolDef, Run

LEMMA EnterType ==
  ASSUME NEW j \in Jobs, NEW r \in Run, r.state \in DOMAIN j.def.states
  PROVE  Returned(j.def, eap_run_enter(j.def, r))
<1>1. [r EXCEPT !.retries = 0] \in Run /\ [r EXCEPT !.retries = 0].state = r.state
  BY DEF Run
<1> QED BY <1>1, JobType, EnteredType DEF eap_run_enter

LEMMA TypeInit == Init => TypeOK
<1> SUFFICES ASSUME Init PROVE TypeOK
  OBVIOUS
<1>1. run \in Run /\ run.state \in DOMAIN job.def.states
  BY StartType DEF Init
<1>2. step \in EapStep
  BY OutcomeType DEF Init
<1>3. protocol_notify_q \in Seq(Note) /\ Len(protocol_notify_q) <= QueueSlots
  BY RunProtocolAssumption DEF Init
<1> QED BY <1>1, <1>2, <1>3 DEF Init, TypeOK, NoResult

(* The result of a step that fails, and of one the machine's verdict ends.    *)
Results == [kind : {"none", "pass", "fail", "timed_out", "disconnected"},
            protocol : {"none", "pass", "fail", "timed_out"}, state : Nat]

LEMMA FailedType ==
  ASSUME TypeOK, NEW k \in {"fail", "timed_out", "disconnected"}
  PROVE  /\ Failed(k) => result' \in Results
         /\ WriteFails(k) => /\ result' \in Results /\ pc' = "unsubscribe"
                             /\ run' \in Run /\ run'.state \in DOMAIN job.def.states
<1>1. Failed(k) => result' \in Results
  BY DEF Failed, Results
<1>2. run.state \in Nat
  BY DEF TypeOK, Run
<1>3. Verdict(k, "fail") \in Results
  BY <1>2 DEF Verdict, Results
<1>4. Returned(job.def, eap_run_abandon(job.def, run))
  BY AbandonType DEF TypeOK
<1> QED BY <1>1, <1>3, <1>4 DEF WriteFails, Returned

LEMMA TypeNext == TypeOK /\ [Next]_vars => TypeOK'
<1> SUFFICES ASSUME TypeOK, [Next]_vars PROVE TypeOK'
  OBVIOUS
<1> USE DEF runVars, timeVars, radio, queueVars, frameHistory, waitHistory
<1>a. /\ job.def \in ProtocolDef /\ WellFormed(job.def) /\ job.timeout_ms \in Nat
      /\ run \in Run /\ run.state \in DOMAIN job.def.states
  BY JobType DEF TypeOK
<1>b. NextSource \subseteq SourceIds
  BY LowestIsIn DEF NextSource
<1>1. ASSUME NEW s \in SourceIds, NEW p \in Payload, protocol_notify_cb(s, p) PROVE TypeOK'
  <2> DEFINE n == [source |-> s, payload |-> p, id |-> arrived + 1, run |-> turn]
  <2>1. n \in Note
    BY DEF Note, TypeOK
  <2>2. /\ arrived' = arrived + 1
        /\ UNCHANGED <<runVars, timeVars, radio, result, turn, taken, waitHistory>>
    BY <1>1 DEF protocol_notify_cb, k_msgq_put
  <2> HIDE DEF n
  <2>3. \/ pc' = pc /\ note' = note
        \/ pc' = "woken" /\ note' = n
    BY <1>1 DEF protocol_notify_cb, k_msgq_put, n
  <2>6. /\ unseen' = unseen \/ unseen' = unseen + 1
        /\ \/ protocol_notifications_dropped' = protocol_notifications_dropped
           \/ protocol_notifications_dropped' = protocol_notifications_dropped + 1
    BY <1>1 DEF protocol_notify_cb, k_msgq_put, CountedDrop
  <2>7. \/ protocol_notify_q' = protocol_notify_q
        \/ HasSlot /\ protocol_notify_q' = Append(protocol_notify_q, n)
    BY <1>1, Zenon DEF protocol_notify_cb, k_msgq_put, n
  <2>4. protocol_notify_q' \in Seq(Note) /\ Len(protocol_notify_q') <= QueueSlots
    BY <2>1, <2>7, RunProtocolAssumption DEF HasSlot, TypeOK
  <2>5. pc' = "woken" => note' \in Note
    BY <2>1, <2>3 DEF TypeOK
  <2> QED BY <2>2, <2>3, <2>4, <2>5, <2>6 DEF TypeOK
<1>2. CASE AttResponse
  BY <1>2 DEF AttResponse, TypeOK
<1>3. CASE disconnected_cb
  <2>1. answer' \in {"none", "ok", "rejected"} /\ conn' = FALSE
    BY <1>3 DEF disconnected_cb, TypeOK
  <2>2. /\ UNCHANGED <<pc, job, run, step, now, wake, armed, protocol_notify_q, note, turn>>
        /\ UNCHANGED <<protocol_notifications_dropped, result, arrived, taken, unseen, since, fresh,
                       heard, stalls>>
    BY <1>3 DEF disconnected_cb
  <2>3. conn' \in BOOLEAN /\ fresh' \in BOOLEAN
    BY <2>1, <2>2 DEF TypeOK
  <2>4. run' \in Run /\ run'.state \in DOMAIN job'.def.states /\ (pc' = "woken" => note' \in Note)
    BY <2>2 DEF TypeOK
  <2> QED BY <2>1, <2>2, <2>3, <2>4 DEF TypeOK
<1>4. ASSUME NEW j \in Jobs, execute_run_protocol(j) PROVE TypeOK'
  <2>1. run' \in Run /\ run'.state \in DOMAIN job'.def.states
    BY <1>4, StartType DEF execute_run_protocol
  <2>2. result' \in Results
    BY <1>4 DEF execute_run_protocol, Failed, NoResult, Results
  <2>3. turn' \in {0, 1} /\ job' \in Jobs /\ pc' \in {"idle", "resolve"} /\ step' \in EapStep
    BY <1>4 DEF execute_run_protocol, TypeOK
  <2>4. /\ now' \in Nat /\ wake' \in Nat /\ armed' \subseteq SourceIds
        /\ answer' \in {"none", "ok", "rejected"}
        /\ arrived' \in Nat /\ taken' \in Nat /\ unseen' \in Nat
        /\ since' \in Nat /\ heard' \in Nat /\ stalls' \in Nat
    BY <1>4 DEF execute_run_protocol
  <2>5. conn' \in BOOLEAN /\ fresh' \in BOOLEAN
    BY <1>4 DEF execute_run_protocol
  <2>6. /\ protocol_notify_q' \in Seq(Note) /\ Len(protocol_notify_q') <= QueueSlots
        /\ protocol_notifications_dropped' \in Nat
    BY <1>4 DEF execute_run_protocol, TypeOK
  <2> QED BY <2>1, <2>2, <2>3, <2>4, <2>5, <2>6 DEF TypeOK, Results
<1>5. CASE protocol_resolve_sources
  <2>1. result' \in Results
    BY <1>5, FailedType DEF protocol_resolve_sources, TypeOK, Results
  <2>2. protocol_notify_q' \in Seq(Note) /\ Len(protocol_notify_q') <= QueueSlots
    <3>1. protocol_notify_q' = protocol_notify_q \/ protocol_notify_q' = <<>>
      BY <1>5 DEF protocol_resolve_sources
    <3>2. <<>> \in Seq(Note) /\ Len(<<>>) = 0
      OBVIOUS
    <3>3. protocol_notify_q \in Seq(Note) /\ Len(protocol_notify_q) <= QueueSlots
      BY DEF TypeOK
    <3>4. CASE protocol_notify_q' = protocol_notify_q
      BY <3>3, <3>4
    <3>5. CASE protocol_notify_q' = <<>>
      <4>1. 0 <= QueueSlots
        BY RunProtocolAssumption
      <4> QED BY <3>2, <3>5, <4>1
    <3> QED BY <3>1, <3>4, <3>5
  <2> QED BY <1>5, <2>1, <2>2 DEF protocol_resolve_sources, TypeOK, Results
<1>6. CASE protocol_subscribe_sources
  <2>1. Returned(job.def, eap_run_enter(job.def, run))
    BY <1>a, EnterType DEF TypeOK
  <2>2. /\ run' \in Run /\ run'.state \in DOMAIN job.def.states
        /\ step' \in EapStep
    BY <1>6, <2>1 DEF protocol_subscribe_sources, Returned, TypeOK
  <2>3. result' \in Results
    BY <1>6, FailedType DEF protocol_subscribe_sources, TypeOK, Results
  <2>4. /\ pc' \in {"step", "ccc", "unsubscribe"} /\ answer' \in {"none", "ok", "rejected"}
        /\ fresh' \in BOOLEAN
        /\ UNCHANGED <<job, timeVars, armed, conn, queueVars, turn, frameHistory, since, heard, stalls>>
    BY <1>6 DEF protocol_subscribe_sources, TypeOK
  <2> QED BY <2>2, <2>3, <2>4 DEF TypeOK, Results
<1>7. CASE SubscribeDone
  <2>1. result' \in Results
    BY <1>7, FailedType DEF SubscribeDone, TypeOK, Results
  <2> QED BY <1>7, <1>b, <2>1 DEF SubscribeDone, TypeOK, Results
<1>8. CASE TakeVerdict
  <2>1. result' \in Results
    BY <1>8 DEF TakeVerdict, Verdict, TypeOK, EapStep, Run, Results
  <2> QED BY <1>8, <2>1 DEF TakeVerdict, TypeOK, Results
<1>9. CASE protocol_write
  <2>1. \/ WriteFails("fail") /\ answer' = answer
        \/ /\ pc' \in {"await", "write"} /\ answer' \in {"none", answer}
           /\ UNCHANGED <<run, result>>
    BY <1>9 DEF protocol_write
  <2>2. result' \in Results /\ run' \in Run /\ run'.state \in DOMAIN job.def.states
        /\ pc' \in {"await", "write", "unsubscribe"}
    BY <2>1, FailedType DEF TypeOK, Results
  <2> QED BY <1>9, <2>1, <2>2 DEF protocol_write, TypeOK, Results
<1>10. CASE WriteDone
  <2>1. \/ \E k \in {"fail", "timed_out", "disconnected"} : WriteFails(k)
        \/ pc' = "await" /\ UNCHANGED <<run, result>>
    BY <1>10 DEF WriteDone
  <2>2. result' \in Results /\ run' \in Run /\ run'.state \in DOMAIN job.def.states
        /\ pc' \in {"await", "unsubscribe"}
    BY <2>1, FailedType DEF TypeOK, Results
  <2> QED BY <1>10, <2>2 DEF WriteDone, TypeOK, Results
<1>11. CASE GoOnWaiting
  BY <1>11 DEF GoOnWaiting, TypeOK
<1>12. CASE AwaitFrame
  <2>1. wake' \in Nat
    <3>1. step.has_deadline \in BOOLEAN /\ step.deadline_ms \in Nat /\ now \in Nat
      BY DEF TypeOK, EapStep
    <3> QED BY <1>12, <1>a, <3>1 DEF AwaitFrame, protocol_state_deadline, Earlier
  <2>2. since' \in Nat
    BY <1>12 DEF AwaitFrame, TypeOK
  <2>3. CASE protocol_notify_q # <<>>
    <3>1. Head(protocol_notify_q) \in Note /\ Tail(protocol_notify_q) \in Seq(Note)
          /\ Len(Tail(protocol_notify_q)) <= QueueSlots
      BY <2>3, RunProtocolAssumption DEF TypeOK
    <3> QED BY <1>12, <2>1, <2>2, <2>3, <3>1 DEF AwaitFrame, TypeOK
  <2>4. CASE protocol_notify_q = <<>>
    BY <1>12, <2>1, <2>2, <2>4 DEF AwaitFrame, TypeOK
  <2> QED BY <2>3, <2>4
<1>13. CASE OnFrame
  <2> DEFINE ev == [kind |-> "notify", source |-> note.source, payload |-> note.payload]
  <2>1. ev.payload \in Payload
    BY <1>13 DEF OnFrame, TypeOK, Note
  <2> HIDE DEF ev
  <2>2. Returned(job.def, eap_run_on_event(job.def, run, ev))
    BY <1>a, <2>1, EventType
  <2>3. run' \in Run /\ run'.state \in DOMAIN job.def.states /\ step' \in EapStep
        /\ fresh' \in BOOLEAN
    BY <1>13, <2>2 DEF OnFrame, Returned, ev, EapStep
  <2> QED BY <1>13, <2>3 DEF OnFrame, TypeOK
<1>14. CASE WaitExpires
  BY <1>14 DEF WaitExpires, TypeOK
<1>15. CASE OnExpiry
  <2>1. Returned(job.def, eap_run_abandon(job.def, run))
    BY <1>a, AbandonType
  <2>2. Returned(job.def, eap_run_on_event(job.def, run, [kind |-> "timeout"]))
    BY <1>a, EventType
  <2>3. /\ run' \in Run /\ run'.state \in DOMAIN job.def.states /\ step' \in EapStep
        /\ fresh' \in BOOLEAN
    BY <1>15, <2>1, <2>2 DEF OnExpiry, Returned, EapStep
  <2>4. stalls' \in Nat
    BY <1>15 DEF OnExpiry, TypeOK
  <2> QED BY <1>15, <2>3, <2>4 DEF OnExpiry, TypeOK
<1>16. CASE protocol_unsubscribe_all
  BY <1>16 DEF protocol_unsubscribe_all, TypeOK
<1>17. CASE Tick
  BY <1>17 DEF Tick, TypeOK
<1>18. CASE UNCHANGED vars
  BY <1>18 DEF vars, TypeOK
<1>19. CASE Dispatch
  BY <1>5, <1>6, <1>7, <1>8, <1>9, <1>10, <1>11, <1>12, <1>13, <1>14, <1>15, <1>16, <1>19
  DEF Dispatch
<1> QED BY <1>1, <1>2, <1>3, <1>4, <1>17, <1>18, <1>19 DEF Next, BtRx

(* A run stays in a state of its protocol, its retries and its queue within
   their bounds, for every well-formed protocol.                              *)
THEOREM ProtocolTypeCorrect == Spec => []TypeOK
BY TypeInit, TypeNext, PTL DEF Spec

-----------------------------------------------------------------------------
(* No wait is longer than the step: what the clock needs for the deadline to
   hold.                                                                      *)
InTime == /\ pc # "idle" => now <= job.timeout_ms
          /\ pc = "wait" => wake <= job.timeout_ms

LEMMA InTimeNext == TypeOK /\ InTime /\ [Next]_vars => InTime'
<1> SUFFICES ASSUME TypeOK, InTime, [Next]_vars PROVE InTime'
  OBVIOUS
<1> USE DEF runVars, timeVars, radio, queueVars, frameHistory, waitHistory
<1>a. job.timeout_ms \in Nat /\ now \in Nat /\ wake \in Nat
  BY JobType DEF TypeOK
<1>1. ASSUME NEW s \in SourceIds, NEW p \in Payload, protocol_notify_cb(s, p) PROVE InTime'
  <2>1. UNCHANGED <<job, now, wake>> /\ (pc' = pc \/ (pc = "wait" /\ pc' = "woken"))
    BY <1>1 DEF protocol_notify_cb, k_msgq_put
  <2> QED BY <2>1 DEF InTime
<1>2. CASE AttResponse \/ disconnected_cb
  BY <1>2 DEF AttResponse, disconnected_cb, InTime
<1>3. ASSUME NEW j \in Jobs, execute_run_protocol(j) PROVE InTime'
  BY <1>3, JobType DEF execute_run_protocol, InTime
<1>4. CASE AwaitFrame
  <2>1. protocol_state_deadline <= job.timeout_ms
    <3>1. step.deadline_ms \in Nat
      BY DEF TypeOK, EapStep
    <3> QED BY <1>a, <3>1 DEF protocol_state_deadline, Earlier
  <2>2. wake' = protocol_state_deadline /\ pc # "idle" /\ UNCHANGED <<job, now>>
    BY <1>4 DEF AwaitFrame
  <2> QED BY <2>1, <2>2 DEF InTime
<1>5. CASE Tick
  BY <1>5, <1>a DEF Tick, Blocked, StepDeadlinePassed, InTime
<1>6. CASE \/ protocol_resolve_sources \/ protocol_subscribe_sources \/ SubscribeDone
           \/ TakeVerdict \/ protocol_write \/ WriteDone \/ GoOnWaiting
           \/ OnFrame \/ WaitExpires \/ OnExpiry \/ protocol_unsubscribe_all
  <2>1. UNCHANGED <<job, now, wake>> /\ pc # "idle" /\ pc' # "wait"
    BY <1>6 DEF protocol_resolve_sources, protocol_subscribe_sources, SubscribeDone, TakeVerdict,
       protocol_write, WriteDone, WriteFails, GoOnWaiting, OnFrame, WaitExpires, OnExpiry,
       protocol_unsubscribe_all
  <2> QED BY <2>1 DEF InTime
<1>7. CASE UNCHANGED vars
  BY <1>7 DEF vars, InTime
<1> QED BY <1>1, <1>2, <1>3, <1>4, <1>5, <1>6, <1>7 DEF Next, BtRx, Dispatch

(* The step's timeout_ms bounds the whole run, whatever the protocol and the
   DUT do.                                                                    *)
THEOREM DeadlineHolds == Spec => []NeverPastDeadline
<1>1. Init => InTime
  BY DEF Init, InTime
<1>2. InTime => NeverPastDeadline
  BY DEF InTime, NeverPastDeadline
<1> QED BY <1>1, <1>2, InTimeNext, ProtocolTypeCorrect, PTL DEF Spec

-----------------------------------------------------------------------------
(* While a run resolves its sources nothing is armed and nothing has come.    *)
Accounted ==
  /\ EveryFrameAccounted
  /\ pc = "resolve" => armed = {} /\ arrived = 0 /\ taken = 0 /\ unseen = 0

LEMMA AccountedNext == TypeOK /\ Accounted /\ [Next]_vars => Accounted'
<1> SUFFICES ASSUME TypeOK, Accounted, [Next]_vars PROVE Accounted'
  OBVIOUS
<1> USE DEF runVars, timeVars, radio, queueVars, frameHistory, waitHistory
<1> DEFINE sameFrames == UNCHANGED <<protocol_notify_q, protocol_notifications_dropped, arrived,
                                     taken, unseen>>
<1>a. /\ arrived \in Nat /\ taken \in Nat /\ unseen \in Nat
      /\ protocol_notifications_dropped \in Nat /\ protocol_notify_q \in Seq(Note)
      /\ Len(protocol_notify_q) \in Nat
  BY DEF TypeOK
<1>b. ASSUME sameFrames, pc \notin {"idle", "resolve", "woken"}, pc' \notin {"resolve", "woken"}
      PROVE  Accounted'
  BY <1>b DEF Accounted, EveryFrameAccounted
<1>1. ASSUME NEW s \in SourceIds, NEW p \in Payload, protocol_notify_cb(s, p) PROVE Accounted'
  <2> DEFINE n == [source |-> s, payload |-> p, id |-> arrived + 1, run |-> turn]
  <2>1. arrived' = arrived + 1 /\ taken' = taken /\ pc # "resolve" /\ pc' # "resolve"
    BY <1>1 DEF protocol_notify_cb, k_msgq_put, Accounted, Enabled
  <2>2. CASE pc = "idle"
    BY <1>1, <2>1, <2>2 DEF protocol_notify_cb, k_msgq_put, Accounted, EveryFrameAccounted
  <2>3. CASE pc # "idle" /\ unseen' = unseen + 1 /\ UNCHANGED <<pc, queueVars>>
    BY <1>a, <2>1, <2>3 DEF Accounted, EveryFrameAccounted
  <2>4. CASE /\ pc = "wait" /\ pc' = "woken"
             /\ UNCHANGED <<protocol_notify_q, protocol_notifications_dropped, unseen>>
    BY <1>a, <2>1, <2>4 DEF Accounted, EveryFrameAccounted
  <2>5. CASE /\ pc # "idle" /\ protocol_notify_q' = Append(protocol_notify_q, n)
             /\ UNCHANGED <<pc, protocol_notifications_dropped, unseen>>
    <3>1. Len(protocol_notify_q') = Len(protocol_notify_q) + 1
      BY <1>a, <2>5
    <3> QED BY <1>a, <2>1, <2>5, <3>1 DEF Accounted, EveryFrameAccounted
  <2>6. CASE /\ pc # "idle"
             /\ protocol_notifications_dropped' = protocol_notifications_dropped + 1
             /\ UNCHANGED <<pc, protocol_notify_q, unseen>>
    BY <1>a, <2>1, <2>6 DEF Accounted, EveryFrameAccounted
  <2> QED BY <1>1, <2>2, <2>3, <2>4, <2>5, <2>6 DEF protocol_notify_cb, k_msgq_put, CountedDrop
<1>2. CASE AttResponse \/ disconnected_cb
  BY <1>2 DEF AttResponse, disconnected_cb, Accounted, EveryFrameAccounted
<1>3. ASSUME NEW j \in Jobs, execute_run_protocol(j) PROVE Accounted'
  BY <1>3 DEF execute_run_protocol, Accounted, EveryFrameAccounted
<1>4. CASE protocol_resolve_sources
  BY <1>4 DEF protocol_resolve_sources, Accounted, EveryFrameAccounted
<1>5. CASE protocol_subscribe_sources \/ SubscribeDone \/ TakeVerdict \/ GoOnWaiting
           \/ WaitExpires \/ OnExpiry \/ protocol_unsubscribe_all
  BY <1>5, <1>b DEF protocol_subscribe_sources, SubscribeDone, TakeVerdict, GoOnWaiting,
     WaitExpires, OnExpiry, protocol_unsubscribe_all
<1>6. CASE protocol_write \/ WriteDone
  BY <1>6, <1>b DEF protocol_write, WriteDone, WriteFails
<1>7. CASE AwaitFrame
  <2>1. UNCHANGED <<protocol_notifications_dropped, arrived, taken, unseen>> /\ pc = "await"
    BY <1>7 DEF AwaitFrame
  <2>2. CASE protocol_notify_q # <<>>
    <3>1. Len(protocol_notify_q') = Len(protocol_notify_q) - 1 /\ pc' = "woken"
      BY <1>7, <1>a, <2>2 DEF AwaitFrame
    <3> QED BY <1>a, <2>1, <3>1 DEF Accounted, EveryFrameAccounted
  <2>3. CASE protocol_notify_q = <<>>
    BY <1>7, <1>b, <2>1, <2>3 DEF AwaitFrame
  <2> QED BY <2>2, <2>3
<1>8. CASE OnFrame
  <2>1. /\ taken' = taken + 1 /\ pc = "woken" /\ pc' = "step"
        /\ UNCHANGED <<protocol_notify_q, protocol_notifications_dropped, arrived, unseen>>
    BY <1>8 DEF OnFrame
  <2> QED BY <1>a, <2>1 DEF Accounted, EveryFrameAccounted
<1>9. CASE Tick \/ UNCHANGED vars
  BY <1>9 DEF Tick, vars, Accounted, EveryFrameAccounted
<1> QED BY <1>1, <1>2, <1>3, <1>4, <1>5, <1>6, <1>7, <1>8, <1>9 DEF Next, BtRx, Dispatch

(* Between the BT RX thread and the machine no notification goes missing
   without a count, for every queue size and every burst.                     *)
THEOREM FramesAccounted == Spec => []EveryFrameAccounted
<1>1. Init => Accounted
  BY DEF Init, Accounted, EveryFrameAccounted
<1>2. Accounted => EveryFrameAccounted
  BY DEF Accounted
<1> QED BY <1>1, <1>2, AccountedNext, ProtocolTypeCorrect, PTL DEF Spec

-----------------------------------------------------------------------------
(* What the frames of a run need to stay in order: none is newer than the last
   that arrived, a waiting thread leaves none in the queue, and while sources
   are resolved none can come.                                                *)
Numbered ==
  /\ FramesInOrder
  /\ pc \notin {"idle", "resolve"} =>
       /\ \A k \in DOMAIN protocol_notify_q : protocol_notify_q[k].id <= arrived
       /\ pc = "woken" => note.id <= arrived
  /\ pc = "wait" => protocol_notify_q = <<>>
  /\ pc = "resolve" => armed = {}

LEMMA NumberedNext == TypeOK /\ Numbered /\ [Next]_vars => Numbered'
<1> SUFFICES ASSUME TypeOK, Numbered, [Next]_vars PROVE Numbered'
  OBVIOUS
<1> USE DEF runVars, timeVars, radio, queueVars, frameHistory, waitHistory
<1>a. arrived \in Nat /\ protocol_notify_q \in Seq(Note)
  BY DEF TypeOK
<1>i. \A k \in DOMAIN protocol_notify_q : protocol_notify_q[k].id \in Nat
  <2>1. \A k \in DOMAIN protocol_notify_q : protocol_notify_q[k] \in Note
    BY <1>a
  <2> QED BY <2>1 DEF Note
<1>w. pc = "woken" => note.id \in Nat
  BY DEF TypeOK, Note
<1>b. ASSUME UNCHANGED <<protocol_notify_q, arrived, turn>>, pc \notin {"idle", "resolve"},
             pc' \notin {"resolve", "woken", "wait"}
      PROVE  Numbered'
  BY <1>b DEF Numbered, FramesInOrder
<1>1. ASSUME NEW s \in SourceIds, NEW p \in Payload, protocol_notify_cb(s, p) PROVE Numbered'
  <2> DEFINE n == [source |-> s, payload |-> p, id |-> arrived + 1, run |-> turn]
  <2>1. arrived' = arrived + 1 /\ turn' = turn /\ pc # "resolve" /\ pc' # "resolve"
    BY <1>1 DEF protocol_notify_cb, k_msgq_put, Numbered, Enabled
  <2>2. CASE pc = "idle"
    BY <1>1, <2>1, <2>2 DEF protocol_notify_cb, k_msgq_put, Numbered, FramesInOrder
  <2>3. CASE pc # "idle" /\ UNCHANGED <<pc, protocol_notify_q, note>>
    <3>1. \A k \in DOMAIN protocol_notify_q : protocol_notify_q[k].id <= arrived + 1
      BY <1>a, <1>i, <2>1, <2>3 DEF Numbered
    <3>2. pc = "woken" => note.id <= arrived + 1
      BY <1>a, <1>w, <2>1, <2>3 DEF Numbered
    <3> QED BY <2>1, <2>3, <3>1, <3>2 DEF Numbered, FramesInOrder
  <2>4. CASE pc = "wait" /\ pc' = "woken" /\ note' = n /\ UNCHANGED protocol_notify_q
    BY <1>a, <2>1, <2>4 DEF Numbered, FramesInOrder
  <2>5. CASE /\ pc \notin {"idle", "wait"} /\ protocol_notify_q' = Append(protocol_notify_q, n)
             /\ UNCHANGED <<pc, note>>
    <3> DEFINE q == protocol_notify_q
               L == Len(protocol_notify_q)
    <3>1. /\ L \in Nat /\ DOMAIN q = 1..L /\ DOMAIN q' = 1..(L + 1)
          /\ q'[L + 1] = n /\ \A k \in 1..L : q'[k] = q[k]
      BY <1>a, <2>5
    <3>2. \A k \in 1..L : /\ q[k].run = turn /\ q[k].id \in Nat /\ q[k].id <= arrived
                          /\ pc = "woken" => note.id < q[k].id
      BY <1>i, <2>1, <2>5, <3>1 DEF Numbered, FramesInOrder
    <3>3. \A j, k \in 1..L : j < k => q[j].id < q[k].id
      BY <2>1, <2>5, <3>1 DEF Numbered, FramesInOrder
    <3>4. pc = "woken" => note.run = turn /\ note.id \in Nat /\ note.id <= arrived
      BY <1>w, <2>1, <2>5 DEF Numbered, FramesInOrder
    <3> HIDE DEF q, L
    <3>5. n.id = arrived + 1 /\ n.run = turn
      OBVIOUS
    <3> HIDE DEF n
    <3>6. \A k \in DOMAIN q' : q'[k].run = turn' /\ q'[k].id <= arrived'
      BY <1>a, <2>1, <3>1, <3>2, <3>5
    <3>7. \A j, k \in DOMAIN q' : j < k => q'[j].id < q'[k].id
      <4> SUFFICES ASSUME NEW j \in 1..(L + 1), NEW k \in 1..(L + 1), j < k
                   PROVE  q'[j].id < q'[k].id
        BY <3>1
      <4>1. j \in 1..L
        BY <3>1
      <4>2. CASE k \in 1..L
        BY <3>1, <3>3, <4>1, <4>2
      <4>3. CASE k = L + 1
        BY <1>a, <3>1, <3>2, <3>5, <4>1, <4>3
      <4> QED BY <3>1, <4>2, <4>3
    <3>8. pc' = "woken" => /\ note'.run = turn' /\ note'.id <= arrived'
                           /\ \A k \in DOMAIN q' : note'.id < q'[k].id
      <4>1. pc = "woken" => \A k \in 1..(L + 1) : note.id < q'[k].id
        BY <1>a, <3>1, <3>2, <3>4, <3>5
      <4>2. pc = "woken" => note.id <= arrived + 1
        BY <1>a, <3>4
      <4> QED BY <2>1, <2>5, <3>1, <3>4, <4>1, <4>2
    <3> QED BY <2>1, <2>5, <3>6, <3>7, <3>8 DEF Numbered, FramesInOrder, q
  <2> QED BY <1>1, <2>2, <2>3, <2>4, <2>5 DEF protocol_notify_cb, k_msgq_put
<1>2. CASE AttResponse \/ disconnected_cb
  BY <1>2 DEF AttResponse, disconnected_cb, Numbered, FramesInOrder
<1>3. ASSUME NEW j \in Jobs, execute_run_protocol(j) PROVE Numbered'
  BY <1>3 DEF execute_run_protocol, Numbered, FramesInOrder
<1>4. CASE protocol_resolve_sources
  BY <1>4 DEF protocol_resolve_sources, Numbered, FramesInOrder
<1>5. CASE protocol_subscribe_sources \/ SubscribeDone \/ TakeVerdict \/ GoOnWaiting
           \/ WaitExpires \/ OnExpiry \/ OnFrame \/ protocol_unsubscribe_all
  BY <1>5, <1>b DEF protocol_subscribe_sources, SubscribeDone, TakeVerdict, GoOnWaiting,
     WaitExpires, OnExpiry, OnFrame, protocol_unsubscribe_all
<1>6. CASE protocol_write \/ WriteDone
  BY <1>6, <1>b DEF protocol_write, WriteDone, WriteFails
<1>7. CASE AwaitFrame
  <2>1. UNCHANGED <<arrived, turn>> /\ pc = "await"
    BY <1>7 DEF AwaitFrame
  <2>2. CASE protocol_notify_q # <<>>
    <3> DEFINE q == protocol_notify_q
               L == Len(protocol_notify_q)
    <3>1. pc' = "woken" /\ note' = Head(q) /\ q' = Tail(q)
      BY <1>7, <2>2 DEF AwaitFrame
    <3>2. /\ L \in Nat \ {0} /\ DOMAIN q = 1..L /\ DOMAIN q' = 1..(L - 1)
          /\ note' = q[1] /\ \A k \in 1..(L - 1) : q'[k] = q[k + 1]
      BY <1>a, <2>2, <3>1
    <3>3. \A k \in 1..L : q[k].run = turn /\ q[k].id <= arrived
      BY <2>1, <3>2 DEF Numbered, FramesInOrder
    <3>4. \A j, k \in 1..L : j < k => q[j].id < q[k].id
      BY <2>1, <3>2 DEF Numbered, FramesInOrder
    <3> HIDE DEF q, L
    <3>5. /\ 1 \in 1..L
          /\ \A k \in 1..(L - 1) : k + 1 \in 1..L /\ 1 < k + 1
          /\ \A j, k \in 1..(L - 1) : j < k => j + 1 < k + 1
      BY <3>2
    <3>6. /\ \A k \in DOMAIN q' : q'[k].run = turn /\ q'[k].id <= arrived /\ note'.id < q'[k].id
          /\ note'.run = turn /\ note'.id <= arrived
      BY <3>2, <3>3, <3>4, <3>5
    <3>7. \A j, k \in DOMAIN q' : j < k => q'[j].id < q'[k].id
      BY <3>2, <3>4, <3>5
    <3> QED BY <2>1, <3>1, <3>6, <3>7 DEF Numbered, FramesInOrder, q
  <2>3. CASE protocol_notify_q = <<>>
    BY <1>7, <2>1, <2>3 DEF AwaitFrame, Numbered, FramesInOrder
  <2> QED BY <2>2, <2>3
<1>8. CASE Tick \/ UNCHANGED vars
  BY <1>8 DEF Tick, vars, Numbered, FramesInOrder
<1> QED BY <1>1, <1>2, <1>3, <1>4, <1>5, <1>6, <1>7, <1>8 DEF Next, BtRx, Dispatch

(* The machine is fed this run's frames only, in the order they arrived, for
   every queue size and every burst.                                          *)
THEOREM FramesOrdered == Spec => []FramesInOrder
<1>1. Init => Numbered
  BY DEF Init, Numbered, FramesInOrder
<1>2. Numbered => FramesInOrder
  BY DEF Numbered
<1> QED BY <1>1, <1>2, NumberedNext, ProtocolTypeCorrect, PTL DEF Spec

-----------------------------------------------------------------------------
(* What the interpreter answers a run that is not over with: a run that is
   over exactly if the instruction is a verdict, and a pass only from a state
   that declares one.                                                         *)
Honest(def, x) ==
  /\ x.step.kind = "done" <=> x.run.finished
  /\ x.step.kind = "done" => x.step.outcome \in {"pass", "fail"}
  /\ x.step.kind = "done" /\ x.step.outcome = "pass" =>
       CurrentState(def, x.run).kind = "terminal" /\ CurrentState(def, x.run).terminal = "pass"

LEMMA PairHonest ==
  ASSUME NEW def, NEW t, ~t.finished, NEW w, w.kind # "done"
  PROVE  Honest(def, [run |-> t, step |-> w])
BY DEF Honest

LEMMA FailHonest ==
  ASSUME NEW def, NEW t, t.finished
  PROVE  Honest(def, [run |-> t, step |-> Outcome("fail", TRUE)])
BY DEF Honest, Outcome

LEMMA EnteredHonest ==
  ASSUME NEW def \in ProtocolDef, NEW r \in Run, r.state \in DOMAIN def.states, ~r.finished
  PROVE  Honest(def, on_entered(def, r))
<1> DEFINE st == CurrentState(def, r)
<1>1. st \in State
  BY StateType DEF CurrentState
<1>2. st.kind \in {"active", "terminal"} /\ st.terminal \in {"pass", "fail"}
      /\ st.has_on_enter \in BOOLEAN /\ st.on_enter.resolves \in BOOLEAN
  BY <1>1 DEF State, Write
<1>3. Finished(r).finished = TRUE /\ CurrentState(def, Finished(r)) = st
  BY DEF Finished, Run, CurrentState
<1>4. wait_step(st, TRUE).kind = "wait"
  BY DEF wait_step
<1>5. write_step(st).kind = "write"
  BY DEF write_step, wait_step
<1>6. \A o : Outcome(o, TRUE).kind = "done" /\ Outcome(o, TRUE).outcome = o
  BY DEF Outcome
<1> HIDE DEF st
<1>7. CASE st.kind = "terminal"
  BY <1>2, <1>3, <1>6, <1>7 DEF on_entered, Honest, st
<1>8. CASE st.kind = "active" /\ ~st.has_on_enter
  BY <1>4, <1>8 DEF on_entered, Honest, st
<1>9. CASE st.kind = "active" /\ st.has_on_enter /\ ~st.on_enter.resolves
  <2>1. on_entered(def, r) = [run |-> Finished(r), step |-> Outcome("fail", TRUE)]
    BY <1>9 DEF on_entered, st
  <2> QED BY <1>3, <2>1, FailHonest
<1>10. CASE st.kind = "active" /\ st.has_on_enter /\ st.on_enter.resolves
  BY <1>5, <1>10 DEF on_entered, Honest, st
<1> QED BY <1>2, <1>7, <1>8, <1>9, <1>10

LEMMA GoToHonest ==
  ASSUME NEW def \in ProtocolDef, NEW r \in Run, ~r.finished,
         NEW s \in DOMAIN def.states, s \in Nat
  PROVE  Honest(def, GoTo(def, r, s))
<1>1. [[r EXCEPT !.state = s] EXCEPT !.retries = 0] \in Run
  BY DEF Run
<1>2. /\ [[r EXCEPT !.state = s] EXCEPT !.retries = 0].state = s
      /\ ~[[r EXCEPT !.state = s] EXCEPT !.retries = 0].finished
  BY DEF Run
<1> QED BY <1>1, <1>2, EnteredHonest DEF GoTo, eap_run_enter

LEMMA TimeoutHonest ==
  ASSUME NEW def \in ProtocolDef, WellFormed(def), NEW r \in Run, r.state \in DOMAIN def.states,
         ~r.finished
  PROVE  Honest(def, on_timeout(def, r))
<1> DEFINE st == CurrentState(def, r)
<1>1. st \in State
  BY StateType DEF CurrentState
<1>2. st.has_on_timeout \in BOOLEAN /\ st.on_timeout.goto_state \in Nat
      /\ st.on_timeout.goto_state \in DOMAIN def.states
  BY <1>1 DEF State, TimeoutArm, WellFormed, CurrentState
<1>3. Retried(r) \in Run /\ Retried(r).state = r.state /\ ~Retried(r).finished
  BY DEF Retried, Run
<1>4. wait_step(st, FALSE).kind = "wait"
  BY DEF wait_step
<1>5. Honest(def, on_entered(def, Retried(r)))
  BY <1>3, EnteredHonest
<1>6. Honest(def, GoTo(def, r, st.on_timeout.goto_state))
  BY <1>2, GoToHonest
<1> HIDE DEF st
<1>7. CASE ~st.has_on_timeout
  BY <1>4, <1>7 DEF on_timeout, Honest, st
<1>8. CASE st.has_on_timeout /\ r.retries < st.on_timeout.retry
  BY <1>5, <1>8 DEF on_timeout, st
<1>9. CASE st.has_on_timeout /\ ~(r.retries < st.on_timeout.retry)
  BY <1>6, <1>9 DEF on_timeout, st
<1> QED BY <1>2, <1>7, <1>8, <1>9

LEMMA EventHonest ==
  ASSUME NEW def \in ProtocolDef, WellFormed(def), NEW r \in Run, r.state \in DOMAIN def.states,
         ~r.finished, NEW ev, ev.kind = "timeout" \/ ev.payload \in Payload
  PROVE  Honest(def, eap_run_on_event(def, r, ev))
<1>1. CurrentState(def, r).kind \in {"active", "terminal"}
  BY StateType DEF CurrentState, State
<1>2. CASE CurrentState(def, r).kind = "terminal"
  BY <1>2, EnteredHonest DEF eap_run_on_event
<1>3. CASE CurrentState(def, r).kind = "active" /\ ev.kind = "timeout"
  BY <1>3, TimeoutHonest DEF eap_run_on_event
<1>4. CASE CurrentState(def, r).kind = "active" /\ ev.kind # "timeout"
  <2>1. eap_run_on_event(def, r, ev) = on_notify(def, r, ev.source, ev.payload)
    BY <1>4 DEF eap_run_on_event
  <2>2. wait_step(CurrentState(def, r), FALSE).kind = "wait"
    BY DEF wait_step
  <2> DEFINE x == on_notify(def, r, ev.source, ev.payload)
  <2>3. PICK told \in Run : Answered(def, r, told, x)
    BY <1>4, NotifyShape
  <2> HIDE DEF x
  <2>4. ~told.finished
    BY <2>3 DEF Answered
  <2>5. ASSUME Stays(def, r, told, x) PROVE Honest(def, x)
    BY <2>2, <2>4, <2>5, PairHonest DEF Stays
  <2>6. ASSUME Leaves(def, told, x) PROVE Honest(def, x)
    <3>1. PICK s \in DOMAIN def.states : s \in Nat /\ x = GoTo(def, told, s)
      BY <2>6 DEF Leaves
    <3> QED BY <2>4, <3>1, GoToHonest
  <2>7. Honest(def, x)
    BY <2>3, <2>5, <2>6 DEF Answered
  <2> QED BY <2>1, <2>7 DEF x
<1> QED BY <1>1, <1>2, <1>3, <1>4

(* The verdict the loop is about to take, and the run it has not taken one of. *)
Earned ==
  /\ VerdictIsEarned
  /\ pc = "step" /\ step.kind = "done" =>
       /\ step.outcome \in {"pass", "fail", "timed_out"}
       /\ step.outcome = "pass" => /\ CurrentState(job.def, run).kind = "terminal"
                                   /\ CurrentState(job.def, run).terminal = "pass"
       /\ step.outcome = "timed_out" => StepDeadlinePassed
  /\ pc \in {"resolve", "arm", "ccc", "write", "await", "wait", "woken", "expired"} => ~run.finished
  /\ pc = "step" /\ step.kind # "done" => ~run.finished

LEMMA EarnedNext == TypeOK /\ Earned /\ [Next]_vars => Earned'
<1> SUFFICES ASSUME TypeOK, Earned, [Next]_vars PROVE Earned'
  OBVIOUS
<1> USE DEF runVars, timeVars, radio, queueVars, frameHistory, waitHistory
<1>a. /\ job.def \in ProtocolDef /\ WellFormed(job.def)
      /\ run \in Run /\ run.state \in DOMAIN job.def.states
  BY JobType DEF TypeOK
<1>b. /\ pc \in {"idle", "resolve", "arm", "ccc", "step", "write", "await", "wait", "woken",
                 "expired", "unsubscribe"}
  BY DEF TypeOK
<1>c. ASSUME Failed("fail") \/ (Failed("timed_out") /\ StepDeadlinePassed)
             \/ (Failed("disconnected") /\ ~conn),
             UNCHANGED <<job, now, conn>>, pc' \in {"idle", "unsubscribe"}
      PROVE  Earned'
  BY <1>c DEF Earned, VerdictIsEarned, Failed, StepDeadlinePassed
<1>d. ASSUME WriteFails("fail") \/ (WriteFails("timed_out") /\ StepDeadlinePassed)
             \/ (WriteFails("disconnected") /\ ~conn),
             UNCHANGED <<job, now, conn>>
      PROVE  Earned'
  BY <1>d DEF Earned, VerdictIsEarned, WriteFails, Verdict, StepDeadlinePassed
<1>e. ASSUME UNCHANGED <<run, job>>, ~run.finished,
             pc' \in {"arm", "ccc", "write", "await", "wait", "woken", "expired"}
      PROVE  Earned'
  BY <1>e DEF Earned, VerdictIsEarned
<1>f. ASSUME NEW x, Honest(job.def, x), run' = x.run, step' = x.step, pc' = "step",
             UNCHANGED job
      PROVE  Earned'
  BY <1>f DEF Honest, Earned, VerdictIsEarned, CurrentState
<1>1. ASSUME NEW s \in SourceIds, NEW p \in Payload, protocol_notify_cb(s, p) PROVE Earned'
  <2>1. UNCHANGED <<run, job, step, now, conn, result>>
    BY <1>1 DEF protocol_notify_cb, k_msgq_put
  <2>2. pc' = pc \/ (pc = "wait" /\ pc' = "woken")
    BY <1>1 DEF protocol_notify_cb, k_msgq_put
  <2> QED BY <2>1, <2>2 DEF Earned, VerdictIsEarned, CurrentState, StepDeadlinePassed
<1>2. CASE AttResponse
  BY <1>2 DEF AttResponse, Earned, VerdictIsEarned, CurrentState, StepDeadlinePassed
<1>3. CASE disconnected_cb
  <2>1. UNCHANGED <<pc, run, job, step, now, result>> /\ ~conn'
    BY <1>3 DEF disconnected_cb
  <2> QED BY <2>1 DEF Earned, VerdictIsEarned, CurrentState, StepDeadlinePassed
<1>4. ASSUME NEW j \in Jobs, execute_run_protocol(j) PROVE Earned'
  <2>1. ~run'.finished
    BY <1>4 DEF execute_run_protocol, eap_run_start
  <2> QED BY <1>4, <2>1 DEF execute_run_protocol, Earned, VerdictIsEarned, Failed, NoResult
<1>5. CASE protocol_resolve_sources
  <2>1. UNCHANGED <<run, job, now, conn>> /\ ~run.finished
    BY <1>5 DEF protocol_resolve_sources, Earned
  <2> QED BY <1>5, <1>c, <1>e, <2>1 DEF protocol_resolve_sources
<1>6. CASE protocol_subscribe_sources
  <2>1. UNCHANGED <<job, now, conn>> /\ ~run.finished
    BY <1>6 DEF protocol_subscribe_sources, Earned
  <2>2. CASE /\ run' = eap_run_enter(job.def, run).run
             /\ step' = eap_run_enter(job.def, run).step /\ pc' = "step"
    <3>1. /\ [run EXCEPT !.retries = 0] \in Run /\ ~[run EXCEPT !.retries = 0].finished
          /\ [run EXCEPT !.retries = 0].state = run.state
      BY <1>a, <2>1 DEF Run
    <3>2. Honest(job.def, eap_run_enter(job.def, run))
      BY <1>a, <3>1, EnteredHonest DEF eap_run_enter
    <3> QED BY <1>f, <2>1, <2>2, <3>2
  <2> QED BY <1>6, <1>c, <1>e, <2>1, <2>2 DEF protocol_subscribe_sources
<1>7. CASE SubscribeDone
  <2>1. UNCHANGED <<run, job, now, conn>> /\ ~run.finished
    BY <1>7 DEF SubscribeDone, Earned
  <2> QED BY <1>7, <1>c, <1>e, <2>1 DEF SubscribeDone
<1>8. CASE TakeVerdict
  <2>1. /\ pc = "step" /\ step.kind = "done" /\ pc' = "unsubscribe"
        /\ result' = [kind |-> step.outcome, protocol |-> step.outcome, state |-> run.state]
        /\ UNCHANGED <<job, now, conn>>
    BY <1>8 DEF TakeVerdict, Verdict
  <2> QED BY <2>1 DEF Earned, VerdictIsEarned, CurrentState, StepDeadlinePassed
<1>9. CASE protocol_write
  <2>1. UNCHANGED <<job, now, conn>> /\ ~run.finished
    BY <1>9 DEF protocol_write, Earned
  <2> QED BY <1>9, <1>d, <1>e, <2>1 DEF protocol_write
<1>10. CASE WriteDone
  <2>1. UNCHANGED <<job, now, conn>> /\ ~run.finished
    BY <1>10 DEF WriteDone, Earned
  <2> QED BY <1>10, <1>d, <1>e, <2>1 DEF WriteDone, WriteTimesOut
<1>11. CASE GoOnWaiting \/ AwaitFrame \/ WaitExpires
  <2>1. UNCHANGED <<run, job>> /\ ~run.finished /\ pc' \in {"await", "wait", "woken", "expired"}
    BY <1>11 DEF GoOnWaiting, AwaitFrame, WaitExpires, Earned
  <2> QED BY <1>e, <2>1
<1>12. CASE OnFrame
  <2> DEFINE ev == [kind |-> "notify", source |-> note.source, payload |-> note.payload]
  <2>1. ev.payload \in Payload /\ ~run.finished
    BY <1>12 DEF OnFrame, TypeOK, Note, Earned
  <2> HIDE DEF ev
  <2>2. Honest(job.def, eap_run_on_event(job.def, run, ev))
    BY <1>a, <2>1, EventHonest
  <2> QED BY <1>12, <1>f, <2>2 DEF OnFrame, ev
<1>13. CASE OnExpiry
  <2>1. ~run.finished /\ pc' = "step" /\ UNCHANGED <<job, now, conn>>
    BY <1>13 DEF OnExpiry, Earned
  <2>2. CASE StepDeadlinePassed
    <3>1. step' = Outcome("timed_out", FALSE)
      BY <1>13, <2>2 DEF OnExpiry, OutOfTime, eap_run_abandon
    <3> QED BY <2>1, <2>2, <3>1 DEF Outcome, Earned, VerdictIsEarned, StepDeadlinePassed
  <2>3. CASE ~StepDeadlinePassed
    <3>1. Honest(job.def, eap_run_on_event(job.def, run, [kind |-> "timeout"]))
      BY <1>a, <2>1, EventHonest
    <3> QED BY <1>13, <1>f, <2>1, <2>3, <3>1 DEF OnExpiry, OutOfTime
  <2> QED BY <2>2, <2>3
<1>14. CASE protocol_unsubscribe_all
  BY <1>14 DEF protocol_unsubscribe_all, Earned, VerdictIsEarned, StepDeadlinePassed
<1>15. CASE Tick
  <2>1. UNCHANGED <<pc, run, job, step>> /\ pc \in {"resolve", "ccc", "write", "wait"}
    BY <1>15 DEF Tick, Blocked
  <2> QED BY <2>1 DEF Earned, VerdictIsEarned
<1>16. CASE UNCHANGED vars
  BY <1>16 DEF vars, Earned, VerdictIsEarned, CurrentState, StepDeadlinePassed
<1> QED BY <1>1, <1>2, <1>3, <1>4, <1>5, <1>6, <1>7, <1>8, <1>9, <1>10, <1>11, <1>12, <1>13,
           <1>14, <1>15, <1>16 DEF Next, BtRx, Dispatch

(* A step reports a pass only if the protocol's machine reached a state that
   declares one, and times out or disconnects only if that happened.          *)
THEOREM VerdictsEarned == Spec => []VerdictIsEarned
<1>1. Init => Earned
  BY DEF Init, Earned, VerdictIsEarned, NoResult
<1>2. Earned => VerdictIsEarned
  BY DEF Earned
<1> QED BY <1>1, <1>2, EarnedNext, ProtocolTypeCorrect, PTL DEF Spec
-----------------------------------------------------------------------------
(* A state's timeout.                                                         *)

(* An instruction carries the timeout of the state it is about.               *)
Armed(st, w) == /\ w.has_deadline = st.has_on_timeout
                /\ st.has_on_timeout => w.deadline_ms = st.on_timeout.after_ms

(* A run has retried the state it is in no more often than the state allows.  *)
Fits(def, r) ==
  CurrentState(def, r).has_on_timeout => r.retries <= CurrentState(def, r).on_timeout.retry

(* What the interpreter answers a run that keeps to its retries with.         *)
Told(def, x) ==
  /\ Fits(def, x.run)
  /\ x.step.kind # "done" => Armed(CurrentState(def, x.run), x.step)
  /\ x.step.kind = "write" => x.step.entered

(* What entering the state of a run gives.                                    *)
Enters(def, r, x) ==
  /\ x.run.state = r.state /\ x.run.retries = r.retries
  /\ x.step.kind # "done" => x.step.entered /\ Armed(CurrentState(def, r), x.step)

LEMMA WaitArmed == ASSUME NEW st \in State, NEW e \in BOOLEAN
                   PROVE  /\ Armed(st, wait_step(st, e)) /\ wait_step(st, e).kind = "wait"
                          /\ wait_step(st, e).entered = e
BY DEF Armed, wait_step

LEMMA FailEnters ==
  ASSUME NEW def, NEW r, NEW t, t.state = r.state, t.retries = r.retries
  PROVE  Enters(def, r, [run |-> t, step |-> Outcome("fail", TRUE)])
BY DEF Enters, Outcome

LEMMA EnteredEnters ==
  ASSUME NEW def \in ProtocolDef, NEW r \in Run, r.state \in DOMAIN def.states
  PROVE  Enters(def, r, on_entered(def, r))
<1> DEFINE st == CurrentState(def, r)
<1>1. st \in State
  BY StateType DEF CurrentState
<1>2. st.kind \in {"active", "terminal"} /\ st.has_on_enter \in BOOLEAN
      /\ st.on_enter.resolves \in BOOLEAN
  BY <1>1 DEF State, Write
<1>3. Finished(r).state = r.state /\ Finished(r).retries = r.retries
  BY DEF Finished, Run
<1>4. Armed(st, wait_step(st, TRUE)) /\ wait_step(st, TRUE).entered
  BY <1>1, WaitArmed
<1>5. Armed(st, write_step(st)) /\ write_step(st).entered
  BY <1>4 DEF write_step, Armed, wait_step
<1>6. \A o : Outcome(o, TRUE).kind = "done"
  BY DEF Outcome
<1> HIDE DEF st
<1>7. CASE st.kind = "terminal"
  BY <1>3, <1>6, <1>7 DEF on_entered, Enters, st
<1>8. CASE st.kind = "active" /\ ~st.has_on_enter
  BY <1>4, <1>8 DEF on_entered, Enters, st
<1>9. CASE st.kind = "active" /\ st.has_on_enter /\ ~st.on_enter.resolves
  <2>1. on_entered(def, r) = [run |-> Finished(r), step |-> Outcome("fail", TRUE)]
    BY <1>9 DEF on_entered, st
  <2> QED BY <1>3, <2>1, FailEnters
<1>10. CASE st.kind = "active" /\ st.has_on_enter /\ st.on_enter.resolves
  BY <1>5, <1>10 DEF on_entered, Enters, st
<1> QED BY <1>2, <1>7, <1>8, <1>9, <1>10

LEMMA EntersTold ==
  ASSUME NEW def, NEW r, NEW x, Enters(def, r, x), Fits(def, r)
  PROVE  Told(def, x)
<1>1. CurrentState(def, x.run) = CurrentState(def, r)
  BY DEF Enters, CurrentState
<1> QED BY <1>1 DEF Enters, Fits, Told

(* A state entered anew has not been retried.                                 *)
LEMMA AnewTold ==
  ASSUME NEW def \in ProtocolDef, NEW r \in Run, r.state \in DOMAIN def.states
  PROVE  /\ Told(def, eap_run_enter(def, r))
         /\ eap_run_enter(def, r).run.state = r.state
         /\ eap_run_enter(def, r).run.retries = 0
         /\ eap_run_enter(def, r).step.kind # "done" => eap_run_enter(def, r).step.entered
<1> DEFINE t == [r EXCEPT !.retries = 0]
           x == eap_run_enter(def, r)
<1>1. t \in Run /\ t.state = r.state /\ t.retries = 0
  BY DEF Run
<1>2. CurrentState(def, t).on_timeout.retry \in Nat
  BY <1>1, StateType DEF CurrentState, State, TimeoutArm
<1> HIDE DEF t
<1>3. Fits(def, t)
  BY <1>1, <1>2 DEF Fits
<1>4. Enters(def, t, x)
  BY <1>1, EnteredEnters DEF eap_run_enter, t
<1> HIDE DEF x
<1>5. /\ Told(def, x) /\ x.run.state = r.state /\ x.run.retries = 0
      /\ x.step.kind # "done" => x.step.entered
  BY <1>1, <1>3, <1>4, EntersTold DEF Enters
<1> QED BY <1>5 DEF x

LEMMA GoToTold ==
  ASSUME NEW def \in ProtocolDef, NEW r \in Run, NEW s \in DOMAIN def.states, s \in Nat
  PROVE  /\ Told(def, GoTo(def, r, s))
         /\ GoTo(def, r, s).run.state = s
         /\ GoTo(def, r, s).run.retries = 0
         /\ GoTo(def, r, s).step.kind # "done" => GoTo(def, r, s).step.entered
<1>1. [r EXCEPT !.state = s] \in Run /\ [r EXCEPT !.state = s].state = s
  BY DEF Run
<1> QED BY <1>1, AnewTold DEF GoTo

(* A state's timeout retries it, one retry the more, or leaves it: it never
   only waits on.                                                             *)
Expires(def, r, x) ==
  LET st == CurrentState(def, r)
  IN /\ st.has_on_timeout /\ x.step.kind # "done" => x.step.entered
     /\ st.has_on_timeout /\ st.kind = "active" /\ st.on_timeout.goto_state # r.state
          => x.run.state # r.state \/ x.run.retries = r.retries + 1

LEMMA ExpiryTold ==
  ASSUME NEW def \in ProtocolDef, WellFormed(def), NEW r \in Run, r.state \in DOMAIN def.states,
         Fits(def, r)
  PROVE  Told(def, on_timeout(def, r)) /\ Expires(def, r, on_timeout(def, r))
<1> DEFINE st == CurrentState(def, r)
           x  == on_timeout(def, r)
<1>1. st \in State
  BY StateType DEF CurrentState
<1>2. st.has_on_timeout \in BOOLEAN /\ st.on_timeout.goto_state \in Nat
      /\ st.on_timeout.goto_state \in DOMAIN def.states /\ st.on_timeout.retry \in Nat
      /\ r.retries \in Nat
  BY <1>1 DEF State, TimeoutArm, WellFormed, CurrentState, Run
<1>3. Retried(r) \in Run /\ Retried(r).state = r.state /\ Retried(r).retries = r.retries + 1
  BY DEF Retried, Run
<1>4. CurrentState(def, Retried(r)) = st
  BY <1>3 DEF CurrentState
<1>5. CASE ~st.has_on_timeout
  <2>1. x = [run |-> r, step |-> wait_step(st, FALSE)]
    BY <1>5 DEF on_timeout
  <2>2. Armed(st, wait_step(st, FALSE)) /\ wait_step(st, FALSE).kind = "wait"
    BY <1>1, WaitArmed
  <2> HIDE DEF x, st
  <2>3. Told(def, x)
    BY <2>1, <2>2 DEF Told, st
  <2>4. Expires(def, r, x)
    BY <1>5, <2>1 DEF Expires, st
  <2> QED BY <2>3, <2>4 DEF x
<1>6. CASE st.has_on_timeout /\ r.retries < st.on_timeout.retry
  <2>1. x = on_entered(def, Retried(r))
    BY <1>6 DEF on_timeout
  <2>2. Enters(def, Retried(r), x)
    BY <1>3, <2>1, EnteredEnters
  <2> HIDE DEF x, st
  <2>3. Fits(def, Retried(r))
    BY <1>2, <1>3, <1>4, <1>6 DEF Fits
  <2>4. Told(def, x)
    BY <2>2, <2>3, EntersTold
  <2>5. Expires(def, r, x)
    BY <1>3, <2>2 DEF Enters, Expires
  <2> QED BY <2>4, <2>5 DEF x
<1>7. CASE st.has_on_timeout /\ ~(r.retries < st.on_timeout.retry)
  <2>1. x = GoTo(def, r, st.on_timeout.goto_state)
    BY <1>7 DEF on_timeout
  <2> HIDE DEF x, st
  <2>2. /\ Told(def, x) /\ x.run.state = st.on_timeout.goto_state
        /\ x.step.kind # "done" => x.step.entered
    BY <1>2, <2>1, GoToTold
  <2>3. Expires(def, r, x)
    BY <2>2 DEF Expires, st
  <2> QED BY <2>2, <2>3 DEF x
<1> QED BY <1>2, <1>5, <1>6, <1>7

LEMMA EventTold ==
  ASSUME NEW def \in ProtocolDef, WellFormed(def), NEW r \in Run, r.state \in DOMAIN def.states,
         ~r.finished, Fits(def, r), NEW ev, ev.kind = "timeout" \/ ev.payload \in Payload
  PROVE  /\ Told(def, eap_run_on_event(def, r, ev))
         /\ ev.kind = "timeout" => Expires(def, r, eap_run_on_event(def, r, ev))
<1>1. CurrentState(def, r).kind \in {"active", "terminal"}
  BY StateType DEF CurrentState, State
<1>2. CASE CurrentState(def, r).kind = "terminal"
  <2> DEFINE x == on_entered(def, r)
  <2>1. eap_run_on_event(def, r, ev) = x
    BY <1>2 DEF eap_run_on_event
  <2>2. Enters(def, r, x)
    BY EnteredEnters
  <2> HIDE DEF x
  <2>3. Expires(def, r, x)
    BY <1>2, <2>2 DEF Enters, Expires
  <2> QED BY <2>1, <2>2, <2>3, EntersTold
<1>3. CASE CurrentState(def, r).kind = "active" /\ ev.kind = "timeout"
  <2>1. eap_run_on_event(def, r, ev) = on_timeout(def, r)
    BY <1>3 DEF eap_run_on_event
  <2> QED BY <2>1, ExpiryTold
<1>4. CASE CurrentState(def, r).kind = "active" /\ ev.kind # "timeout"
  <2>1. eap_run_on_event(def, r, ev) = on_notify(def, r, ev.source, ev.payload)
    BY <1>4 DEF eap_run_on_event
  <2> DEFINE x == on_notify(def, r, ev.source, ev.payload)
             st == CurrentState(def, r)
  <2>3. PICK told \in Run : Answered(def, r, told, x)
    BY <1>4, NotifyShape
  <2>4. Armed(st, wait_step(st, FALSE)) /\ wait_step(st, FALSE).kind = "wait"
    BY StateType, WaitArmed DEF CurrentState
  <2>5. CurrentState(def, told) = st
    BY <2>3 DEF Answered, CurrentState
  <2> HIDE DEF x, st
  <2>6. ASSUME Stays(def, r, told, x) PROVE Told(def, x)
    <3>1. x.run = told /\ x.step = wait_step(st, FALSE)
      BY <2>6 DEF Stays, st
    <3>2. Fits(def, told)
      BY <2>3, <2>5 DEF Answered, Fits, st
    <3> QED BY <2>4, <2>5, <3>1, <3>2 DEF Told
  <2>7. ASSUME Leaves(def, told, x) PROVE Told(def, x)
    <3>1. PICK s \in DOMAIN def.states : s \in Nat /\ x = GoTo(def, told, s)
      BY <2>7 DEF Leaves
    <3> QED BY <3>1, GoToTold
  <2>8. Told(def, x)
    BY <2>3, <2>6, <2>7 DEF Answered
  <2> QED BY <1>4, <2>1, <2>8 DEF x
<1> QED BY <1>1, <1>2, <1>3, <1>4
(* What the wait of a run rests on.                                           *)
AboutToWait ==
  pc \in {"step", "write", "await"} =>
    /\ pc # "step" => step.kind # "done"
    /\ step.kind # "done" => /\ Armed(CurrentState(job.def, run), step)
                             /\ fresh \/ heard = now
    /\ pc = "write" \/ (pc = "step" /\ step.kind = "write") => fresh

InWait ==
  LET st == CurrentState(job.def, run)
  IN /\ pc \in {"wait", "expired"} /\ wake < job.timeout_ms =>
          st.has_on_timeout /\ wake >= since + st.on_timeout.after_ms
     /\ pc = "expired" => now >= wake
     /\ SilenceIsNoticed

Tried ==
  LET st == CurrentState(job.def, run)
  IN /\ pc \in {"resolve", "arm", "ccc"} => stalls = 0
     /\ Running => /\ Fits(job.def, run)
                   /\ st.kind = "active" /\ st.has_on_timeout /\ st.on_timeout.goto_state # run.state
                        => stalls <= run.retries + (IF run.finished THEN 1 ELSE 0)

Kept == since <= now /\ AboutToWait /\ InWait /\ Tried

LEMMA KeptNext == TypeOK /\ Earned /\ Kept /\ [Next]_vars => Kept'
<1> SUFFICES ASSUME TypeOK, Earned, Kept, [Next]_vars PROVE Kept'
  OBVIOUS
<1> USE DEF runVars, timeVars, radio, queueVars, frameHistory, waitHistory
<1>a. /\ job.def \in ProtocolDef /\ WellFormed(job.def) /\ job.timeout_ms \in Nat
      /\ run \in Run /\ run.state \in DOMAIN job.def.states
  BY JobType DEF TypeOK
<1>b. /\ now \in Nat /\ wake \in Nat /\ since \in Nat /\ heard \in Nat /\ stalls \in Nat
      /\ fresh \in BOOLEAN /\ run.retries \in Nat /\ run.finished \in BOOLEAN
  BY <1>a DEF TypeOK, Run
<1>c. /\ CurrentState(job.def, run).has_on_timeout \in BOOLEAN
      /\ CurrentState(job.def, run).on_timeout.after_ms \in Nat
      /\ CurrentState(job.def, run).on_timeout.retry \in Nat
  BY <1>a, StateType DEF CurrentState, State, TimeoutArm
<1>i. ASSUME pc' \in {"idle", "resolve", "arm", "ccc", "unsubscribe"},
             UNCHANGED <<now, since, stalls>>, pc' \in {"resolve", "arm", "ccc"} => stalls = 0
      PROVE  Kept'
  BY <1>i DEF Kept, AboutToWait, InWait, Tried, SilenceIsNoticed, Running
<1>j. ASSUME UNCHANGED <<runVars, timeVars, waitHistory>>,
             pc' = pc \/ (pc = "wait" /\ pc' = "woken")
      PROVE  Kept'
  BY <1>j DEF Kept, AboutToWait, InWait, Tried, SilenceIsNoticed, Running, CurrentState, Fits
<1>k. ASSUME NEW x, Told(job.def, x), run' = x.run, step' = x.step, pc' = "step",
             x.run.retries \in Nat, x.run.finished \in BOOLEAN,
             UNCHANGED <<job, now, since>>, fresh' = x.step.entered,
             x.step.entered \/ x.step.kind = "done" \/ heard' = now,
             stalls' \in Nat, \/ stalls' = 0
                              \/ CurrentState(job.def, x.run).kind # "active"
                              \/ ~CurrentState(job.def, x.run).has_on_timeout
                              \/ CurrentState(job.def, x.run).on_timeout.goto_state = x.run.state
                              \/ stalls' <= x.run.retries + (IF x.run.finished THEN 1 ELSE 0)
      PROVE  Kept'
  <2>1. AboutToWait'
    BY <1>k DEF Told, AboutToWait, CurrentState, Armed
  <2>2. InWait' /\ since' <= now'
    BY <1>k DEF Kept, InWait, SilenceIsNoticed
  <2>3. /\ Fits(job.def, run)' /\ pc' = "step"
        /\ CurrentState(job.def, run)' = CurrentState(job.def, x.run) /\ run' = x.run
    BY <1>k DEF Told, CurrentState, Fits
  <2>4. Tried'
    BY <1>k, <2>3 DEF Tried
  <2> QED BY <2>1, <2>2, <2>4 DEF Kept
<1>1. ASSUME NEW s \in SourceIds, NEW p \in Payload, protocol_notify_cb(s, p) PROVE Kept'
  BY <1>1, <1>j DEF protocol_notify_cb, k_msgq_put
<1>2. CASE AttResponse \/ disconnected_cb
  BY <1>2, <1>j DEF AttResponse, disconnected_cb
<1>3. ASSUME NEW j \in Jobs, execute_run_protocol(j) PROVE Kept'
  BY <1>3 DEF execute_run_protocol, Kept, AboutToWait, InWait, Tried, SilenceIsNoticed, Running
<1>4. CASE protocol_resolve_sources \/ SubscribeDone \/ TakeVerdict \/ protocol_unsubscribe_all
  <2>1. stalls = 0 \/ pc' \notin {"resolve", "arm", "ccc"}
    BY <1>4 DEF protocol_resolve_sources, SubscribeDone, TakeVerdict, protocol_unsubscribe_all,
       Kept, Tried
  <2> QED BY <1>4, <1>i, <2>1 DEF protocol_resolve_sources, SubscribeDone, TakeVerdict,
          protocol_unsubscribe_all
<1>5. CASE protocol_subscribe_sources
  <2>1. UNCHANGED <<now, since, stalls, job, heard>> /\ stalls = 0 /\ pc = "arm"
    BY <1>5 DEF protocol_subscribe_sources, Kept, Tried
  <2>2. CASE pc' \in {"ccc", "unsubscribe"}
    BY <1>i, <2>1, <2>2
  <2>3. CASE /\ run' = eap_run_enter(job.def, run).run
             /\ step' = eap_run_enter(job.def, run).step
             /\ pc' = "step" /\ fresh' = TRUE
    <3> DEFINE x == eap_run_enter(job.def, run)
    <3>1. Told(job.def, x) /\ x.run.state = run.state /\ x.run.retries = 0
      BY <1>a, AnewTold
    <3>2. x.step.kind # "done" => x.step.entered
      BY <1>a, AnewTold
    <3>3. Returned(job.def, x)
      BY <1>a, EnterType DEF TypeOK
    <3>4. CurrentState(job.def, x.run).on_timeout.retry \in Nat
      BY <1>a, <3>3, StateType DEF Returned, CurrentState, State, TimeoutArm
    <3> HIDE DEF x
    <3>5. run' = x.run /\ step' = x.step /\ x.run.finished \in BOOLEAN /\ stalls' = 0
      BY <2>1, <2>3, <3>3 DEF x, Returned, Run
    <3>6. AboutToWait'
      BY <2>1, <2>3, <3>1, <3>5 DEF Told, AboutToWait, CurrentState, Armed
    <3>7. InWait' /\ since' <= now'
      BY <2>1, <2>3 DEF Kept, InWait, SilenceIsNoticed
    <3>8. Tried'
      <4>1. Fits(job.def, run)' /\ pc' = "step" /\ stalls' = 0 /\ run'.retries = 0
        BY <2>1, <2>3, <3>1, <3>5 DEF Told, CurrentState, Fits
      <4>2. run'.finished \in BOOLEAN
        BY <3>5
      <4> QED BY <4>1, <4>2 DEF Tried
    <3> QED BY <3>6, <3>7, <3>8 DEF Kept
  <2> QED BY <1>5, <2>2, <2>3 DEF protocol_subscribe_sources
<1>6. CASE protocol_write \/ WriteDone \/ GoOnWaiting
  <2>1. UNCHANGED <<now, wake, since, fresh, heard, stalls, job, step>>
    BY <1>6 DEF protocol_write, WriteDone, GoOnWaiting
  <2>2. CASE pc' = "unsubscribe"
    BY <1>i, <2>1, <2>2
  <2>3. CASE UNCHANGED run /\ pc' = "await" /\ pc \in {"step", "write"} /\ step.kind # "done"
    BY <2>1, <2>3 DEF Kept, AboutToWait, InWait, Tried, SilenceIsNoticed, Running, CurrentState,
       Fits
  <2>4. CASE UNCHANGED run /\ pc' = "write" /\ pc = "step" /\ step.kind = "write"
    BY <2>1, <2>4 DEF Kept, AboutToWait, InWait, Tried, SilenceIsNoticed, Running, CurrentState,
       Fits
  <2>5. pc = "write" => step.kind # "done"
    BY DEF Kept, AboutToWait
  <2> QED BY <1>6, <2>2, <2>3, <2>4, <2>5 DEF protocol_write, WriteDone, GoOnWaiting, WriteFails
<1>7. CASE AwaitFrame
  <2> DEFINE st == CurrentState(job.def, run)
  <2>1. /\ UNCHANGED <<job, run, now, heard, stalls>> /\ pc = "await" /\ pc' \in {"wait", "woken"}
        /\ wake' = protocol_state_deadline /\ since' = IF fresh THEN now ELSE since
    BY <1>7 DEF AwaitFrame
  <2>3. Armed(st, step) /\ since' <= now /\ (since' = now \/ heard = now) /\ since' \in Nat
    BY <1>b, <2>1 DEF Kept, AboutToWait
  <2>4. wake' = IF st.has_on_timeout
                THEN Earlier(now + st.on_timeout.after_ms, job.timeout_ms) ELSE job.timeout_ms
    BY <2>1, <2>3 DEF protocol_state_deadline, Armed
  <2>5. st' = st
    BY <2>1 DEF CurrentState
  <2>6. st.has_on_timeout \in BOOLEAN /\ st.on_timeout.after_ms \in Nat
    BY <1>c
  <2> HIDE DEF st
  <2>7. InWait'
    <3>1. wake' < job.timeout_ms => st.has_on_timeout /\ wake' >= since' + st.on_timeout.after_ms
      BY <1>a, <1>b, <2>3, <2>4, <2>6 DEF Earlier
    <3>2. st.has_on_timeout => \/ wake' <= since' + st.on_timeout.after_ms
                               \/ wake' <= heard + st.on_timeout.after_ms
      BY <1>a, <1>b, <2>3, <2>4, <2>6 DEF Earlier
    <3> QED BY <2>1, <2>5, <3>1, <3>2 DEF InWait, SilenceIsNoticed, st
  <2>8. Tried'
    BY <2>1 DEF Kept, Tried, Running, CurrentState, Fits
  <2> QED BY <2>1, <2>3, <2>7, <2>8 DEF Kept, AboutToWait
<1>8. CASE OnFrame
  <2> DEFINE ev == [kind |-> "notify", source |-> note.source, payload |-> note.payload]
             x  == eap_run_on_event(job.def, run, ev)
  <2>1. ev.payload \in Payload /\ ~run.finished /\ Fits(job.def, run)
    BY <1>8 DEF OnFrame, TypeOK, Note, Earned, Kept, Tried, Running
  <2> HIDE DEF ev
  <2>2. Told(job.def, x) /\ Returned(job.def, x)
    BY <1>a, <2>1, EventTold, EventType
  <2> HIDE DEF x
  <2>3. /\ run' = x.run /\ step' = x.step /\ pc' = "step" /\ UNCHANGED <<job, now, since>>
        /\ fresh' = x.step.entered /\ heard' = now /\ stalls' = 0
    BY <1>8 DEF OnFrame, x, ev
  <2>4. x.run.retries \in Nat /\ x.run.finished \in BOOLEAN
    BY <2>2 DEF Returned, Run
  <2> QED BY <1>k, <2>2, <2>3, <2>4
<1>9. CASE OnExpiry
  <2>1. ~run.finished /\ Fits(job.def, run) /\ pc = "expired" /\ pc' = "step"
        /\ UNCHANGED <<job, now, since, heard>>
    BY <1>9 DEF OnExpiry, Earned, Kept, Tried, Running
  <2>2. CASE StepDeadlinePassed
    <3> DEFINE x == eap_run_abandon(job.def, run)
    <3>1. /\ x.step.kind = "done" /\ ~x.step.entered /\ x.run = Finished(run)
          /\ Finished(run).state = run.state /\ Finished(run).retries = run.retries
          /\ Finished(run).finished = TRUE
      BY <1>a DEF eap_run_abandon, Outcome, Finished, Run
    <3>2. CurrentState(job.def, Finished(run)) = CurrentState(job.def, run)
      BY <3>1 DEF CurrentState
    <3> HIDE DEF x
    <3>3. /\ run' = x.run /\ step' = x.step /\ stalls' = stalls + 1 /\ fresh' = x.step.entered
      BY <1>9, <2>2, <3>1 DEF OnExpiry, OutOfTime, x
    <3>4. Told(job.def, x)
      BY <2>1, <3>1, <3>2 DEF Told, Fits
    <3>5. \/ CurrentState(job.def, x.run).kind # "active"
          \/ CurrentState(job.def, x.run).on_timeout.goto_state = x.run.state
          \/ ~CurrentState(job.def, x.run).has_on_timeout
          \/ stalls' <= x.run.retries + 1
      BY <1>b, <2>1, <3>1, <3>2, <3>3 DEF Kept, Tried, Running
    <3>6. x.run.retries \in Nat /\ x.run.finished = TRUE /\ stalls' \in Nat
      BY <1>b, <3>1, <3>3
    <3>7. stalls' \in Nat /\ x.run.retries + (IF x.run.finished THEN 1 ELSE 0) = x.run.retries + 1
      BY <3>6
    <3> QED BY <1>k, <2>1, <3>1, <3>3, <3>4, <3>5, <3>6, <3>7
  <2>3. CASE ~StepDeadlinePassed
    <3> DEFINE ev == [kind |-> "timeout"]
               x  == eap_run_on_event(job.def, run, ev)
    <3>1. ev.kind = "timeout"
      OBVIOUS
    <3> HIDE DEF ev
    <3>2. Told(job.def, x) /\ Returned(job.def, x) /\ Expires(job.def, run, x)
      BY <1>a, <2>1, <3>1, EventTold, EventType
    <3> HIDE DEF x
    <3>3. /\ run' = x.run /\ step' = x.step /\ fresh' = x.step.entered
          /\ stalls' = IF x.run.state = run.state THEN stalls + 1 ELSE 0
      BY <1>9, <2>3 DEF OnExpiry, OutOfTime, x, ev
    <3>4. x.run.retries \in Nat /\ x.run.finished \in BOOLEAN /\ stalls' \in Nat
      BY <1>b, <3>2, <3>3 DEF Returned, Run
    <3>5. CurrentState(job.def, run).has_on_timeout
      <4>1. wake < job.timeout_ms
        BY <1>a, <1>b, <2>1, <2>3 DEF Kept, InWait, StepDeadlinePassed
      <4> QED BY <2>1, <4>1 DEF Kept, InWait
    <3>6. x.step.kind # "done" => x.step.entered
      BY <3>2, <3>5 DEF Expires
    <3>7. \/ stalls' = 0
          \/ CurrentState(job.def, x.run).kind # "active"
          \/ CurrentState(job.def, x.run).on_timeout.goto_state = x.run.state
          \/ stalls' <= x.run.retries
      <4>1. CASE x.run.state # run.state
        BY <3>3, <4>1
      <4>2. CASE x.run.state = run.state
        <5>1. CurrentState(job.def, x.run) = CurrentState(job.def, run)
          BY <4>2 DEF CurrentState
        <5>2. stalls' = stalls + 1
          BY <3>3, <4>2
        <5>3. CASE /\ CurrentState(job.def, run).kind = "active"
                   /\ CurrentState(job.def, run).on_timeout.goto_state # run.state
          <6>1. x.run.retries = run.retries + 1
            BY <3>2, <3>5, <4>2, <5>3 DEF Expires
          <6>2. stalls <= run.retries
            BY <1>b, <2>1, <3>5, <5>3 DEF Kept, Tried, Running
          <6> QED BY <1>b, <5>2, <6>1, <6>2
        <5> QED BY <4>2, <5>1, <5>3
      <4> QED BY <4>1, <4>2
    <3>8. stalls' <= x.run.retries => stalls' <= x.run.retries + (IF x.run.finished THEN 1 ELSE 0)
      BY <3>4
    <3> QED BY <1>k, <2>1, <3>2, <3>3, <3>4, <3>6, <3>7, <3>8
  <2> QED BY <2>2, <2>3
<1>10. CASE WaitExpires
  <2>1. pc = "wait" /\ pc' = "expired" /\ now >= wake /\ UNCHANGED <<runVars, timeVars, waitHistory>>
    BY <1>10 DEF WaitExpires
  <2> QED BY <2>1 DEF Kept, AboutToWait, InWait, Tried, SilenceIsNoticed, Running, CurrentState,
          Fits
<1>11. CASE Tick
  <2>1. /\ pc \in {"resolve", "ccc", "write", "wait"} /\ now' = now + 1
        /\ UNCHANGED <<pc, runVars, wake, waitHistory>>
    BY <1>11 DEF Tick, Blocked
  <2>2. since' <= now'
    BY <1>b, <2>1 DEF Kept
  <2>3. AboutToWait'
    BY <2>1 DEF Kept, AboutToWait, CurrentState, Armed
  <2>4. InWait' /\ Tried'
    BY <2>1 DEF Kept, InWait, Tried, SilenceIsNoticed, Running, CurrentState, Fits
  <2> QED BY <2>2, <2>3, <2>4 DEF Kept
<1>12. CASE UNCHANGED vars
  BY <1>12, <1>j DEF vars
<1> QED BY <1>1, <1>2, <1>3, <1>4, <1>5, <1>6, <1>7, <1>8, <1>9, <1>10, <1>11, <1>12
        DEF Next, BtRx, Dispatch

(* The step's time is kept, and a state's timeout is not early, not forgotten,
   and not repeated beyond its retries, for every protocol and whatever the DUT
   sends meanwhile.                                                           *)
THEOREM TimeoutsKept == Spec => []TimeoutsAreKept
<1>1. Init => Kept /\ Earned
  BY DEF Init, Kept, AboutToWait, InWait, Tried, SilenceIsNoticed, Running, Earned,
     VerdictIsEarned, NoResult
<1>2. TypeOK /\ Kept /\ NeverPastDeadline => TimeoutsAreKept
  <2> SUFFICES ASSUME TypeOK, Kept, NeverPastDeadline PROVE TimeoutsAreKept
    OBVIOUS
  <2>1. /\ job.timeout_ms \in Nat /\ now \in Nat /\ wake \in Nat /\ since \in Nat /\ stalls \in Nat
        /\ run.retries \in Nat /\ run.finished \in BOOLEAN
        /\ CurrentState(job.def, run).on_timeout.after_ms \in Nat
        /\ CurrentState(job.def, run).on_timeout.retry \in Nat
    BY JobType, StateType DEF TypeOK, Run, CurrentState, State, TimeoutArm
  <2>2. TimeoutNotEarly
    <3> SUFFICES ASSUME pc = "expired", ~StepDeadlinePassed
                 PROVE  /\ CurrentState(job.def, run).has_on_timeout
                        /\ now >= since + CurrentState(job.def, run).on_timeout.after_ms
      BY DEF TimeoutNotEarly
    <3>1. now >= wake /\ wake < job.timeout_ms
      BY <2>1 DEF Kept, InWait, StepDeadlinePassed
    <3> QED BY <2>1, <3>1 DEF Kept, InWait
  <2>3. RetriesBounded
    BY <2>1 DEF Kept, Tried, Fits, RetriesBounded
  <2> QED BY <2>2, <2>3 DEF TimeoutsAreKept, Kept, InWait
<1> QED BY <1>1, <1>2, EarnedNext, KeptNext, ProtocolTypeCorrect, DeadlineHolds, PTL DEF Spec
-----------------------------------------------------------------------------
(* The walk over the declared graph.                                          *)
Listens(st) == ~Passes(st) /\ ~Fails(st)

(* An instruction that goes with a state it is about.                         *)
Suits(st, w) ==
  /\ w.kind \in {"write", "wait", "done"}
  /\ w.kind = "write" => Writes(st) /\ w.with_response = st.on_enter.with_response
  /\ w.kind = "wait" => Listens(st)
  /\ w.kind = "done" => \/ w.outcome = "pass" /\ Passes(st)
                        \/ w.outcome = "fail" /\ Fails(st)

(* The state has been entered, with its write the next thing to do.           *)
Arrives(def, s, n, x) ==
  /\ x.run.state = s /\ x.run.retries = n
  /\ Suits(def.states[s], x.step)
  /\ x.step.kind = "write" <=> Writes(def.states[s])

LEMMA EnteredArrives ==
  ASSUME NEW def \in ProtocolDef, NEW r \in Run, r.state \in DOMAIN def.states
  PROVE  Arrives(def, r.state, r.retries, on_entered(def, r))
<1> DEFINE st == CurrentState(def, r)
           x  == on_entered(def, r)
<1>1. st \in State /\ st = def.states[r.state]
  BY StateType DEF CurrentState
<1>2. st.kind \in {"active", "terminal"} /\ st.terminal \in {"pass", "fail"}
      /\ st.has_on_enter \in BOOLEAN /\ st.on_enter.resolves \in BOOLEAN
  BY <1>1 DEF State, Write
<1>3. Finished(r).state = r.state /\ Finished(r).retries = r.retries
  BY DEF Finished, Run
<1>4. \A o : Outcome(o, TRUE).kind = "done" /\ Outcome(o, TRUE).outcome = o
  BY DEF Outcome
<1>5. CASE st.kind = "terminal"
  <2>1. x = [run |-> Finished(r), step |-> Outcome(st.terminal, TRUE)]
    BY <1>5 DEF on_entered
  <2> HIDE DEF x, st
  <2>2. x.step.kind = "done" /\ x.step.outcome = st.terminal
    BY <1>4, <2>1
  <2>3. ~Writes(st) /\ (Passes(st) <=> st.terminal = "pass") /\ (Fails(st) <=> st.terminal = "fail")
    BY <1>5 DEF Writes, Passes, Fails
  <2>4. Arrives(def, r.state, r.retries, x)
    BY <1>1, <1>2, <1>3, <2>1, <2>2, <2>3 DEF Arrives, Suits
  <2> QED BY <2>4 DEF x
<1>6. CASE st.kind = "active" /\ ~st.has_on_enter
  <2>1. x = [run |-> r, step |-> wait_step(st, TRUE)]
    BY <1>6 DEF on_entered
  <2>2. wait_step(st, TRUE).kind = "wait"
    BY DEF wait_step
  <2> HIDE DEF x, st
  <2>3. ~Writes(st) /\ Listens(st)
    BY <1>6 DEF Writes, Passes, Fails, Listens
  <2>4. Arrives(def, r.state, r.retries, x)
    BY <1>1, <2>1, <2>2, <2>3 DEF Arrives, Suits
  <2> QED BY <2>4 DEF x
<1>7. CASE st.kind = "active" /\ st.has_on_enter /\ ~st.on_enter.resolves
  <2>1. x = [run |-> Finished(r), step |-> Outcome("fail", TRUE)]
    BY <1>7 DEF on_entered
  <2> HIDE DEF x, st
  <2>2. ~Writes(st) /\ Fails(st)
    BY <1>7 DEF Writes, Fails
  <2>3. x.step.kind = "done" /\ x.step.outcome = "fail"
    BY <1>4, <2>1
  <2>4. Arrives(def, r.state, r.retries, x)
    BY <1>1, <1>3, <2>1, <2>2, <2>3 DEF Arrives, Suits
  <2> QED BY <2>4 DEF x
<1>8. CASE st.kind = "active" /\ st.has_on_enter /\ st.on_enter.resolves
  <2>1. x = [run |-> r, step |-> write_step(st)]
    BY <1>8 DEF on_entered
  <2>2. write_step(st).kind = "write" /\ write_step(st).with_response = st.on_enter.with_response
    BY DEF write_step, wait_step
  <2> HIDE DEF x, st
  <2>3. Writes(st)
    BY <1>8 DEF Writes
  <2>4. Arrives(def, r.state, r.retries, x)
    BY <1>1, <2>1, <2>2, <2>3 DEF Arrives, Suits
  <2> QED BY <2>4 DEF x
<1> HIDE DEF st, x
<1>9. Arrives(def, r.state, r.retries, x)
  BY <1>2, <1>5, <1>6, <1>7, <1>8 DEF x
<1> QED BY <1>9 DEF x

LEMMA AnewArrives ==
  ASSUME NEW def \in ProtocolDef, NEW r \in Run, r.state \in DOMAIN def.states
  PROVE  Arrives(def, r.state, 0, eap_run_enter(def, r))
<1>1. /\ [r EXCEPT !.retries = 0] \in Run /\ [r EXCEPT !.retries = 0].state = r.state
      /\ [r EXCEPT !.retries = 0].retries = 0
  BY DEF Run
<1> QED BY <1>1, EnteredArrives DEF eap_run_enter

LEMMA GoToArrives ==
  ASSUME NEW def \in ProtocolDef, NEW r \in Run, NEW s \in DOMAIN def.states, s \in Nat
  PROVE  Arrives(def, s, 0, GoTo(def, r, s))
<1>1. [r EXCEPT !.state = s] \in Run /\ [r EXCEPT !.state = s].state = s
  BY DEF Run
<1> QED BY <1>1, AnewArrives DEF GoTo

(* What an event does to a machine that listens: nothing, or a move along an
   edge its graph declares for the event.                                     *)
Unmoved(r, x) == x.run.state = r.state /\ x.run.retries = r.retries /\ x.step.kind = "wait"

Framed(def, r, x) ==
  Unmoved(r, x) \/ \E s \in Gotos(CurrentState(def, r)) : Arrives(def, s, 0, x)

Lapsed(def, r, x) ==
  LET st == CurrentState(def, r)
  IN \/ Unmoved(r, x)
     \/ /\ Expiry(st) # {} /\ r.retries < st.on_timeout.retry
        /\ Arrives(def, r.state, r.retries + 1, x)
     \/ /\ ~(r.retries < st.on_timeout.retry)
        /\ \E s \in Expiry(st) : Arrives(def, s, 0, x)

LEMMA FrameMoves ==
  ASSUME NEW def \in ProtocolDef, WellFormed(def), NEW r \in Run, r.state \in DOMAIN def.states,
         NEW src, NEW p \in Payload
  PROVE  Framed(def, r, on_notify(def, r, src, p))
<1> DEFINE x == on_notify(def, r, src, p)
<1>1. PICK told \in Run : Answered(def, r, told, x)
  BY NotifyShape
<1> HIDE DEF x
<1>2. told.state = r.state /\ told.retries = r.retries /\ CurrentState(def, told) = CurrentState(def, r)
  BY <1>1 DEF Answered, CurrentState
<1>3. ASSUME Stays(def, r, told, x) PROVE Framed(def, r, x)
  <2>1. x.run = told /\ x.step.kind = "wait"
    BY <1>3 DEF Stays, wait_step
  <2> QED BY <1>2, <2>1 DEF Framed, Unmoved
<1>4. ASSUME Leaves(def, told, x) PROVE Framed(def, r, x)
  <2>1. PICK s \in DOMAIN def.states : /\ s \in Nat /\ s \in Gotos(CurrentState(def, told))
                                       /\ x = GoTo(def, told, s)
    BY <1>4 DEF Leaves
  <2> QED BY <1>2, <2>1, GoToArrives DEF Framed
<1>5. Framed(def, r, x)
  BY <1>1, <1>3, <1>4 DEF Answered
<1> QED BY <1>5 DEF x

LEMMA ExpiryMoves ==
  ASSUME NEW def \in ProtocolDef, WellFormed(def), NEW r \in Run, r.state \in DOMAIN def.states
  PROVE  Lapsed(def, r, on_timeout(def, r))
<1> DEFINE st == CurrentState(def, r)
           x  == on_timeout(def, r)
<1>1. st \in State
  BY StateType DEF CurrentState
<1>2. st.has_on_timeout \in BOOLEAN /\ st.on_timeout.goto_state \in Nat
      /\ st.on_timeout.goto_state \in DOMAIN def.states
  BY <1>1 DEF State, TimeoutArm, WellFormed, CurrentState
<1>3. Retried(r) \in Run /\ Retried(r).state = r.state /\ Retried(r).retries = r.retries + 1
  BY DEF Retried, Run
<1>4. CASE ~st.has_on_timeout
  <2>1. x = [run |-> r, step |-> wait_step(st, FALSE)]
    BY <1>4 DEF on_timeout
  <2>2. wait_step(st, FALSE).kind = "wait"
    BY DEF wait_step
  <2> HIDE DEF x, st
  <2>3. Unmoved(r, x)
    BY <2>1, <2>2 DEF Unmoved
  <2> QED BY <2>3 DEF Lapsed, x
<1>5. CASE st.has_on_timeout /\ r.retries < st.on_timeout.retry
  <2>1. x = on_entered(def, Retried(r))
    BY <1>5 DEF on_timeout
  <2>2. Arrives(def, r.state, r.retries + 1, x)
    BY <1>3, <2>1, EnteredArrives
  <2>3. Expiry(st) # {}
    BY <1>5 DEF Expiry
  <2> HIDE DEF x
  <2> QED BY <1>5, <2>2, <2>3 DEF Lapsed, x
<1>6. CASE st.has_on_timeout /\ ~(r.retries < st.on_timeout.retry)
  <2>1. x = GoTo(def, r, st.on_timeout.goto_state)
    BY <1>6 DEF on_timeout
  <2>2. Arrives(def, st.on_timeout.goto_state, 0, x)
    BY <1>2, <2>1, GoToArrives
  <2>3. st.on_timeout.goto_state \in Expiry(st)
    BY <1>6 DEF Expiry
  <2> HIDE DEF x
  <2> QED BY <1>6, <2>2, <2>3 DEF Lapsed, x
<1> QED BY <1>2, <1>4, <1>5, <1>6

(* The instruction the loop is about to follow suits the state the machine is
   in, and it waits for frames only in a state that listens.                  *)
Followed ==
  LET st == CurrentState(job.def, run)
  IN /\ pc = "step" => \/ Suits(st, step)
                       \/ step.kind = "done" /\ step.outcome = "timed_out" /\ Listens(st)
     /\ pc = "write" => Writes(st) /\ st.on_enter.with_response
     /\ pc \in {"await", "wait", "woken", "expired"} => Listens(st)

LEMMA WritesListen == ASSUME NEW st, Writes(st) PROVE Listens(st)
BY DEF Writes, Listens, Passes, Fails

(* A graph says of a state what the declaration says.                         *)
LEMMA GraphIs ==
  ASSUME NEW j \in Jobs, NEW s \in DOMAIN j.def.states
  PROVE  /\ Graph(j).entry = j.entry_state
         /\ s \in Graph(j).pass <=> Passes(j.def.states[s])
         /\ s \in Graph(j).fail <=> Fails(j.def.states[s])
         /\ s \in Graph(j).writes <=> Writes(j.def.states[s])
         /\ s \in Graph(j).acked <=> /\ Writes(j.def.states[s])
                                     /\ j.def.states[s].on_enter.with_response
         /\ Graph(j).gotos[s] = Gotos(j.def.states[s])
         /\ Graph(j).expires[s] = Expiry(j.def.states[s])
         /\ Graph(j).retry[s] = j.def.states[s].on_timeout.retry
BY DEF Graph

(* Following an instruction that came with a state.                           *)
LEMMA ArrivesFollowed ==
  ASSUME NEW def, NEW s, NEW n, NEW x, Arrives(def, s, n, x)
  PROVE  Suits(CurrentState(def, x.run), x.step)
BY DEF Arrives, CurrentState

LEMMA UnmovedFollowed ==
  ASSUME NEW def, NEW r, NEW x, Unmoved(r, x), Listens(CurrentState(def, r))
  PROVE  Suits(CurrentState(def, x.run), x.step)
BY DEF Unmoved, Suits, CurrentState

(* What an event does to a run that is not over and listens.                  *)
LEMMA OnEvent ==
  ASSUME NEW def \in ProtocolDef, WellFormed(def), NEW r \in Run, r.state \in DOMAIN def.states,
         ~r.finished, Listens(CurrentState(def, r))
  PROVE  /\ \A src : \A p \in Payload :
              Framed(def, r, eap_run_on_event(def, r, [kind |-> "notify", source |-> src, payload |-> p]))
         /\ Lapsed(def, r, eap_run_on_event(def, r, [kind |-> "timeout"]))
<1>1. CurrentState(def, r).kind = "active"
  <2>1. CurrentState(def, r) \in State
    BY StateType DEF CurrentState
  <2>2. /\ CurrentState(def, r).kind \in {"active", "terminal"}
        /\ CurrentState(def, r).terminal \in {"pass", "fail"}
    BY <2>1 DEF State
  <2> QED BY <2>2 DEF Listens, Passes, Fails
<1>2. ASSUME NEW src, NEW p \in Payload
      PROVE  Framed(def, r, eap_run_on_event(def, r, [kind |-> "notify", source |-> src, payload |-> p]))
  <2>1. eap_run_on_event(def, r, [kind |-> "notify", source |-> src, payload |-> p])
          = on_notify(def, r, src, p)
    BY <1>1 DEF eap_run_on_event
  <2> QED BY <2>1, FrameMoves
<1>3. eap_run_on_event(def, r, [kind |-> "timeout"]) = on_timeout(def, r)
  BY <1>1 DEF eap_run_on_event
<1> QED BY <1>2, <1>3, ExpiryMoves

(* The frame in hand and the machine's answer to it.                          *)
LEMMA FrameFollowed ==
  ASSUME TypeOK, Earned, Followed, OnFrame
  PROVE  \E x : /\ run' = x.run /\ step' = x.step
                /\ Framed(job.def, run, x)
<1>1. /\ job.def \in ProtocolDef /\ WellFormed(job.def)
      /\ run \in Run /\ run.state \in DOMAIN job.def.states
  BY JobType DEF TypeOK
<1>2. /\ note.payload \in Payload /\ ~run.finished /\ Listens(CurrentState(job.def, run))
  BY DEF OnFrame, TypeOK, Note, Earned, Followed
<1> DEFINE x == eap_run_on_event(job.def, run,
                  [kind |-> "notify", source |-> note.source, payload |-> note.payload])
<1>3. Framed(job.def, run, x)
  BY <1>1, <1>2, OnEvent
<1>4. run' = x.run /\ step' = x.step
  BY DEF OnFrame
<1> HIDE DEF x
<1> QED BY <1>3, <1>4

LEMMA ExpiryFollowed ==
  ASSUME TypeOK, Earned, Followed, OnExpiry
  PROVE  \E x : /\ run' = x.run /\ step' = x.step
                /\ \/ Lapsed(job.def, run, x)
                   \/ /\ x.run.state = run.state /\ x.run.retries = run.retries
                      /\ x.step.kind = "done" /\ x.step.outcome = "timed_out"
<1>1. /\ job.def \in ProtocolDef /\ WellFormed(job.def)
      /\ run \in Run /\ run.state \in DOMAIN job.def.states
  BY JobType DEF TypeOK
<1>2. ~run.finished /\ Listens(CurrentState(job.def, run))
  BY DEF OnExpiry, Earned, Followed
<1>3. CASE OutOfTime
  <2> DEFINE x == eap_run_abandon(job.def, run)
  <2>1. run' = x.run /\ step' = x.step
    BY <1>3 DEF OnExpiry
  <2>2. /\ x.run.state = run.state /\ x.run.retries = run.retries
        /\ x.step.kind = "done" /\ x.step.outcome = "timed_out"
    BY <1>1 DEF eap_run_abandon, Finished, Outcome, Run
  <2> HIDE DEF x
  <2> QED BY <2>1, <2>2
<1>4. CASE ~OutOfTime
  <2> DEFINE x == eap_run_on_event(job.def, run, [kind |-> "timeout"])
  <2>1. run' = x.run /\ step' = x.step
    BY <1>4 DEF OnExpiry
  <2>2. Lapsed(job.def, run, x)
    BY <1>1, <1>2, OnEvent
  <2> HIDE DEF x
  <2> QED BY <2>1, <2>2
<1> QED BY <1>3, <1>4

LEMMA FollowedNext == TypeOK /\ Earned /\ Followed /\ [Next]_vars => Followed'
<1> SUFFICES ASSUME TypeOK, Earned, Followed, [Next]_vars PROVE Followed'
  OBVIOUS
<1> USE DEF runVars, timeVars, radio, queueVars, frameHistory, waitHistory
<1>a. /\ job.def \in ProtocolDef /\ WellFormed(job.def)
      /\ run \in Run /\ run.state \in DOMAIN job.def.states
  BY JobType DEF TypeOK
<1>b. ASSUME pc' \in {"idle", "resolve", "arm", "ccc", "unsubscribe"} PROVE Followed'
  BY <1>b DEF Followed
<1>c. ASSUME UNCHANGED <<job, run>>, Listens(CurrentState(job.def, run)),
             pc' \in {"await", "wait", "woken", "expired"}
      PROVE  Followed'
  BY <1>c DEF Followed
<1>d. ASSUME UNCHANGED <<job, run, step, pc>> PROVE Followed'
  BY <1>d DEF Followed
<1>e. ASSUME NEW x, run' = x.run, step' = x.step, UNCHANGED job, pc' = "step",
             \/ Suits(CurrentState(job.def, x.run), x.step)
             \/ /\ x.step.kind = "done" /\ x.step.outcome = "timed_out"
                /\ Listens(CurrentState(job.def, x.run))
      PROVE  Followed'
  BY <1>e DEF Followed
<1>1. ASSUME NEW s \in SourceIds, NEW p \in Payload, protocol_notify_cb(s, p) PROVE Followed'
  <2>1. UNCHANGED <<run, job, step>> /\ (pc' = pc \/ (pc = "wait" /\ pc' = "woken"))
    BY <1>1 DEF protocol_notify_cb, k_msgq_put
  <2> QED BY <1>c, <1>d, <2>1 DEF Followed
<1>2. CASE AttResponse \/ disconnected_cb \/ Tick
  BY <1>2, <1>d DEF AttResponse, disconnected_cb, Tick
<1>3. CASE \/ \E j \in Jobs : execute_run_protocol(j)
           \/ protocol_resolve_sources \/ SubscribeDone \/ TakeVerdict
           \/ protocol_unsubscribe_all
  BY <1>3, <1>b DEF execute_run_protocol, protocol_resolve_sources, SubscribeDone, TakeVerdict,
     protocol_unsubscribe_all
<1>4. CASE protocol_subscribe_sources
  <2> DEFINE x == eap_run_enter(job.def, run)
  <2>1. \/ pc' \in {"ccc", "unsubscribe"}
        \/ run' = x.run /\ step' = x.step /\ pc' = "step" /\ UNCHANGED job
    BY <1>4 DEF protocol_subscribe_sources
  <2>2. Arrives(job.def, run.state, 0, x)
    BY <1>a, AnewArrives
  <2> HIDE DEF x
  <2> QED BY <1>b, <1>e, <2>1, <2>2, ArrivesFollowed
<1>5. CASE protocol_write
  <2>1. pc = "step" /\ step.kind = "write"
    BY <1>5 DEF protocol_write
  <2>2. /\ Writes(CurrentState(job.def, run))
        /\ step.with_response = CurrentState(job.def, run).on_enter.with_response
    BY <2>1 DEF Followed, Suits
  <2>3. \/ pc' = "await" /\ UNCHANGED <<job, run>>
        \/ pc' = "write" /\ step.with_response /\ UNCHANGED <<job, run>>
        \/ pc' = "unsubscribe"
    BY <1>5 DEF protocol_write, WriteFails
  <2>4. CASE pc' = "write" /\ step.with_response /\ UNCHANGED <<job, run>>
    BY <2>2, <2>4 DEF Followed
  <2> QED BY <1>b, <1>c, <2>2, <2>3, <2>4, WritesListen
<1>6. CASE WriteDone
  <2>1. Listens(CurrentState(job.def, run))
    BY <1>6, WritesListen DEF WriteDone, Followed
  <2>2. (pc' = "await" /\ UNCHANGED <<job, run>>) \/ pc' = "unsubscribe"
    BY <1>6 DEF WriteDone, WriteFails
  <2> QED BY <1>b, <1>c, <2>1, <2>2
<1>7. CASE GoOnWaiting
  BY <1>7, <1>c DEF GoOnWaiting, Followed, Suits
<1>8. CASE AwaitFrame \/ WaitExpires
  BY <1>8, <1>c DEF AwaitFrame, WaitExpires, Followed
<1>9. CASE OnFrame
  <2>1. PICK x : run' = x.run /\ step' = x.step /\ Framed(job.def, run, x)
    BY <1>9, FrameFollowed
  <2>2. Listens(CurrentState(job.def, run)) /\ pc' = "step" /\ UNCHANGED job
    BY <1>9 DEF OnFrame, Followed
  <2>3. Suits(CurrentState(job.def, x.run), x.step)
    BY <2>1, <2>2, ArrivesFollowed, UnmovedFollowed DEF Framed
  <2> QED BY <1>e, <2>1, <2>2, <2>3
<1>10. CASE OnExpiry
  <2>1. PICK x : /\ run' = x.run /\ step' = x.step
                 /\ \/ Lapsed(job.def, run, x)
                    \/ /\ x.run.state = run.state /\ x.run.retries = run.retries
                       /\ x.step.kind = "done" /\ x.step.outcome = "timed_out"
    BY <1>10, ExpiryFollowed
  <2>2. Listens(CurrentState(job.def, run)) /\ pc' = "step" /\ UNCHANGED job
    BY <1>10 DEF OnExpiry, Followed
  <2>3. \/ Suits(CurrentState(job.def, x.run), x.step)
        \/ /\ x.step.kind = "done" /\ x.step.outcome = "timed_out"
           /\ Listens(CurrentState(job.def, x.run))
    <3>1. CASE Lapsed(job.def, run, x)
      BY <2>2, <3>1, ArrivesFollowed, UnmovedFollowed DEF Lapsed
    <3>2. CASE x.run.state = run.state /\ x.step.kind = "done" /\ x.step.outcome = "timed_out"
      BY <2>2, <3>2 DEF CurrentState
    <3> QED BY <2>1, <3>1, <3>2
  <2> QED BY <1>e, <2>1, <2>2, <2>3
<1>11. CASE UNCHANGED vars
  BY <1>11, <1>d DEF vars
<1> QED BY <1>1, <1>2, <1>3, <1>4, <1>5, <1>6, <1>7, <1>8, <1>9, <1>10, <1>11
        DEF Next, BtRx, Dispatch

-----------------------------------------------------------------------------
(* RunProtocol implements ProtocolWalk.                                       *)
LEMMA WalkInit == Init => Walk!Init
BY JobType, GraphIs DEF Init, Walk!Init, Walk!Report, Phase, Mail, Inbox, NoResult,
   eap_run_start, Outcome

(* The state the machine is in, in the declaration and in its graph.          *)
LEMMA GraphHere ==
  ASSUME TypeOK
  PROVE  LET st == CurrentState(job.def, run)
         IN /\ run.state \in Graph(job).pass <=> Passes(st)
            /\ run.state \in Graph(job).fail <=> Fails(st)
            /\ run.state \in Graph(job).writes <=> Writes(st)
            /\ run.state \in Graph(job).acked <=> Writes(st) /\ st.on_enter.with_response
            /\ Graph(job).gotos[run.state] = Gotos(st)
            /\ Graph(job).expires[run.state] = Expiry(st)
            /\ Graph(job).retry[run.state] = st.on_timeout.retry
<1>1. job \in Jobs /\ run.state \in DOMAIN job.def.states
  BY DEF TypeOK
<1> QED BY <1>1, GraphIs DEF CurrentState

LEMMA WaitingListens ==
  ASSUME TypeOK, Followed, pc \in {"woken", "expired"}
  PROVE  Walk!Listening
<1>1. Listens(CurrentState(job.def, run))
  BY DEF Followed
<1> QED BY <1>1, GraphHere DEF Walk!Listening, Phase, Mail, Listens

LEMMA WalkEnters ==
  ASSUME TypeOK, TypeOK', NEW s, NEW n, NEW x, Arrives(job.def, s, n, x),
         run' = x.run, step' = x.step, pc' = "step", UNCHANGED job
  PROVE  Walk!Enter(s, n)
<1>1. s \in DOMAIN job.def.states /\ job \in Jobs
  BY DEF TypeOK, Arrives
<1>2. s \in Graph(job).writes <=> Writes(job.def.states[s])
  BY <1>1, GraphIs
<1>3. Mail' = IF step'.kind = "write" THEN "owed" ELSE "none"
  BY DEF Mail
<1> QED BY <1>2, <1>3 DEF Walk!Enter, Arrives

LEMMA FrameWalks ==
  ASSUME TypeOK, TypeOK', Earned, Followed, OnFrame
  PROVE  [Walk!Next]_(Walk!vars)
<1>1. PICK x : run' = x.run /\ step' = x.step /\ Framed(job.def, run, x)
  BY FrameFollowed
<1>2. /\ pc = "woken" /\ pc' = "step"
      /\ UNCHANGED <<job, protocol_notify_q, result>>
  BY DEF OnFrame, queueVars
<1>3. Walk!Listening
  BY <1>2, WaitingListens
<1>4. /\ Inbox > 0 /\ Inbox' = Inbox - 1
      /\ Phase' = Phase /\ Graph(job)' = Graph(job)
  BY <1>2 DEF Inbox, Phase, TypeOK
<1>5. ASSUME Unmoved(run, x) PROVE Walk!Ignore
  <2>1. run'.state = run.state /\ run'.retries = run.retries /\ Mail' = "none" /\ Mail = "none"
    BY <1>1, <1>2, <1>5 DEF Unmoved, Mail
  <2> QED BY <1>2, <1>3, <1>4, <2>1 DEF Walk!Ignore
<1>6. ASSUME NEW s \in Gotos(CurrentState(job.def, run)), Arrives(job.def, s, 0, x)
      PROVE  Walk!FollowFrame
  <2>1. Walk!Enter(s, 0)
    BY <1>1, <1>2, <1>6, WalkEnters
  <2>2. s \in Graph(job).gotos[run.state]
    BY GraphHere
  <2> QED BY <1>2, <1>3, <1>4, <2>1, <2>2 DEF Walk!FollowFrame
<1> QED BY <1>1, <1>5, <1>6 DEF Framed, Walk!Next

LEMMA ExpiryWalks ==
  ASSUME TypeOK, TypeOK', Earned, Followed, OnExpiry
  PROVE  [Walk!Next]_(Walk!vars)
<1>1. PICK x : /\ run' = x.run /\ step' = x.step
               /\ \/ Lapsed(job.def, run, x)
                  \/ /\ x.run.state = run.state /\ x.run.retries = run.retries
                     /\ x.step.kind = "done" /\ x.step.outcome = "timed_out"
  BY ExpiryFollowed
<1>2. /\ pc = "expired" /\ pc' = "step"
      /\ UNCHANGED <<job, protocol_notify_q, result>>
  BY DEF OnExpiry, queueVars
<1>3. Walk!Listening
  BY <1>2, WaitingListens
<1>4. Inbox' = Inbox /\ Phase' = Phase /\ Graph(job)' = Graph(job)
  BY <1>2 DEF Inbox, Phase
<1>5. ASSUME run'.state = run.state, run'.retries = run.retries, step'.kind # "write"
      PROVE  UNCHANGED Walk!vars
  <2>1. Mail' = Mail
    BY <1>2, <1>5 DEF Mail
  <2> QED BY <1>2, <1>4, <1>5, <2>1 DEF Walk!vars
<1>6. CASE Unmoved(run, x) \/ /\ x.run.state = run.state /\ x.run.retries = run.retries
                              /\ x.step.kind = "done"
  BY <1>1, <1>5, <1>6 DEF Unmoved
<1>7. CASE /\ Expiry(CurrentState(job.def, run)) # {}
           /\ run.retries < CurrentState(job.def, run).on_timeout.retry
           /\ Arrives(job.def, run.state, run.retries + 1, x)
  <2>1. Walk!Enter(run.state, run.retries + 1)
    BY <1>1, <1>2, <1>7, WalkEnters
  <2>2. Graph(job).expires[run.state] # {} /\ run.retries < Graph(job).retry[run.state]
    BY <1>7, GraphHere
  <2>3. Walk!AskAgain
    BY <1>2, <1>3, <1>4, <2>1, <2>2 DEF Walk!AskAgain
  <2> QED BY <2>3 DEF Walk!Next
<1>8. CASE /\ ~(run.retries < CurrentState(job.def, run).on_timeout.retry)
           /\ \E s \in Expiry(CurrentState(job.def, run)) : Arrives(job.def, s, 0, x)
  <2>1. PICK s \in Expiry(CurrentState(job.def, run)) : Arrives(job.def, s, 0, x)
    BY <1>8
  <2>2. Walk!Enter(s, 0)
    BY <1>1, <1>2, <2>1, WalkEnters
  <2>3. s \in Graph(job).expires[run.state] /\ ~(run.retries < Graph(job).retry[run.state])
    BY <1>8, GraphHere
  <2>4. Walk!GiveUp
    BY <1>2, <1>3, <1>4, <2>2, <2>3 DEF Walk!GiveUp
  <2> QED BY <2>4 DEF Walk!Next
<1> QED BY <1>1, <1>6, <1>7, <1>8 DEF Lapsed

(* A run begins and is set up.                                                *)
LEMMA SetupWalks ==
  ASSUME TypeOK, TypeOK', Followed,
         \/ \E j \in Jobs : execute_run_protocol(j)
         \/ protocol_resolve_sources \/ protocol_subscribe_sources \/ SubscribeDone
  PROVE  [Walk!Next]_(Walk!vars)
<1> USE DEF runVars, timeVars, radio, queueVars, Failed, Walk!Report
<1>1. ASSUME NEW j \in Jobs, execute_run_protocol(j) PROVE Walk!Begin(Graph(j))
  <2>1. /\ pc = "idle" /\ job' = j
        /\ run'.state = j.entry_state /\ run'.retries = 0
        /\ \/ pc' = "resolve" /\ result' = NoResult
           \/ pc' = "idle" /\ Failed("fail")
    BY <1>1 DEF execute_run_protocol, eap_run_start
  <2>2. Graph(job)' = Graph(j) /\ Graph(j).entry = j.entry_state
    BY <2>1, JobType, GraphIs
  <2>3. Inbox = 0 /\ Inbox' = 0 /\ Mail = "none" /\ Mail' = "none" /\ Phase = "idle"
    BY <2>1 DEF Inbox, Mail, Phase
  <2> QED BY <2>1, <2>2, <2>3 DEF Walk!Begin, Phase, NoResult
<1>2. ASSUME pc \in {"resolve", "arm", "ccc"}, pc' \in {"idle", "unsubscribe"},
             pc' = "idle" <=> pc = "resolve", UNCHANGED <<job, run, protocol_notify_q>>,
             \E k \in {"fail", "timed_out", "disconnected"} : Failed(k)
      PROVE  Walk!SetupFails
  <2>1. Phase = "setup" /\ Mail = "none" /\ Mail' = "none" /\ Graph(job)' = Graph(job)
    BY <1>2 DEF Phase, Mail
  <2>2. \/ Phase' = "over" /\ Inbox' = Inbox
        \/ Phase' = "idle" /\ Inbox' = 0
    BY <1>2 DEF Phase, Inbox
  <2> QED BY <1>2, <2>1, <2>2 DEF Walk!SetupFails
<1>3. ASSUME pc \in {"resolve", "arm", "ccc"}, pc' \in {"arm", "ccc"},
             UNCHANGED <<job, run, result>>,
             IF pc = "resolve" THEN protocol_notify_q' = <<>> ELSE UNCHANGED protocol_notify_q
      PROVE  UNCHANGED Walk!vars
  <2>1. Phase' = Phase /\ Mail' = Mail /\ Inbox' = Inbox
    BY <1>3 DEF Phase, Mail, Inbox
  <2> QED BY <1>3, <2>1 DEF Walk!vars
<1>4. CASE protocol_resolve_sources
  BY <1>2, <1>3, <1>4 DEF protocol_resolve_sources, Walk!Next
<1>5. CASE protocol_subscribe_sources
  <2>1. CASE /\ run' = eap_run_enter(job.def, run).run
             /\ step' = eap_run_enter(job.def, run).step /\ pc' = "step"
    <3>1. UNCHANGED <<job, protocol_notify_q, result>> /\ pc = "arm"
      BY <1>5, <2>1 DEF protocol_subscribe_sources
    <3>2. Arrives(job.def, run.state, 0, eap_run_enter(job.def, run))
      BY JobType, AnewArrives DEF TypeOK
    <3>3. Walk!Enter(run.state, 0)
      BY <2>1, <3>1, <3>2, WalkEnters
    <3>4. Phase = "setup" /\ Phase' = "walking" /\ Inbox' = Inbox
      BY <2>1, <3>1 DEF Phase, Inbox
    <3>5. Walk!Start
      BY <3>1, <3>3, <3>4 DEF Walk!Start
    <3> QED BY <3>5 DEF Walk!Next
  <2> QED BY <1>2, <1>3, <1>5, <2>1 DEF protocol_subscribe_sources, Walk!Next
<1>6. CASE SubscribeDone
  BY <1>2, <1>3, <1>6 DEF SubscribeDone, Walk!Next
<1> QED BY <1>1, <1>2, <1>3, <1>4, <1>5, <1>6 DEF Walk!Next

(* Its writes, and its report.                                                *)
LEMMA MailWalks ==
  ASSUME TypeOK, TypeOK', Followed, TakeVerdict \/ protocol_write \/ WriteDone
  PROVE  [Walk!Next]_(Walk!vars)
<1> USE DEF runVars, timeVars, radio, queueVars, Walk!Report
<1>0. /\ pc \in {"step", "write"} /\ Phase = "walking"
      /\ UNCHANGED <<job, step, protocol_notify_q>>
      /\ run'.state = run.state /\ run'.retries = run.retries
  BY DEF TakeVerdict, protocol_write, WriteDone, Phase, WriteFails, eap_run_abandon, Finished,
     TypeOK, Run
<1>1. /\ Graph(job)' = Graph(job)
      /\ pc' # "woken" => Inbox' = Inbox
  BY <1>0 DEF Inbox, TypeOK, TakeVerdict, protocol_write, WriteDone, WriteFails
<1>2. CASE TakeVerdict
  <2>1. /\ pc = "step" /\ step.kind = "done" /\ pc' = "unsubscribe"
        /\ result' = [kind |-> step.outcome, protocol |-> step.outcome, state |-> run.state]
    BY <1>2 DEF TakeVerdict, Verdict
  <2>2. Phase' = "over" /\ Mail = "none" /\ Mail' = "none" /\ Inbox' = Inbox
    BY <1>1, <2>1 DEF Phase, Mail
  <2>3. \/ step.outcome = "pass" /\ run.state \in Graph(job).pass
        \/ step.outcome = "fail" /\ run.state \in Graph(job).fail
        \/ step.outcome = "timed_out" /\ Walk!Listening
    BY <1>0, <2>1, <2>2, GraphHere DEF Followed, Suits, Listens, Walk!Listening
  <2>4. Walk!Conclude
    BY <1>0, <1>1, <2>1, <2>2, <2>3 DEF Walk!Conclude
  <2> QED BY <2>4 DEF Walk!Next
<1>3. ASSUME Mail # "none",
             \E k \in {"fail", "timed_out", "disconnected"} : WriteFails(k)
      PROVE  Walk!Conclude
  <2>1. PICK k \in {"fail", "timed_out", "disconnected"} : WriteFails(k)
    BY <1>3
  <2>2. /\ pc' = "unsubscribe"
        /\ result' = [kind |-> k, protocol |-> "fail", state |-> run.state]
    BY <2>1 DEF WriteFails, Verdict
  <2>3. Phase' = "over" /\ Mail' = "none" /\ Inbox' = Inbox
    BY <1>1, <2>2 DEF Phase, Mail
  <2> QED BY <1>0, <1>1, <1>3, <2>2, <2>3 DEF Walk!Conclude
<1>4. CASE protocol_write
  <2>1. pc = "step" /\ step.kind = "write" /\ Mail = "owed"
    BY <1>4 DEF protocol_write, Mail
  <2>2. run.state \in Graph(job).acked <=> step.with_response
    BY <2>1, GraphHere DEF Followed, Suits
  <2>3. CASE /\ pc' = IF step.with_response THEN "write" ELSE "await"
             /\ UNCHANGED <<run, result>>
    <3>1. /\ Mail' = IF run.state \in Graph(job).acked THEN "asked" ELSE "none"
          /\ Phase' = "walking" /\ Inbox' = Inbox
      BY <1>1, <2>2, <2>3 DEF Mail, Phase
    <3>2. Walk!Send
      BY <1>0, <1>1, <2>1, <2>3, <3>1 DEF Walk!Send
    <3> QED BY <3>2 DEF Walk!Next
  <2> QED BY <1>3, <1>4, <2>1, <2>3 DEF protocol_write, Walk!Next
<1>5. CASE WriteDone
  <2>1. pc = "write" /\ Mail = "asked"
    BY <1>5 DEF WriteDone, Mail
  <2>2. CASE pc' = "await" /\ UNCHANGED <<run, result>>
    <3>1. Mail' = "none" /\ Phase' = "walking" /\ Inbox' = Inbox
      BY <1>1, <2>2 DEF Mail, Phase
    <3>2. Walk!Answered
      BY <1>0, <1>1, <2>1, <2>2, <3>1 DEF Walk!Answered
    <3> QED BY <3>2 DEF Walk!Next
  <2> QED BY <1>3, <1>5, <2>1, <2>2 DEF WriteDone, Walk!Next
<1> QED BY <1>2, <1>4, <1>5

(* A notification joins those on their way to the machine, or is lost.        *)
LEMMA NotifyWalks ==
  ASSUME TypeOK, TypeOK', NEW s \in SourceIds, NEW p \in Payload, protocol_notify_cb(s, p)
  PROVE  [Walk!Next]_(Walk!vars)
<1> USE DEF runVars, timeVars, radio, queueVars
<1>1. UNCHANGED <<job, run, step, result>>
  BY DEF protocol_notify_cb, k_msgq_put
<1>2. \/ UNCHANGED <<pc, protocol_notify_q>>
      \/ pc = "wait" /\ pc' = "woken" /\ UNCHANGED protocol_notify_q
      \/ pc' = pc /\ s \in armed /\ \E n : protocol_notify_q' = Append(protocol_notify_q, n)
  BY DEF protocol_notify_cb, k_msgq_put
<1>3. Phase' = Phase /\ Mail' = Mail
  BY <1>1, <1>2 DEF Phase, Mail
<1>4. CASE Inbox' = Inbox
  <2>1. UNCHANGED Walk!vars
    BY <1>1, <1>3, <1>4 DEF Walk!vars
  <2> QED BY <2>1
<1>5. CASE Inbox' = Inbox + 1 /\ Phase # "idle"
  <2>1. Walk!Arrive
    BY <1>1, <1>3, <1>5 DEF Walk!Arrive
  <2> QED BY <2>1 DEF Walk!Next
<1>6. Inbox' = Inbox \/ (Inbox' = Inbox + 1 /\ Phase # "idle")
  <2>1. protocol_notify_q \in Seq(Note) /\ Len(protocol_notify_q) \in Nat
    BY DEF TypeOK
  <2>2. CASE UNCHANGED <<pc, protocol_notify_q>>
    BY <2>2 DEF Inbox
  <2>3. CASE pc = "wait" /\ pc' = "woken" /\ UNCHANGED protocol_notify_q
    BY <2>1, <2>3 DEF Inbox, Phase
  <2>4. CASE pc' = pc /\ \E n : protocol_notify_q' = Append(protocol_notify_q, n)
    <3>1. Len(protocol_notify_q') = Len(protocol_notify_q) + 1
      BY <2>1, <2>4
    <3> QED BY <2>1, <2>4, <3>1 DEF Inbox, Phase
  <2> QED BY <1>2, <2>2, <2>3, <2>4
<1> QED BY <1>4, <1>5, <1>6

LEMMA WaitWalks ==
  ASSUME TypeOK, TypeOK',
         \/ GoOnWaiting \/ AwaitFrame \/ WaitExpires \/ Tick \/ AttResponse \/ disconnected_cb
         \/ protocol_unsubscribe_all \/ UNCHANGED vars
  PROVE  [Walk!Next]_(Walk!vars)
<1> USE DEF runVars, timeVars, radio, queueVars
<1>1. CASE protocol_unsubscribe_all
  <2>1. pc = "unsubscribe" /\ pc' = "idle" /\ UNCHANGED <<job, run, step, result>>
    BY <1>1 DEF protocol_unsubscribe_all
  <2>2. /\ Phase = "over" /\ Phase' = "idle" /\ Mail = "none" /\ Mail' = "none"
        /\ Inbox' = 0
    BY <2>1 DEF Phase, Mail, Inbox
  <2>3. Walk!Leave
    BY <2>1, <2>2 DEF Walk!Leave
  <2> QED BY <2>3 DEF Walk!Next
<1>2. CASE \/ GoOnWaiting \/ AwaitFrame \/ WaitExpires \/ Tick \/ AttResponse
           \/ disconnected_cb \/ UNCHANGED vars
  <2>1. UNCHANGED <<job, run, step, result>>
    BY <1>2 DEF GoOnWaiting, AwaitFrame, WaitExpires, Tick, AttResponse, disconnected_cb, vars
  <2>2. \/ UNCHANGED <<pc, protocol_notify_q>>
        \/ pc = "step" /\ step.kind = "wait" /\ pc' = "await" /\ UNCHANGED protocol_notify_q
        \/ pc = "await" /\ pc' = "wait" /\ UNCHANGED protocol_notify_q
        \/ pc = "wait" /\ pc' = "expired" /\ UNCHANGED protocol_notify_q
        \/ /\ pc = "await" /\ pc' = "woken" /\ protocol_notify_q # <<>>
           /\ protocol_notify_q' = Tail(protocol_notify_q)
    BY <1>2 DEF GoOnWaiting, AwaitFrame, WaitExpires, Tick, AttResponse, disconnected_cb, vars
  <2>3. Phase' = Phase /\ Mail' = Mail
    BY <2>1, <2>2 DEF Phase, Mail
  <2>4. Inbox' = Inbox
    <3>1. protocol_notify_q \in Seq(Note) /\ Len(protocol_notify_q) \in Nat
      BY DEF TypeOK
    <3>2. CASE pc = "await" /\ pc' = "woken" /\ protocol_notify_q # <<>>
               /\ protocol_notify_q' = Tail(protocol_notify_q)
      <4>1. Len(protocol_notify_q') = Len(protocol_notify_q) - 1
        BY <3>1, <3>2
      <4> QED BY <3>1, <3>2, <4>1 DEF Inbox
    <3> QED BY <2>2, <3>1, <3>2 DEF Inbox
  <2>5. UNCHANGED Walk!vars
    BY <2>1, <2>3, <2>4 DEF Walk!vars
  <2> QED BY <2>5
<1> QED BY <1>1, <1>2

(* For every protocol, queue size and behaviour of the DUT, a RunProtocol step
   is a walk over the declared graph: a move for a frame or for an expiry with
   the retries used up, one write for each entry or retry, and a report of the
   state the walk ended in.                                                   *)
THEOREM MachineWalks == Spec => WalkSpec
<1>1. Init => Followed
  BY DEF Init, Followed
<1>2. Init => Earned
  BY DEF Init, Earned, VerdictIsEarned, NoResult
<1>3. TypeOK /\ TypeOK' /\ Earned /\ Followed /\ [Next]_vars => [Walk!Next]_(Walk!vars)
  BY FrameWalks, ExpiryWalks, SetupWalks, MailWalks, NotifyWalks, WaitWalks
     DEF Next, BtRx, Dispatch
<1> QED BY <1>1, <1>2, <1>3, WalkInit, FollowedNext, EarnedNext, ProtocolTypeCorrect, PTL
        DEF Spec, WalkSpec, Walk!Spec
=============================================================================
