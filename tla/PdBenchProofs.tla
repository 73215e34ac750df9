---------------------------- MODULE PdBenchProofs ----------------------------
(***************************************************************************)
(* Proofs about PdBench for any capabilities, offers, Requests and commands, *)
(* a queue of any depth and any number of attaches, faults and Rejects.    *)
(***************************************************************************)
EXTENDS PdBench, TLAPS

----------------------------------------------------------------------------
(* TypeOK in groups, one for each part of the state.                       *)

RoleTypes == attached \in BOOLEAN /\ source \in BOOLEAN /\ dfp \in BOOLEAN

SinkTypes ==
    /\ src_caps \in Capabilities \cup {<<>>} /\ want \in Want
    /\ sent \in Agreement /\ contract \in BOOLEAN /\ agreed \in Agreement
    /\ refresh \in BOOLEAN /\ rejects \in 0..MaxRejects

WorkTypes == armed \in BOOLEAN /\ work \in {"idle", "request"} /\ keepalive_off \in BOOLEAN

SwapTypes ==
    /\ drs_pending \in BOOLEAN /\ prs_pending \in BOOLEAN
    /\ awaiting \in {"none", "dr", "pr"}
    /\ swap_open \in BOOLEAN /\ partner_swap \in BOOLEAN /\ overtaken \in BOOLEAN

AskTypes ==
    /\ ask \in Asks \cup {"none"} /\ ask_got \in BOOLEAN /\ ask_sem \in 0..1
    /\ ask_crossed \in BOOLEAN

SrcTypes ==
    /\ offer \in Offers /\ sent_caps \in Offers \cup {<<>>}
    /\ req \in Agreement /\ src_contract \in BOOLEAN /\ src_agreed \in Agreement

\* A `pd ask' whose roles have been looked at is still the command typed.
HostTypes ==
    /\ dr_answer \in {"accept", "reject", "nosupport"} /\ pr_answer \in {"accept", "reject"}
    /\ req_answer \in {"accept", "reject", "wait"}
    /\ script \in Seq(Command)
    /\ shell \in DpmRequest \cup {"idle", "wait", "answered", "forget", "undo", "rearm", "reset",
                                  "asking"}
    /\ shell \in {"reset", "asking"} => script # <<>> /\ Head(script).name = "ask"

StackTypes ==
    /\ pe \in {"off", "start", "select", "transition", "ready", "refused", "supply", "reset",
              "restart", "swap", "power", "failed", "crossed"} \cup DpmRequest
    /\ psrc \in BOOLEAN
    /\ call \in {"none", "look_source", "look_sink", "detach", "end", "give", "arm"}
    /\ queue \in Seq(DpmRequest) /\ Len(queue) <= QueueDepth

LineTypes ==
    /\ present \in BOOLEAN /\ attaches \in 0..MaxAttaches /\ faults \in 0..MaxFaults
    /\ alone \in BOOLEAN

Types ==
    /\ RoleTypes /\ SinkTypes /\ WorkTypes /\ SwapTypes /\ AskTypes /\ SrcTypes
    /\ HostTypes /\ StackTypes /\ LineTypes

----------------------------------------------------------------------------
(* Which steps change which part of the state; none of the others does.     *)

\* The steps that change who attaches, detaches and swaps.
LEMMA RoleFrame ==
  ASSUME [Next]_vars
  PROVE  \/ UNCHANGED roleVars
         \/ Detach \/ (\E is_source \in BOOLEAN : Attach(is_source)) \/ DataRole \/ SwapDone
         \/ Recovered
<1>1. CASE Callback
  BY <1>1 DEF Callback, partner_present, roleVars, ContractEnd, contract_end, AskGive, Reschedule
<1>2. CASE Sink
  BY <1>2 DEF Sink, policy_set_src_cap, roleVars, SelectCapability, policy_get_rdo,
     RequestAnswered, RequestRejected
<1>3. CASE Source
  BY <1>3 DEF Source, SendCaps, policy_get_src_caps, roleVars, policy_check_sink_request
<1>4. CASE Stack
  BY <1>4 DEF Stack, TransitionPs, roleVars, TakeRequest, SwapRefused, PrSwapAccepted,
     pr_swap_check, SwapVbusOff, ProtocolError, Leave, HardReset, ask_answered
<1>5. CASE Work
  BY <1>5 DEF Work, keepalive_handler, roleVars, KeepaliveRequest, tcpp_fault
<1>6. CASE Shell
  BY <1>6 DEF Shell, want_set, roleVars, cmd_keepalive, KeepaliveOn, cmd_drswap, cmd_prswap,
     cmd_answers, cmd_srccaps, cmd_send, cmd_ask, AskReset, AskBegin, dpm_request, PrSwapUndo,
     AskWake, AskForget
<1>7. CASE Unplug
  BY <1>7 DEF Unplug, roleVars
<1>8. CASE SwapWindowEnds
  BY <1>8 DEF SwapWindowEnds, roleVars
<1>9. CASE UNCHANGED vars
  BY <1>9 DEF vars, roleVars
<1> QED
  BY <1>1, <1>2, <1>3, <1>4, <1>5, <1>6, <1>7, <1>8, <1>9 DEF Next

\* The steps that change what the bench knows and asks as a sink.
LEMMA SinkFrame ==
  ASSUME [Next]_vars
  PROVE  \/ UNCHANGED sinkVars
         \/ Detach \/ ContractEnd \/ (\E caps \in Capabilities : policy_set_src_cap(caps))
         \/ SelectCapability \/ RequestRejected \/ (\E is_source \in BOOLEAN : Attach(is_source))
         \/ TransitionPs \/ TakeRequest \/ SwapRefused \/ SwapDone \/ Recovered
         \/ keepalive_handler \/ want_set
<1>1. CASE Callback
  BY <1>1 DEF Callback, partner_present, sinkVars, AskGive, Reschedule
<1>2. CASE Sink
  BY <1>2 DEF Sink, RequestAnswered, sinkVars
<1>3. CASE Source
  BY <1>3 DEF Source, SendCaps, policy_get_src_caps, sinkVars, policy_check_sink_request
<1>4. CASE Stack
  BY <1>4 DEF Stack, PrSwapAccepted, sinkVars, DataRole, pr_swap_check, SwapVbusOff,
     ProtocolError, Leave, HardReset, ask_answered
<1>5. CASE Work
  BY <1>5 DEF Work, KeepaliveRequest, sinkVars, tcpp_fault
<1>6. CASE Shell
  BY <1>6 DEF Shell, cmd_keepalive, sinkVars, KeepaliveOn, cmd_drswap, cmd_prswap, cmd_answers,
     cmd_srccaps, cmd_send, cmd_ask, AskReset, AskBegin, dpm_request, PrSwapUndo,
     AskWake, AskForget
<1>7. CASE Unplug
  BY <1>7 DEF Unplug, sinkVars
<1>8. CASE SwapWindowEnds
  BY <1>8 DEF SwapWindowEnds, sinkVars
<1>9. CASE UNCHANGED vars
  BY <1>9 DEF vars, sinkVars
<1> QED
  BY <1>1, <1>2, <1>3, <1>4, <1>5, <1>6, <1>7, <1>8, <1>9 DEF Next

\* The steps that change the keep-alive.
LEMMA WorkFrame ==
  ASSUME [Next]_vars
  PROVE  \/ UNCHANGED workVars
         \/ ContractEnd \/ Reschedule \/ keepalive_handler \/ KeepaliveRequest \/ cmd_keepalive
         \/ KeepaliveOn
<1>1. CASE Callback
  BY <1>1 DEF Callback, partner_present, workVars, Detach, detach, AskGive
<1>2. CASE Sink
  BY <1>2 DEF Sink, policy_set_src_cap, workVars, SelectCapability, policy_get_rdo,
     RequestAnswered, RequestRejected
<1>3. CASE Source
  BY <1>3 DEF Source, SendCaps, policy_get_src_caps, workVars, policy_check_sink_request
<1>4. CASE Stack
  BY <1>4 DEF Stack, Attach, role_set, workVars, TransitionPs, TakeRequest, SwapRefused,
     PrSwapAccepted, DataRole, pr_swap_check, SwapVbusOff, SwapDone, ProtocolError, Leave,
     HardReset, Recovered, ask_answered
<1>5. CASE Work
  BY <1>5 DEF Work, tcpp_fault, workVars
<1>6. CASE Shell
  BY <1>6 DEF Shell, want_set, workVars, cmd_drswap, cmd_prswap, cmd_answers, cmd_srccaps,
     cmd_send, cmd_ask, AskReset, AskBegin, dpm_request, PrSwapUndo,
     AskWake, AskForget
<1>7. CASE Unplug
  BY <1>7 DEF Unplug, workVars
<1>8. CASE SwapWindowEnds
  BY <1>8 DEF SwapWindowEnds, workVars
<1>9. CASE UNCHANGED vars
  BY <1>9 DEF vars, workVars
<1> QED
  BY <1>1, <1>2, <1>3, <1>4, <1>5, <1>6, <1>7, <1>8, <1>9 DEF Next

\* The steps that change the state of swaps.
LEMMA SwapFrame ==
  ASSUME [Next]_vars
  PROVE  \/ UNCHANGED swapVars
         \/ Detach \/ RequestRejected \/ (\E is_source \in BOOLEAN : Attach(is_source))
         \/ SwapRefused \/ DataRole \/ pr_swap_check \/ SwapDone \/ ProtocolError \/ HardReset
         \/ Recovered \/ cmd_drswap \/ cmd_prswap \/ PrSwapUndo \/ SwapWindowEnds
<1>1. CASE Callback
  BY <1>1 DEF Callback, partner_present, swapVars, ContractEnd, contract_end, AskGive, Reschedule
<1>2. CASE Sink
  BY <1>2 DEF Sink, policy_set_src_cap, swapVars, SelectCapability, policy_get_rdo,
     RequestAnswered
<1>3. CASE Source
  BY <1>3 DEF Source, SendCaps, policy_get_src_caps, swapVars, policy_check_sink_request
<1>4. CASE Stack
  BY <1>4 DEF Stack, TransitionPs, swapVars, TakeRequest, PrSwapAccepted, SwapVbusOff, Leave,
     ask_answered
<1>5. CASE Work
  BY <1>5 DEF Work, keepalive_handler, swapVars, KeepaliveRequest, tcpp_fault
<1>6. CASE Shell
  BY <1>6 DEF Shell, want_set, swapVars, cmd_keepalive, KeepaliveOn, cmd_answers, cmd_srccaps,
     cmd_send, cmd_ask, AskReset, AskBegin, dpm_request, AskWake, AskForget
<1>7. CASE Unplug
  BY <1>7 DEF Unplug, swapVars
<1>8. CASE SwapWindowEnds
  BY <1>8 DEF swapVars
<1>9. CASE UNCHANGED vars
  BY <1>9 DEF vars, swapVars
<1> QED
  BY <1>1, <1>2, <1>3, <1>4, <1>5, <1>6, <1>7, <1>8, <1>9 DEF Next

\* The steps that change pd ask.
LEMMA AskFrame ==
  ASSUME [Next]_vars
  PROVE  \/ UNCHANGED askVars
         \/ AskGive \/ (\E got \in BOOLEAN : ask_answered(got)) \/ AskReset \/ AskBegin
         \/ AskWake \/ AskForget
<1>1. CASE Callback
  BY <1>1 DEF Callback, partner_present, askVars, Detach, detach, ContractEnd, contract_end,
     Reschedule
<1>2. CASE Sink
  BY <1>2 DEF Sink, policy_set_src_cap, askVars, SelectCapability, policy_get_rdo,
     RequestAnswered, RequestRejected
<1>3. CASE Source
  BY <1>3 DEF Source, SendCaps, policy_get_src_caps, askVars, policy_check_sink_request
<1>4. CASE Stack
  BY <1>4 DEF Stack, Attach, role_set, askVars, TransitionPs, TakeRequest, SwapRefused,
     PrSwapAccepted, DataRole, pr_swap_check, SwapVbusOff, SwapDone, ProtocolError, Leave,
     HardReset, Recovered
<1>5. CASE Work
  BY <1>5 DEF Work, keepalive_handler, askVars, KeepaliveRequest, tcpp_fault
<1>6. CASE Shell
  BY <1>6 DEF Shell, want_set, askVars, cmd_keepalive, KeepaliveOn, cmd_drswap, cmd_prswap,
     cmd_answers, cmd_srccaps, cmd_send, cmd_ask, dpm_request, PrSwapUndo
<1>7. CASE Unplug
  BY <1>7 DEF Unplug, askVars
<1>8. CASE SwapWindowEnds
  BY <1>8 DEF SwapWindowEnds, askVars
<1>9. CASE UNCHANGED vars
  BY <1>9 DEF vars, askVars
<1> QED
  BY <1>1, <1>2, <1>3, <1>4, <1>5, <1>6, <1>7, <1>8, <1>9 DEF Next

\* The steps that change what the bench offers and accepts as a source.
LEMMA SrcFrame ==
  ASSUME [Next]_vars
  PROVE  \/ UNCHANGED srcVars
         \/ Detach \/ SendCaps \/ (\E rdo \in Requests : policy_check_sink_request(rdo))
         \/ (\E is_source \in BOOLEAN : Attach(is_source)) \/ TransitionPs \/ TakeRequest
         \/ SwapDone \/ HardReset \/ Recovered \/ cmd_srccaps
<1>1. CASE Callback
  BY <1>1 DEF Callback, partner_present, srcVars, ContractEnd, contract_end, AskGive, Reschedule
<1>2. CASE Sink
  BY <1>2 DEF Sink, policy_set_src_cap, srcVars, SelectCapability, policy_get_rdo,
     RequestAnswered, RequestRejected
<1>3. CASE Source
  BY <1>3 DEF Source, srcVars
<1>4. CASE Stack
  BY <1>4 DEF Stack, SwapRefused, srcVars, PrSwapAccepted, DataRole, pr_swap_check, SwapVbusOff,
     ProtocolError, Leave, ask_answered
<1>5. CASE Work
  BY <1>5 DEF Work, keepalive_handler, srcVars, KeepaliveRequest, tcpp_fault
<1>6. CASE Shell
  BY <1>6 DEF Shell, want_set, srcVars, cmd_keepalive, KeepaliveOn, cmd_drswap, cmd_prswap,
     cmd_answers, cmd_send, cmd_ask, AskReset, AskBegin, dpm_request, PrSwapUndo,
     AskWake, AskForget
<1>7. CASE Unplug
  BY <1>7 DEF Unplug, srcVars
<1>8. CASE SwapWindowEnds
  BY <1>8 DEF SwapWindowEnds, srcVars
<1>9. CASE UNCHANGED vars
  BY <1>9 DEF vars, srcVars
<1> QED
  BY <1>1, <1>2, <1>3, <1>4, <1>5, <1>6, <1>7, <1>8, <1>9 DEF Next

\* The steps that change the host and the shell.
LEMMA HostFrame ==
  ASSUME [Next]_vars
  PROVE  \/ UNCHANGED hostVars
         \/ want_set \/ cmd_keepalive \/ KeepaliveOn \/ cmd_drswap \/ cmd_prswap \/ cmd_answers
         \/ cmd_srccaps \/ cmd_send \/ cmd_ask \/ AskReset \/ AskBegin \/ dpm_request
         \/ PrSwapUndo \/ AskWake \/ AskForget
<1>1. CASE Callback
  BY <1>1 DEF Callback, partner_present, hostVars, Detach, detach, ContractEnd, contract_end,
     AskGive, Reschedule
<1>2. CASE Sink
  BY <1>2 DEF Sink, policy_set_src_cap, hostVars, SelectCapability, policy_get_rdo,
     RequestAnswered, RequestRejected
<1>3. CASE Source
  BY <1>3 DEF Source, SendCaps, policy_get_src_caps, hostVars, policy_check_sink_request
<1>4. CASE Stack
  BY <1>4 DEF Stack, Attach, role_set, hostVars, TransitionPs, TakeRequest, SwapRefused,
     PrSwapAccepted, DataRole, pr_swap_check, SwapVbusOff, SwapDone, ProtocolError, Leave,
     HardReset, Recovered, ask_answered
<1>5. CASE Work
  BY <1>5 DEF Work, keepalive_handler, hostVars, KeepaliveRequest, tcpp_fault
<1>6. CASE Shell
  BY <1>6 DEF Shell, hostVars
<1>7. CASE Unplug
  BY <1>7 DEF Unplug, hostVars
<1>8. CASE SwapWindowEnds
  BY <1>8 DEF SwapWindowEnds, hostVars
<1>9. CASE UNCHANGED vars
  BY <1>9 DEF vars, hostVars
<1> QED
  BY <1>1, <1>2, <1>3, <1>4, <1>5, <1>6, <1>7, <1>8, <1>9 DEF Next

\* The steps that change the stack.
LEMMA StackFrame ==
  ASSUME [Next]_vars
  PROVE  \/ UNCHANGED stackVars
         \/ partner_present \/ Detach \/ ContractEnd \/ AskGive \/ Reschedule
         \/ (\E caps \in Capabilities : policy_set_src_cap(caps)) \/ SelectCapability
         \/ RequestAnswered \/ RequestRejected \/ SendCaps
         \/ (\E rdo \in Requests : policy_check_sink_request(rdo))
         \/ (\E is_source \in BOOLEAN : Attach(is_source)) \/ TransitionPs \/ TakeRequest
         \/ SwapRefused \/ PrSwapAccepted \/ DataRole \/ pr_swap_check \/ SwapVbusOff \/ SwapDone
         \/ ProtocolError \/ Leave \/ HardReset \/ Recovered
         \/ (\E got \in BOOLEAN : ask_answered(got)) \/ KeepaliveRequest \/ tcpp_fault
         \/ dpm_request
<1>1. CASE Callback
  BY <1>1 DEF Callback, stackVars
<1>2. CASE Sink
  BY <1>2 DEF Sink, stackVars
<1>3. CASE Source
  BY <1>3 DEF Source, stackVars
<1>4. CASE Stack
  BY <1>4 DEF Stack, stackVars
<1>5. CASE Work
  BY <1>5 DEF Work, keepalive_handler, stackVars
<1>6. CASE Shell
  BY <1>6 DEF Shell, want_set, stackVars, cmd_keepalive, KeepaliveOn, cmd_drswap, cmd_prswap,
     cmd_answers, cmd_srccaps, cmd_send, cmd_ask, AskReset, AskBegin, PrSwapUndo, AskWake, AskForget
<1>7. CASE Unplug
  BY <1>7 DEF Unplug, stackVars
<1>8. CASE SwapWindowEnds
  BY <1>8 DEF SwapWindowEnds, stackVars
<1>9. CASE UNCHANGED vars
  BY <1>9 DEF vars, stackVars
<1> QED
  BY <1>1, <1>2, <1>3, <1>4, <1>5, <1>6, <1>7, <1>8, <1>9 DEF Next

\* The steps that change the line.
LEMMA LineFrame ==
  ASSUME [Next]_vars
  PROVE  \/ UNCHANGED lineVars
         \/ (\E is_source \in BOOLEAN : Attach(is_source)) \/ tcpp_fault \/ cmd_drswap \/ Unplug
<1>1. CASE Callback
  BY <1>1 DEF Callback, partner_present, lineVars, Detach, detach, ContractEnd, contract_end,
     AskGive, Reschedule
<1>2. CASE Sink
  BY <1>2 DEF Sink, policy_set_src_cap, lineVars, SelectCapability, policy_get_rdo,
     RequestAnswered, RequestRejected
<1>3. CASE Source
  BY <1>3 DEF Source, SendCaps, policy_get_src_caps, lineVars, policy_check_sink_request
<1>4. CASE Stack
  BY <1>4 DEF Stack, TransitionPs, lineVars, TakeRequest, SwapRefused, PrSwapAccepted, DataRole,
     pr_swap_check, SwapVbusOff, SwapDone, role_set, ProtocolError, Leave, HardReset, Recovered,
     ask_answered
<1>5. CASE Work
  BY <1>5 DEF Work, keepalive_handler, lineVars, KeepaliveRequest
<1>6. CASE Shell
  BY <1>6 DEF Shell, want_set, lineVars, cmd_keepalive, KeepaliveOn, cmd_prswap,
     cmd_answers, cmd_srccaps, cmd_send, cmd_ask, AskReset, AskBegin, dpm_request, PrSwapUndo,
     AskWake, AskForget
<1>7. CASE Unplug
  BY <1>7 DEF lineVars
<1>8. CASE SwapWindowEnds
  BY <1>8 DEF SwapWindowEnds, lineVars
<1>9. CASE UNCHANGED vars
  BY <1>9 DEF vars, lineVars
<1> QED
  BY <1>1, <1>2, <1>3, <1>4, <1>5, <1>6, <1>7, <1>8, <1>9 DEF Next

----------------------------------------------------------------------------
(* Types.                                                                  *)

----------------------------------------------------------------------------
(* What the assumptions and the helpers give.                              *)

\* Every Source_Capabilities is a sequence of PDOs, the first one the fixed vSafe5V.
LEMMA CapsFacts ==
  ASSUME NEW caps \in Capabilities \cup Offers
  PROVE  /\ caps \in Seq(Pdo) /\ caps # <<>> /\ 1 \in DOMAIN caps
         /\ \A i \in DOMAIN caps : caps[i] \in Pdo /\ i \in Nat \ {0}
         /\ caps[1].kind = "fixed"
<1>1. caps \in Seq(Pdo) /\ caps # <<>> /\ caps[1].kind = "fixed"
  BY PdAssumption DEF WellFormed
<1>2. 1 \in DOMAIN caps /\ \A i \in DOMAIN caps : caps[i] \in Pdo /\ i \in Nat \ {0}
  BY <1>1
<1> QED
  BY <1>1, <1>2

\* A command carries what its name calls for.
LEMMA CommandFacts ==
  ASSUME NEW c \in Command
  PROVE  /\ c.name = "want" => c.want \in Want
         /\ c.name = "srccaps" => c.offer \in Offers
         /\ c.name = "ask" => c.kind \in Asks
         /\ c.name = "dr" => c.answer \in {"accept", "reject", "nosupport"}
         /\ c.name = "pr" => c.answer \in {"accept", "reject"}
         /\ c.name = "answer" => c.answer \in {"accept", "reject", "wait"}
         /\ c.name = "keepalive" => c.off \in BOOLEAN
BY DEF Command

\* The shell types commands.
LEMMA TypedFacts ==
  ASSUME HostTypes, script # <<>>
  PROVE  Arg \in Command /\ Tail(script) \in Seq(Command)
BY DEF HostTypes, Arg

\* usbc_request keeps the queue within its depth.
LEMMA QueueFacts ==
  ASSUME StackTypes, NEW r \in DpmRequest, usbc_request(r)
  PROVE  queue' \in Seq(DpmRequest) /\ Len(queue') <= QueueDepth
<1>1. queue \in Seq(DpmRequest) /\ Len(queue) <= QueueDepth /\ QueueDepth \in Nat
  BY PdAssumption DEF StackTypes
<1>2. /\ Append(queue, r) \in Seq(DpmRequest) /\ Len(Append(queue, r)) = Len(queue) + 1
      /\ Len(queue) \in Nat
  BY <1>1
<1> QED
  BY <1>1, <1>2 DEF usbc_request

\* What a field holds is at most what it was given, and not below what is a whole of its steps.
LEMMA StepsFacts ==
  /\ \A x \in Nat : Steps(x, 10) \in Nat /\ Steps(x, 10) <= x
  /\ \A x \in Nat : Steps(x, 50) \in Nat /\ Steps(x, 50) <= x
  /\ \A x \in Nat : Steps(x, 20) \in Nat /\ Steps(x, 20) <= x
  /\ \A x, min \in Nat : min <= x /\ min % 100 = 0 => min <= Steps(x, 20)
BY DEF Steps

\* Whatever rdo_choices picks is an RDO, and the PDO kept with it is one.
LEMMA ChoiceFacts ==
  ASSUME SinkTypes, NEW rdo \in rdo_choices
  PROVE  /\ rdo \in Rdo
         /\ pdos_at(rdo.pos) \subseteq Pdo
<1>1. /\ src_caps \in Seq(Pdo) /\ \A i \in DOMAIN src_caps : src_caps[i] \in Pdo /\ i \in Nat \ {0}
      /\ src_caps # <<>> => 1 \in DOMAIN src_caps
  <2>1. CASE src_caps = <<>>
    BY <2>1
  <2>2. CASE src_caps \in Capabilities
    BY <2>2, CapsFacts
  <2> QED
    BY <2>1, <2>2 DEF SinkTypes
<1>2. SAFE_MA \in Nat /\ CABLE_MA \in Nat
  BY PdAssumption
<1>3. NoPdo \in Pdo
  BY DEF NoPdo, Pdo
<1>4. \A a, b \in Nat : Lesser(a, b) \in Nat
  BY DEF Lesser
<1>5. \A pos \in Nat \ {0}, ma \in Nat : rdo_fixed(pos, ma) \in Rdo
  BY StepsFacts DEF rdo_fixed, Rdo
<1>6. \A i \in DOMAIN src_caps : src_caps[i].ma \in Nat
  BY <1>1 DEF Pdo
<1>7. safe_rdo \in Rdo
  <2>1. src_caps # <<>> => Lesser(SAFE_MA, src_caps[1].ma) \in Nat
    BY <1>1, <1>2, <1>4, <1>6
  <2>2. (IF src_caps = <<>> THEN SAFE_MA ELSE Lesser(SAFE_MA, src_caps[1].ma)) \in Nat
    BY <1>2, <2>1
  <2> QED
    BY <1>5, <2>2 DEF safe_rdo
<1>8. rdo_max_locked(src_caps) \subseteq Rdo
  <2>1. rdo_fixed(1, SAFE_MA) \in Rdo
    BY <1>2, <1>5
  <2>2. \A i \in fixed_positions(src_caps) :
          rdo_fixed(i, Lesser(src_caps[i].ma, CABLE_MA)) \in Rdo
    BY <1>1, <1>2, <1>4, <1>5, <1>6 DEF fixed_positions
  <2>3. CASE fixed_positions(src_caps) = {}
    BY <2>1, <2>3 DEF rdo_max_locked
  <2>4. CASE fixed_positions(src_caps) # {}
    BY <2>2, <2>4, Zenon DEF rdo_max_locked
  <2> QED
    BY <2>3, <2>4
<1>9. rdo_for_locked(want, src_caps) \subseteq Rdo
  <2>1. want \in Want
    BY DEF SinkTypes
  <2>2. want.pos \in Nat /\ want.mv \in Nat /\ want.ma \in Nat
    BY <2>1 DEF Want
  <2>3. want.pos \in DOMAIN src_caps =>
          /\ rdo_fixed(want.pos, IF want.ma > 0 THEN want.ma
                                 ELSE Lesser(src_caps[want.pos].ma, CABLE_MA)) \in Rdo
          /\ rdo_pps(want.pos, want.mv, want.ma) \in Rdo
    BY <1>1, <1>2, <1>4, <1>5, <1>6, <2>2, StepsFacts DEF rdo_pps, Rdo
  <2> QED
    BY <1>8, <2>3 DEF rdo_for_locked
<1>10. agreed.rdo \in Rdo
  BY DEF SinkTypes, Agreement
<1>11. rdo \in Rdo
  BY <1>7, <1>9, <1>10 DEF rdo_choices
<1>12. {caps[rdo.pos] : caps \in {c \in Capabilities : rdo.pos \in DOMAIN c}} \subseteq Pdo
  BY CapsFacts
<1> QED
  BY <1>1, <1>3, <1>11, <1>12 DEF pdos_at

\* policy_get_rdo puts a Request of its type on the wire.
LEMMA GetRdoFacts ==
  ASSUME SinkTypes, policy_get_rdo
  PROVE  SinkTypes'
<1>1. sent' \in Agreement
  <2>1. PICK rdo \in rdo_choices : \E pdo \in pdos_at(rdo.pos) : sent' = [rdo |-> rdo, pdo |-> pdo]
    BY DEF policy_get_rdo
  <2>2. rdo \in Rdo /\ pdos_at(rdo.pos) \subseteq Pdo
    BY ChoiceFacts
  <2> QED
    BY <2>1, <2>2 DEF Agreement
<1>2. refresh' = FALSE
  BY DEF policy_get_rdo
<1>3. UNCHANGED <<src_caps, want, contract, agreed, rejects>>
  BY DEF policy_get_rdo
<1> QED
  BY <1>1, <1>2, <1>3 DEF SinkTypes

\* RoleTypes is kept.
LEMMA RoleStep ==
  ASSUME RoleTypes, StackTypes, [Next]_vars
  PROVE  RoleTypes'
<1> USE PdAssumption
<1>1. ASSUME Detach PROVE RoleTypes'
  BY <1>1 DEF Detach, detach, close_window, RoleTypes
<1>2. ASSUME NEW is_source \in BOOLEAN, Attach(is_source) PROVE RoleTypes'
  BY <1>2 DEF Attach, role_set, Idle, close_window, RoleTypes
<1>3. ASSUME DataRole PROVE RoleTypes'
  BY <1>3 DEF DataRole, Idle, RoleTypes
<1>4. ASSUME SwapDone PROVE RoleTypes'
  BY <1>4 DEF SwapDone, role_set, Idle, close_window, RoleTypes
<1>5. ASSUME Recovered PROVE RoleTypes'
  <2>1. role_set(psrc)
    BY <1>5 DEF Recovered
  <2>2. attached' = TRUE /\ source' = psrc /\ dfp' = (IF attached THEN dfp ELSE psrc)
    BY <2>1 DEF role_set
  <2> QED
    BY <2>2 DEF RoleTypes, StackTypes
<1>6. ASSUME UNCHANGED roleVars PROVE RoleTypes'
  BY <1>6 DEF roleVars, RoleTypes
<1> QED
  BY <1>1, <1>2, <1>3, <1>4, <1>5, <1>6, RoleFrame

\* SinkTypes is kept.
LEMMA SinkStep ==
  ASSUME SinkTypes, HostTypes, [Next]_vars
  PROVE  SinkTypes'
<1> USE PdAssumption
<1>1. ASSUME Detach PROVE SinkTypes'
  BY <1>1 DEF Detach, detach, close_window, SinkTypes
<1>2. ASSUME ContractEnd PROVE SinkTypes'
  BY <1>2 DEF ContractEnd, contract_end, SinkTypes
<1>3. ASSUME NEW caps \in Capabilities, policy_set_src_cap(caps) PROVE SinkTypes'
  BY <1>3 DEF policy_set_src_cap, Idle, SinkTypes
<1>4. ASSUME SelectCapability PROVE SinkTypes'
  BY <1>4, GetRdoFacts DEF SelectCapability
<1>5. ASSUME RequestRejected PROVE SinkTypes'
  BY <1>5 DEF RequestRejected, rejected, Idle, swap_answered_locked, answers_swap, SinkTypes
<1>6. ASSUME NEW is_source \in BOOLEAN, Attach(is_source) PROVE SinkTypes'
  BY <1>6 DEF Attach, role_set, Idle, close_window, SinkTypes
<1>7. ASSUME TransitionPs PROVE SinkTypes'
  BY <1>7 DEF TransitionPs, Idle, sinkVars, SinkTypes
<1>8. ASSUME TakeRequest PROVE SinkTypes'
  <2>1. CASE policy_get_rdo
    BY <2>1, GetRdoFacts
  <2>2. CASE UNCHANGED sinkVars
    BY <2>2 DEF sinkVars, SinkTypes
  <2> QED
    BY <1>8, <2>1, <2>2 DEF TakeRequest
<1>9. ASSUME SwapRefused PROVE SinkTypes'
  BY <1>9 DEF SwapRefused, close_window, keep_window, swap_answered_locked, rejected, Idle,
     answers_swap, SinkTypes
<1>10. ASSUME SwapDone PROVE SinkTypes'
  BY <1>10 DEF SwapDone, role_set, Idle, close_window, SinkTypes
<1>11. ASSUME Recovered PROVE SinkTypes'
  BY <1>11 DEF Recovered, role_set, Idle, close_window, SinkTypes
<1>12. ASSUME keepalive_handler PROVE SinkTypes'
  BY <1>12 DEF keepalive_handler, SinkTypes
<1>13. ASSUME want_set PROVE SinkTypes'
  <2>1. want' = want \/ want' \in Want
    <3>1. Arg.name = "want" /\ Arg \in Command
      BY <1>13, TypedFacts DEF want_set, Typed, Arg
    <3>2. Arg.want \in Want
      BY <3>1, CommandFacts
    <3> QED
      BY <1>13, <3>2 DEF want_set
  <2>2. UNCHANGED <<src_caps, sent, contract, agreed, refresh, rejects>>
    BY <1>13 DEF want_set
  <2> QED
    BY <2>1, <2>2 DEF SinkTypes
<1>14. ASSUME UNCHANGED sinkVars PROVE SinkTypes'
  BY <1>14 DEF sinkVars, SinkTypes
<1> QED
  BY <1>1, <1>2, <1>3, <1>4, <1>5, <1>6, <1>7, <1>8, <1>9, <1>10, <1>11, <1>12, <1>13, <1>14,
     SinkFrame

\* WorkTypes is kept.
LEMMA WorkStep ==
  ASSUME WorkTypes, HostTypes, [Next]_vars
  PROVE  WorkTypes'
<1> USE PdAssumption
<1>1. ASSUME ContractEnd PROVE WorkTypes'
  BY <1>1 DEF ContractEnd, contract_end, WorkTypes
<1>2. ASSUME Reschedule PROVE WorkTypes'
  BY <1>2 DEF Reschedule, WorkTypes
<1>3. ASSUME keepalive_handler PROVE WorkTypes'
  BY <1>3 DEF keepalive_handler, WorkTypes
<1>4. ASSUME KeepaliveRequest PROVE WorkTypes'
  BY <1>4 DEF KeepaliveRequest, usbc_request, WorkTypes
<1>5. ASSUME cmd_keepalive PROVE WorkTypes'
  <2>1. Arg.name = "keepalive" /\ Arg \in Command
    BY <1>5, TypedFacts DEF cmd_keepalive, Typed, Arg
  <2>2. keepalive_off' \in BOOLEAN
    BY <1>5, <2>1, CommandFacts DEF cmd_keepalive
  <2>3. UNCHANGED <<armed, work>>
    BY <1>5 DEF cmd_keepalive
  <2> QED
    BY <2>2, <2>3 DEF WorkTypes
<1>6. ASSUME KeepaliveOn PROVE WorkTypes'
  BY <1>6 DEF KeepaliveOn, WorkTypes
<1>7. ASSUME UNCHANGED workVars PROVE WorkTypes'
  BY <1>7 DEF workVars, WorkTypes
<1> QED
  BY <1>1, <1>2, <1>3, <1>4, <1>5, <1>6, <1>7, WorkFrame

\* SwapTypes is kept.
LEMMA SwapStep ==
  ASSUME SwapTypes, [Next]_vars
  PROVE  SwapTypes'
<1> USE PdAssumption
<1>1. ASSUME Detach PROVE SwapTypes'
  BY <1>1 DEF Detach, detach, close_window, SwapTypes
<1>2. ASSUME RequestRejected PROVE SwapTypes'
  <2>1. swap_answered_locked
    BY <1>2 DEF RequestRejected, rejected
  <2> QED
    BY <2>1 DEF swap_answered_locked, close_window, keep_window, SwapTypes
<1>3. ASSUME NEW is_source \in BOOLEAN, Attach(is_source) PROVE SwapTypes'
  BY <1>3 DEF Attach, role_set, Idle, close_window, SwapTypes
<1>4. ASSUME SwapRefused PROVE SwapTypes'
  BY <1>4 DEF SwapRefused, close_window, keep_window, swap_answered_locked, rejected, Idle,
     answers_swap, SwapTypes
<1>5. ASSUME DataRole PROVE SwapTypes'
  BY <1>5 DEF DataRole, Idle, SwapTypes
<1>6. ASSUME pr_swap_check PROVE SwapTypes'
  BY <1>6 DEF pr_swap_check, Idle, SwapTypes
<1>7. ASSUME SwapDone PROVE SwapTypes'
  BY <1>7 DEF SwapDone, role_set, Idle, close_window, SwapTypes
<1>8. ASSUME ProtocolError PROVE SwapTypes'
  BY <1>8 DEF ProtocolError, swap_failed_locked, close_window, SwapTypes
<1>9. ASSUME HardReset PROVE SwapTypes'
  BY <1>9 DEF HardReset, swap_failed_locked, usbc_request, close_window, SwapTypes
<1>10. ASSUME Recovered PROVE SwapTypes'
  BY <1>10 DEF Recovered, role_set, Idle, close_window, SwapTypes
<1>11. ASSUME cmd_drswap PROVE SwapTypes'
  BY <1>11 DEF cmd_drswap, Typed, Then, Done, Arg, SwapTypes
<1>12. ASSUME cmd_prswap PROVE SwapTypes'
  BY <1>12 DEF cmd_prswap, Typed, Done, Then, Arg, SwapTypes
<1>13. ASSUME PrSwapUndo PROVE SwapTypes'
  BY <1>13 DEF PrSwapUndo, SwapTypes
<1>14. ASSUME SwapWindowEnds PROVE SwapTypes'
  BY <1>14 DEF SwapWindowEnds, SwapTypes
<1>15. ASSUME UNCHANGED swapVars PROVE SwapTypes'
  BY <1>15 DEF swapVars, SwapTypes
<1> QED
  BY <1>1, <1>2, <1>3, <1>4, <1>5, <1>6, <1>7, <1>8, <1>9, <1>10, <1>11, <1>12, <1>13, <1>14,
     <1>15, SwapFrame

\* AskTypes is kept.
LEMMA AskStep ==
  ASSUME AskTypes, HostTypes, [Next]_vars
  PROVE  AskTypes'
<1> USE PdAssumption
<1>1. ASSUME AskGive PROVE AskTypes'
  BY <1>1 DEF AskGive, AskTypes
<1>2. ASSUME NEW got \in BOOLEAN, ask_answered(got) PROVE AskTypes'
  BY <1>2 DEF ask_answered, Idle, askVars, AskTypes
<1>3. ASSUME AskBegin PROVE AskTypes'
  <2>1. Arg.name = "ask" /\ Arg \in Command
    BY <1>3, TypedFacts DEF AskBegin, Arg, HostTypes
  <2>2. Arg.kind \in Asks
    BY <2>1, CommandFacts
  <2> QED
    BY <1>3, <2>2 DEF AskBegin, AskTypes
<1>7. ASSUME AskReset PROVE AskTypes'
  BY <1>7 DEF AskReset, AskTypes
<1>4. ASSUME AskWake PROVE AskTypes'
  BY <1>4 DEF AskWake, AskTypes
<1>5. ASSUME AskForget PROVE AskTypes'
  BY <1>5 DEF AskForget, AskTypes
<1>6. ASSUME UNCHANGED askVars PROVE AskTypes'
  BY <1>6 DEF askVars, AskTypes
<1> QED
  BY <1>1, <1>2, <1>3, <1>4, <1>5, <1>6, <1>7, AskFrame

\* SrcTypes is kept.
LEMMA SrcStep ==
  ASSUME SrcTypes, HostTypes, [Next]_vars
  PROVE  SrcTypes'
<1> USE PdAssumption
<1>1. ASSUME Detach PROVE SrcTypes'
  BY <1>1 DEF Detach, detach, close_window, SrcTypes
<1>2. ASSUME SendCaps PROVE SrcTypes'
  BY <1>2 DEF SendCaps, policy_get_src_caps, Idle, SrcTypes
<1>3. ASSUME NEW rdo \in Requests, policy_check_sink_request(rdo) PROVE SrcTypes'
  <2>1. req' \in Agreement
    <3>1. CASE accepts(rdo)
      <4>1. rdo \in Rdo /\ rdo.pos \in DOMAIN sent_caps
        BY <3>1, PdAssumption DEF accepts, request_fits
      <4>2. sent_caps \in Offers
        BY <4>1 DEF SrcTypes
      <4>3. sent_caps[rdo.pos] \in Pdo
        BY <4>1, <4>2, CapsFacts
      <4> QED
        BY <1>3, <3>1, <4>1, <4>3 DEF policy_check_sink_request, Agreement
    <3>2. CASE ~accepts(rdo)
      BY <1>3, <3>2 DEF policy_check_sink_request, SrcTypes
    <3> QED
      BY <3>1, <3>2
  <2>2. UNCHANGED <<offer, sent_caps, src_contract, src_agreed>>
    BY <1>3 DEF policy_check_sink_request
  <2> QED
    BY <2>1, <2>2 DEF SrcTypes
<1>4. ASSUME NEW is_source \in BOOLEAN, Attach(is_source) PROVE SrcTypes'
  BY <1>4 DEF Attach, role_set, Idle, close_window, SrcTypes
<1>5. ASSUME TransitionPs PROVE SrcTypes'
  BY <1>5 DEF TransitionPs, Idle, SrcTypes
<1>6. ASSUME TakeRequest PROVE SrcTypes'
  BY <1>6 DEF TakeRequest, policy_get_src_caps, policy_get_rdo, srcVars, SrcTypes
<1>7. ASSUME SwapDone PROVE SrcTypes'
  BY <1>7 DEF SwapDone, role_set, Idle, close_window, SrcTypes
<1>8. ASSUME HardReset PROVE SrcTypes'
  BY <1>8 DEF HardReset, swap_failed_locked, usbc_request, close_window, srcVars, SrcTypes
<1>9. ASSUME Recovered PROVE SrcTypes'
  BY <1>9 DEF Recovered, role_set, Idle, close_window, SrcTypes
<1>10. ASSUME cmd_srccaps PROVE SrcTypes'
  <2>1. Arg.name = "srccaps" /\ Arg \in Command
    BY <1>10, TypedFacts DEF cmd_srccaps, Typed, Arg
  <2>2. offer' \in Offers
    BY <1>10, <2>1, CommandFacts DEF cmd_srccaps
  <2>3. UNCHANGED <<sent_caps, req, src_contract, src_agreed>>
    BY <1>10 DEF cmd_srccaps
  <2> QED
    BY <2>2, <2>3 DEF SrcTypes
<1>11. ASSUME UNCHANGED srcVars PROVE SrcTypes'
  BY <1>11 DEF srcVars, SrcTypes
<1> QED
  BY <1>1, <1>2, <1>3, <1>4, <1>5, <1>6, <1>7, <1>8, <1>9, <1>10, <1>11, SrcFrame

\* HostTypes is kept.
LEMMA HostStep ==
  ASSUME HostTypes, [Next]_vars
  PROVE  HostTypes'
<1> USE PdAssumption
<1>1. ASSUME want_set PROVE HostTypes'
  <2>1. Arg \in Command /\ Tail(script) \in Seq(Command)
    BY <1>1, TypedFacts DEF want_set, Typed
  <2>2. script' = script \/ script' = Tail(script)
    BY <1>1 DEF want_set, Done, Then
  <2>3. shell' \in DpmRequest \cup {"idle", "wait", "forget", "undo", "rearm"}
    BY <1>1 DEF want_set, Done, Then, DpmRequest
  <2>4. UNCHANGED <<dr_answer, pr_answer, req_answer>>
    BY <1>1 DEF want_set
  <2>5. script' \in Seq(Command)
    BY <2>1, <2>2 DEF HostTypes
  <2> QED
    BY <2>3, <2>4, <2>5 DEF HostTypes, DpmRequest, Asks
<1>2. ASSUME cmd_keepalive PROVE HostTypes'
  <2>1. Arg \in Command /\ Tail(script) \in Seq(Command)
    BY <1>2, TypedFacts DEF cmd_keepalive, Typed
  <2>2. script' = script \/ script' = Tail(script)
    BY <1>2 DEF cmd_keepalive, Done, Then
  <2>3. shell' \in DpmRequest \cup {"idle", "wait", "forget", "undo", "rearm"}
    BY <1>2 DEF cmd_keepalive, Done, Then, DpmRequest
  <2>4. UNCHANGED <<dr_answer, pr_answer, req_answer>>
    BY <1>2 DEF cmd_keepalive
  <2>5. script' \in Seq(Command)
    BY <2>1, <2>2 DEF HostTypes
  <2> QED
    BY <2>3, <2>4, <2>5 DEF HostTypes, DpmRequest, Asks
<1>3. ASSUME KeepaliveOn PROVE HostTypes'
  BY <1>3 DEF KeepaliveOn, HostTypes
<1>4. ASSUME cmd_drswap PROVE HostTypes'
  <2>1. Arg \in Command /\ Tail(script) \in Seq(Command)
    BY <1>4, TypedFacts DEF cmd_drswap, Typed
  <2>2. script' = script \/ script' = Tail(script)
    BY <1>4 DEF cmd_drswap, Done, Then
  <2>3. shell' \in DpmRequest \cup {"idle", "wait", "forget", "undo", "rearm"}
    BY <1>4 DEF cmd_drswap, Done, Then, DpmRequest
  <2>4. UNCHANGED <<dr_answer, pr_answer, req_answer>>
    BY <1>4 DEF cmd_drswap
  <2>5. script' \in Seq(Command)
    BY <2>1, <2>2 DEF HostTypes
  <2> QED
    BY <2>3, <2>4, <2>5 DEF HostTypes, DpmRequest, Asks
<1>5. ASSUME cmd_prswap PROVE HostTypes'
  <2>1. Arg \in Command /\ Tail(script) \in Seq(Command)
    BY <1>5, TypedFacts DEF cmd_prswap, Typed
  <2>2. script' = script \/ script' = Tail(script)
    BY <1>5 DEF cmd_prswap, Done, Then
  <2>3. shell' \in DpmRequest \cup {"idle", "wait", "forget", "undo", "rearm"}
    BY <1>5 DEF cmd_prswap, Done, Then, DpmRequest
  <2>4. UNCHANGED <<dr_answer, pr_answer, req_answer>>
    BY <1>5 DEF cmd_prswap
  <2>5. script' \in Seq(Command)
    BY <2>1, <2>2 DEF HostTypes
  <2> QED
    BY <2>3, <2>4, <2>5 DEF HostTypes, DpmRequest, Asks
<1>6. ASSUME cmd_answers PROVE HostTypes'
  <2>1. Arg \in Command /\ Tail(script) \in Seq(Command)
    BY <1>6, TypedFacts DEF cmd_answers, Typed
  <2>2. script' = Tail(script) /\ shell' = "idle"
    BY <1>6 DEF cmd_answers, Done
  <2>3. CASE Typed("dr") /\ dr_answer' = Arg.answer /\ UNCHANGED <<pr_answer, req_answer>>
    <3>1. dr_answer' \in {"accept", "reject", "nosupport"}
      BY <2>1, <2>3, CommandFacts DEF Typed, Arg
    <3> QED
      BY <2>1, <2>2, <2>3, <3>1 DEF HostTypes
  <2>4. CASE Typed("pr") /\ pr_answer' = Arg.answer /\ UNCHANGED <<dr_answer, req_answer>>
    <3>1. pr_answer' \in {"accept", "reject"}
      BY <2>1, <2>4, CommandFacts DEF Typed, Arg
    <3> QED
      BY <2>1, <2>2, <2>4, <3>1 DEF HostTypes
  <2>5. CASE Typed("answer") /\ req_answer' = Arg.answer /\ UNCHANGED <<dr_answer, pr_answer>>
    <3>1. req_answer' \in {"accept", "reject", "wait"}
      BY <2>1, <2>5, CommandFacts DEF Typed, Arg
    <3> QED
      BY <2>1, <2>2, <2>5, <3>1 DEF HostTypes
  <2> QED
    BY <1>6, <2>3, <2>4, <2>5 DEF cmd_answers
<1>7. ASSUME cmd_srccaps PROVE HostTypes'
  <2>1. Arg \in Command /\ Tail(script) \in Seq(Command)
    BY <1>7, TypedFacts DEF cmd_srccaps, Typed
  <2>2. script' = script \/ script' = Tail(script)
    BY <1>7 DEF cmd_srccaps, Done, Then
  <2>3. shell' \in DpmRequest \cup {"idle", "wait", "forget", "undo", "rearm"}
    BY <1>7 DEF cmd_srccaps, Done, Then, DpmRequest
  <2>4. UNCHANGED <<dr_answer, pr_answer, req_answer>>
    BY <1>7 DEF cmd_srccaps
  <2>5. script' \in Seq(Command)
    BY <2>1, <2>2 DEF HostTypes
  <2> QED
    BY <2>3, <2>4, <2>5 DEF HostTypes, DpmRequest, Asks
<1>8. ASSUME cmd_send PROVE HostTypes'
  <2>1. Arg \in Command /\ Tail(script) \in Seq(Command)
    BY <1>8, TypedFacts DEF cmd_send, Typed
  <2>2. script' = script \/ script' = Tail(script)
    BY <1>8 DEF cmd_send, Done, Then
  <2>3. shell' \in DpmRequest \cup {"idle", "wait", "forget", "undo", "rearm"}
    BY <1>8 DEF cmd_send, Done, Then, DpmRequest
  <2>4. UNCHANGED <<dr_answer, pr_answer, req_answer>>
    BY <1>8 DEF cmd_send
  <2>5. script' \in Seq(Command)
    BY <2>1, <2>2 DEF HostTypes
  <2> QED
    BY <2>3, <2>4, <2>5 DEF HostTypes, DpmRequest, Asks
<1>9. ASSUME cmd_ask PROVE HostTypes'
  <2>1. Arg \in Command /\ Tail(script) \in Seq(Command)
    BY <1>9, TypedFacts DEF cmd_ask, Typed
  <2>2. UNCHANGED <<dr_answer, pr_answer, req_answer>>
    BY <1>9 DEF cmd_ask
  <2>3. CASE shell' = "reset" /\ UNCHANGED script
    BY <1>9, <2>2, <2>3 DEF cmd_ask, Typed, HostTypes
  <2>4. CASE Done
    BY <2>1, <2>2, <2>4 DEF Done, HostTypes
  <2> QED
    BY <1>9, <2>3, <2>4 DEF cmd_ask
<1>15. ASSUME AskReset PROVE HostTypes'
  BY <1>15 DEF AskReset, HostTypes
<1>16. ASSUME AskBegin PROVE HostTypes'
  <2>1. Arg.name = "ask" /\ Arg \in Command /\ Tail(script) \in Seq(Command)
    BY <1>16, TypedFacts DEF AskBegin, Arg, HostTypes
  <2>2. Arg.kind \in Asks
    BY <2>1, CommandFacts
  <2>3. /\ script' = Tail(script) /\ shell' = Arg.kind
        /\ UNCHANGED <<dr_answer, pr_answer, req_answer>>
    BY <1>16 DEF AskBegin, Then
  <2>4. shell' \in DpmRequest /\ shell' \notin {"reset", "asking"}
    BY <2>2, <2>3 DEF DpmRequest, Asks
  <2> QED
    BY <2>1, <2>3, <2>4 DEF HostTypes
<1>10. ASSUME dpm_request PROVE HostTypes'
  BY <1>10 DEF dpm_request, usbc_request, HostTypes
<1>11. ASSUME PrSwapUndo PROVE HostTypes'
  BY <1>11 DEF PrSwapUndo, HostTypes
<1>12. ASSUME AskWake PROVE HostTypes'
  BY <1>12 DEF AskWake, HostTypes
<1>13. ASSUME AskForget PROVE HostTypes'
  BY <1>13 DEF AskForget, HostTypes
<1>14. ASSUME UNCHANGED hostVars PROVE HostTypes'
  BY <1>14 DEF hostVars, HostTypes
<1> QED
  BY <1>1, <1>2, <1>3, <1>4, <1>5, <1>6, <1>7, <1>8, <1>9, <1>10, <1>11, <1>12, <1>13, <1>14,
     <1>15, <1>16, HostFrame

\* StackTypes is kept.
LEMMA StackStep ==
  ASSUME StackTypes, [Next]_vars
  PROVE  StackTypes'
<1> USE PdAssumption
<1>1. ASSUME partner_present PROVE StackTypes'
  BY <1>1 DEF partner_present, detach, close_window, StackTypes
<1>2. ASSUME Detach PROVE StackTypes'
  BY <1>2 DEF Detach, detach, close_window, StackTypes
<1>3. ASSUME ContractEnd PROVE StackTypes'
  BY <1>3 DEF ContractEnd, contract_end, StackTypes
<1>4. ASSUME AskGive PROVE StackTypes'
  BY <1>4 DEF AskGive, StackTypes
<1>5. ASSUME Reschedule PROVE StackTypes'
  BY <1>5 DEF Reschedule, StackTypes
<1>6. ASSUME NEW caps \in Capabilities, policy_set_src_cap(caps) PROVE StackTypes'
  BY <1>6 DEF policy_set_src_cap, Idle, StackTypes
<1>7. ASSUME SelectCapability PROVE StackTypes'
  <2>1. pe' = "request" /\ UNCHANGED <<psrc, call, queue>>
    BY <1>7 DEF SelectCapability
  <2> QED
    BY <2>1 DEF StackTypes, DpmRequest
<1>8. ASSUME RequestAnswered PROVE StackTypes'
  BY <1>8 DEF RequestAnswered, Idle, StackTypes
<1>9. ASSUME RequestRejected PROVE StackTypes'
  BY <1>9 DEF RequestRejected, rejected, Idle, swap_answered_locked, answers_swap, StackTypes
<1>10. ASSUME SendCaps PROVE StackTypes'
  <2>1. pe' = "srccaps" /\ UNCHANGED <<psrc, call, queue>>
    BY <1>10 DEF SendCaps
  <2> QED
    BY <2>1 DEF StackTypes, DpmRequest
<1>11. ASSUME NEW rdo \in Requests, policy_check_sink_request(rdo) PROVE StackTypes'
  BY <1>11 DEF policy_check_sink_request, Idle, StackTypes
<1>12. ASSUME NEW is_source \in BOOLEAN, Attach(is_source) PROVE StackTypes'
  BY <1>12 DEF Attach, role_set, Idle, close_window, StackTypes
<1>13. ASSUME TransitionPs PROVE StackTypes'
  BY <1>13 DEF TransitionPs, Idle, StackTypes
<1>14. ASSUME TakeRequest PROVE StackTypes'
  BY <1>14 DEF TakeRequest, policy_get_src_caps, policy_get_rdo, StackTypes
<1>15. ASSUME SwapRefused PROVE StackTypes'
  BY <1>15 DEF SwapRefused, close_window, keep_window, swap_answered_locked, rejected, Idle,
     answers_swap, StackTypes
<1>16. ASSUME PrSwapAccepted PROVE StackTypes'
  BY <1>16 DEF PrSwapAccepted, Idle, StackTypes
<1>17. ASSUME DataRole PROVE StackTypes'
  BY <1>17 DEF DataRole, Idle, StackTypes
<1>18. ASSUME pr_swap_check PROVE StackTypes'
  BY <1>18 DEF pr_swap_check, Idle, StackTypes
<1>19. ASSUME SwapVbusOff PROVE StackTypes'
  BY <1>19 DEF SwapVbusOff, vbus_lost, Idle, detach, StackTypes
<1>20. ASSUME SwapDone PROVE StackTypes'
  BY <1>20 DEF SwapDone, role_set, Idle, close_window, StackTypes
<1>21. ASSUME ProtocolError PROVE StackTypes'
  BY <1>21 DEF ProtocolError, swap_failed_locked, close_window, StackTypes
<1>22. ASSUME Leave PROVE StackTypes'
  BY <1>22 DEF Leave, vbus_lost, detach, StackTypes
<1>23. ASSUME HardReset PROVE StackTypes'
  <2>1. queue' \in Seq(DpmRequest) /\ Len(queue') <= QueueDepth
    <3>1. UNCHANGED queue \/ usbc_request("recovery")
      BY <1>23 DEF HardReset
    <3> QED
      BY <3>1, QueueFacts DEF DpmRequest, StackTypes
  <2>2. pe' = "restart" /\ UNCHANGED psrc /\ (UNCHANGED call \/ call' = "end")
    BY <1>23 DEF HardReset
  <2> QED
    BY <2>1, <2>2 DEF StackTypes
<1>24. ASSUME Recovered PROVE StackTypes'
  BY <1>24 DEF Recovered, role_set, Idle, close_window, StackTypes
<1>25. ASSUME NEW got \in BOOLEAN, ask_answered(got) PROVE StackTypes'
  BY <1>25 DEF ask_answered, Idle, StackTypes
<1>26. ASSUME KeepaliveRequest PROVE StackTypes'
  <2>1. queue' \in Seq(DpmRequest) /\ Len(queue') <= QueueDepth
    BY <1>26, QueueFacts, "request" \in DpmRequest DEF KeepaliveRequest, DpmRequest
  <2>2. UNCHANGED <<pe, psrc, call>>
    BY <1>26 DEF KeepaliveRequest
  <2> QED
    BY <2>1, <2>2 DEF StackTypes
<1>27. ASSUME tcpp_fault PROVE StackTypes'
  <2>1. queue' \in Seq(DpmRequest) /\ Len(queue') <= QueueDepth
    BY <1>27, QueueFacts, "recovery" \in DpmRequest DEF tcpp_fault, DpmRequest
  <2>2. UNCHANGED <<pe, psrc, call>>
    BY <1>27 DEF tcpp_fault
  <2> QED
    BY <2>1, <2>2 DEF StackTypes
<1>28. ASSUME dpm_request PROVE StackTypes'
  BY <1>28 DEF dpm_request, usbc_request, StackTypes
<1>29. ASSUME UNCHANGED stackVars PROVE StackTypes'
  BY <1>29 DEF stackVars, StackTypes
<1> QED
  BY <1>1, <1>2, <1>3, <1>4, <1>5, <1>6, <1>7, <1>8, <1>9, <1>10, <1>11, <1>12, <1>13, <1>14,
     <1>15, <1>16, <1>17, <1>18, <1>19, <1>20, <1>21, <1>22, <1>23, <1>24, <1>25, <1>26, <1>27,
     <1>28, <1>29, StackFrame

\* LineTypes is kept.
LEMMA LineStep ==
  ASSUME LineTypes, [Next]_vars
  PROVE  LineTypes'
<1> USE PdAssumption
<1>1. ASSUME NEW is_source \in BOOLEAN, Attach(is_source) PROVE LineTypes'
  BY <1>1 DEF Attach, role_set, Idle, close_window, LineTypes
<1>2. ASSUME tcpp_fault PROVE LineTypes'
  BY <1>2 DEF tcpp_fault, usbc_request, LineTypes
<1>3. ASSUME Unplug PROVE LineTypes'
  BY <1>3 DEF Unplug, LineTypes
<1>4. ASSUME UNCHANGED lineVars PROVE LineTypes'
  BY <1>4 DEF lineVars, LineTypes
<1>5. ASSUME cmd_drswap PROVE LineTypes'
  BY <1>5 DEF cmd_drswap, LineTypes
<1> QED
  BY <1>1, <1>2, <1>3, <1>4, <1>5, LineFrame

\* What becomes of a request the stack takes.
TakenAs(r) ==
    \/ pe' = pe
    \/ pe' = "reset" /\ ActsOn(r) /\ r = "hardreset"
    \/ pe' = "crossed"
    \/ pe' = "failed" /\ pe # "power" /\ ActsOn(r) /\ r = "recovery"
    \/ pe' = r /\ ActsOn(r) /\ r \notin {"getcaps", "hardreset", "recovery"}

LEMMA TakeFacts ==
  ASSUME TakeRequest
  PROVE  TakenAs(Head(queue)) /\ (pe' = "crossed" => pe \in {"power", "crossed"})
<1>1. TakenAs(Head(queue))
  BY DEF TakeRequest, ActsOn, TakenAs
<1>2. pe' = "crossed" => pe \in {"power", "crossed"}
  BY DEF TakeRequest, ActsOn, Asks
<1> QED
  BY <1>1, <1>2

\* The types hold of every behaviour.
LEMMA TypesHold == Spec => []Types
<1>1. Init => Types
  <2> SUFFICES ASSUME Init PROVE Types
    OBVIOUS
  <2> USE PdAssumption
  <2>1. RoleTypes
    BY DEF Init, RoleTypes
  <2>9. WorkTypes
    BY DEF Init, WorkTypes
  <2>10. LineTypes
    <3>1. present = FALSE /\ attaches = 0 /\ faults = 0 /\ alone = FALSE
      BY DEF Init
    <3>2. present \in BOOLEAN /\ alone \in BOOLEAN
      BY <3>1
    <3>3. attaches \in 0..MaxAttaches /\ faults \in 0..MaxFaults
      BY <3>1
    <3> QED
      BY <3>2, <3>3 DEF LineTypes
  <2>2. SwapTypes
    <3>1. /\ drs_pending = FALSE /\ prs_pending = FALSE /\ awaiting = "none"
          /\ swap_open = FALSE /\ partner_swap = FALSE /\ overtaken = FALSE
      BY DEF Init
    <3> QED
      BY <3>1 DEF SwapTypes
  <2>11. AskTypes
    <3>1. ask = "none" /\ ask_got = FALSE /\ ask_sem = 0 /\ ask_crossed = FALSE
      BY DEF Init
    <3>2. ask_got \in BOOLEAN /\ ask_crossed \in BOOLEAN
      BY <3>1
    <3>3. ask \in Asks \cup {"none"} /\ ask_sem \in 0..1
      BY <3>1
    <3> QED
      BY <3>2, <3>3 DEF AskTypes
  <2>3. NoRequest \in Agreement
    <3>1. rdo_fixed(1, 0) \in Rdo
      BY StepsFacts DEF rdo_fixed, Rdo
    <3> QED
      BY <3>1 DEF NoRequest, NoPdo, Agreement, Pdo
  <2>4. [kind |-> "max", pos |-> 0, mv |-> 0, ma |-> 0] \in Want
    BY DEF Want
  <2>5. SinkTypes
    <3>1. /\ src_caps = <<>> /\ want \in Want /\ sent \in Agreement /\ agreed \in Agreement
          /\ contract = FALSE /\ refresh = FALSE /\ rejects = 0
      BY <2>3, <2>4 DEF Init
    <3>2. contract \in BOOLEAN /\ refresh \in BOOLEAN
      BY <3>1
    <3>3. src_caps \in Capabilities \cup {<<>>} /\ rejects \in 0..MaxRejects
      BY <3>1
    <3> QED
      BY <3>1, <3>2, <3>3 DEF SinkTypes
  <2>6. SrcTypes
    BY <2>3 DEF Init, SrcTypes
  <2>7. HostTypes
    BY DEF Init, HostTypes
  <2>8. StackTypes
    <3>1. <<>> \in Seq(DpmRequest) /\ Len(<<>>) = 0
      OBVIOUS
    <3>2. pe = "off" /\ psrc = FALSE /\ call = "none" /\ queue = <<>>
      BY DEF Init
    <3>3. psrc \in BOOLEAN
      BY <3>2
    <3>4. queue \in Seq(DpmRequest) /\ Len(queue) <= QueueDepth
      BY <3>1, <3>2
    <3> QED
      BY <3>2, <3>3, <3>4 DEF StackTypes
  <2> QED
    BY <2>1, <2>2, <2>5, <2>6, <2>7, <2>8, <2>9, <2>10, <2>11 DEF Types
<1>2. Types /\ [Next]_vars => Types'
  BY RoleStep, SinkStep, WorkStep, SwapStep, AskStep, SrcStep, HostStep, StackStep, LineStep
     DEF Types
<1> QED
  BY <1>1, <1>2, PTL DEF Spec

\* Every variable of the PD bench keeps a value of its type: every Request it puts on the
\* wire and every one it accepts has a position, and its queue stays within its depth.
THEOREM TypeCorrect == Spec => []TypeOK
<1>1. Types => TypeOK
  BY DEF Types, RoleTypes, SinkTypes, WorkTypes, SwapTypes, AskTypes, SrcTypes, HostTypes,
         StackTypes, LineTypes, TypeOK
<1> QED
  BY <1>1, TypesHold, PTL

----------------------------------------------------------------------------
(* The role the bench believes it has, and the one the stack has.          *)

\* VBUS loss is looked into with the port off or in a PR_Swap; outside these the bench is
\* attached in the stack's role, and the states of one role are of that role.
RolesAgree ==
    /\ call \in {"look_source", "look_sink", "detach"} => pe \in {"off", "power"}
    /\ pe \notin {"off", "power", "crossed"} => attached /\ (source <=> psrc)
    /\ pe \in {"select", "request", "transition"} => ~psrc
    /\ pe \in {"supply", "srccaps", "refused"} => psrc

\* The steps that change a role, the Policy Engine or the callback.
LEMMA RolesFrame ==
  ASSUME [Next]_vars
  PROVE  \/ UNCHANGED <<attached, source, pe, psrc, call>>
         \/ partner_present \/ Detach \/ ContractEnd \/ AskGive \/ Reschedule
         \/ (\E caps \in Capabilities : policy_set_src_cap(caps)) \/ SelectCapability
         \/ RequestAnswered \/ RequestRejected \/ SendCaps
         \/ (\E rdo \in Requests : policy_check_sink_request(rdo))
         \/ (\E is_source \in BOOLEAN : Attach(is_source)) \/ TransitionPs \/ TakeRequest
         \/ SwapRefused \/ PrSwapAccepted \/ DataRole \/ pr_swap_check \/ SwapVbusOff \/ SwapDone
         \/ ProtocolError \/ Leave \/ HardReset \/ Recovered
         \/ (\E got \in BOOLEAN : ask_answered(got))
<1>1. CASE Callback
  BY <1>1 DEF Callback
<1>2. CASE Sink
  BY <1>2 DEF Sink
<1>3. CASE Source
  BY <1>3 DEF Source
<1>4. CASE Stack
  BY <1>4 DEF Stack
<1>5. CASE Work
  BY <1>5 DEF Work, keepalive_handler, roleVars, stackVars, KeepaliveRequest, tcpp_fault
<1>6. CASE Shell
  BY <1>6 DEF Shell, want_set, roleVars, stackVars, cmd_keepalive, KeepaliveOn, cmd_drswap,
     cmd_prswap, cmd_answers, cmd_srccaps, cmd_send, cmd_ask, AskReset, AskBegin,
     dpm_request, PrSwapUndo, AskWake,
     AskForget
<1>7. CASE Unplug
  BY <1>7 DEF Unplug, roleVars, stackVars
<1>8. CASE SwapWindowEnds
  BY <1>8 DEF SwapWindowEnds, roleVars, stackVars
<1>9. CASE UNCHANGED vars
  BY <1>9 DEF vars, roleVars, stackVars
<1> QED
  BY <1>1, <1>2, <1>3, <1>4, <1>5, <1>6, <1>7, <1>8, <1>9 DEF Next

\* A partner is attached in one role, and the stack and the bench agree on it.
LEMMA RolesStep ==
  ASSUME RolesAgree, RoleTypes, StackTypes, [Next]_vars
  PROVE  RolesAgree'
<1> USE PdAssumption
<1>1. ASSUME partner_present PROVE RolesAgree'
  BY <1>1 DEF partner_present, detach, roleVars, RolesAgree
<1>2. ASSUME Detach PROVE RolesAgree'
  BY <1>2 DEF Detach, detach, RolesAgree
<1>3. ASSUME ContractEnd PROVE RolesAgree'
  BY <1>3 DEF ContractEnd, roleVars, RolesAgree
<1>4. ASSUME AskGive PROVE RolesAgree'
  BY <1>4 DEF AskGive, roleVars, RolesAgree
<1>5. ASSUME Reschedule PROVE RolesAgree'
  BY <1>5 DEF Reschedule, roleVars, RolesAgree
<1>6. ASSUME NEW caps \in Capabilities, policy_set_src_cap(caps) PROVE RolesAgree'
  BY <1>6 DEF policy_set_src_cap, Idle, roleVars, RolesAgree
<1>7. ASSUME SelectCapability PROVE RolesAgree'
  BY <1>7 DEF SelectCapability, Idle, roleVars, RolesAgree
<1>8. ASSUME RequestAnswered PROVE RolesAgree'
  BY <1>8 DEF RequestAnswered, Idle, roleVars, RolesAgree
<1>9. ASSUME RequestRejected PROVE RolesAgree'
  BY <1>9 DEF RequestRejected, Idle, roleVars, RolesAgree
<1>10. ASSUME SendCaps PROVE RolesAgree'
  BY <1>10 DEF SendCaps, Idle, roleVars, RolesAgree
<1>11. ASSUME NEW rdo \in Requests, policy_check_sink_request(rdo) PROVE RolesAgree'
  BY <1>11 DEF policy_check_sink_request, Idle, roleVars, RolesAgree
<1>12. ASSUME NEW is_source \in BOOLEAN, Attach(is_source) PROVE RolesAgree'
  BY <1>12 DEF Attach, role_set, Idle, RolesAgree
<1>13. ASSUME TransitionPs PROVE RolesAgree'
  BY <1>13 DEF TransitionPs, Idle, roleVars, RolesAgree
<1>14. ASSUME TakeRequest PROVE RolesAgree'
  <2>1. UNCHANGED <<attached, source, psrc, call>> /\ call = "none"
    BY <1>14 DEF TakeRequest, roleVars
  <2> DEFINE r == Head(queue)
  <2>2. TakenAs(r)
    BY <1>14, TakeFacts
  <2> HIDE DEF r
  <2>3. CASE pe' = r /\ ActsOn(r) /\ r \notin {"getcaps", "hardreset", "recovery"}
    <3>1. pe \in {"ready", "refused"} /\ r \in {"drswap", "prswap", "request", "srccaps"} \cup Asks
      BY <2>3 DEF ActsOn
    <3>2. r = "request" => ~psrc
      BY <2>3 DEF ActsOn, Asks
    <3>3. r = "srccaps" => psrc
      BY <2>3 DEF ActsOn, Asks
    <3> QED
      BY <2>1, <2>3, <3>1, <3>2, <3>3 DEF RolesAgree, Asks
  <2>4. CASE pe' = pe
    BY <2>1, <2>4 DEF RolesAgree
  <2>5. CASE pe' = "reset" /\ ActsOn(r) /\ r = "hardreset"
    BY <2>1, <2>5 DEF RolesAgree, ActsOn, Asks
  <2>6. CASE pe' = "crossed"
    BY <2>1, <2>6 DEF RolesAgree
  <2>7. CASE pe' = "failed" /\ pe # "power" /\ ActsOn(r) /\ r = "recovery"
    BY <2>1, <2>7 DEF RolesAgree, ActsOn, Asks
  <2> QED
    BY <2>2, <2>3, <2>4, <2>5, <2>6, <2>7 DEF TakenAs
<1>15. ASSUME SwapRefused PROVE RolesAgree'
  BY <1>15 DEF SwapRefused, Idle, roleVars, RolesAgree
<1>16. ASSUME PrSwapAccepted PROVE RolesAgree'
  BY <1>16 DEF PrSwapAccepted, Idle, roleVars, RolesAgree
<1>17. ASSUME DataRole PROVE RolesAgree'
  BY <1>17 DEF DataRole, Idle, RolesAgree
<1>18. ASSUME pr_swap_check PROVE RolesAgree'
  BY <1>18 DEF pr_swap_check, Idle, roleVars, RolesAgree
<1>19. ASSUME SwapVbusOff PROVE RolesAgree'
  BY <1>19 DEF SwapVbusOff, vbus_lost, Idle, detach, roleVars, RolesAgree
<1>20. ASSUME SwapDone PROVE RolesAgree'
  BY <1>20 DEF SwapDone, role_set, Idle, RolesAgree
<1>21. ASSUME ProtocolError PROVE RolesAgree'
  BY <1>21 DEF ProtocolError, roleVars, RolesAgree
<1>22. ASSUME Leave PROVE RolesAgree'
  BY <1>22 DEF Leave, vbus_lost, detach, roleVars, RolesAgree
<1>23. ASSUME HardReset PROVE RolesAgree'
  BY <1>23 DEF HardReset, roleVars, RolesAgree
<1>24. ASSUME Recovered PROVE RolesAgree'
  BY <1>24 DEF Recovered, role_set, Idle, RolesAgree
<1>25. ASSUME NEW got \in BOOLEAN, ask_answered(got) PROVE RolesAgree'
  <2>1. pe \in Asks /\ call = "none" /\ pe' = "ready" /\ call' \in {"none", "give"}
    BY <1>25 DEF ask_answered, Idle
  <2>2. UNCHANGED <<attached, source, psrc>>
    BY <1>25 DEF ask_answered, roleVars
  <2> QED
    BY <2>1, <2>2 DEF RolesAgree, Asks
<1>26. ASSUME UNCHANGED <<attached, source, pe, psrc, call>> PROVE RolesAgree'
  BY <1>26 DEF RolesAgree
<1> QED
  BY <1>1, <1>2, <1>3, <1>4, <1>5, <1>6, <1>7, <1>8, <1>9, <1>10, <1>11, <1>12, <1>13, <1>14,
     <1>15, <1>16, <1>17, <1>18, <1>19, <1>20, <1>21, <1>22, <1>23, <1>24, <1>25, <1>26,
     RolesFrame

LEMMA RolesHold == Spec => []RolesAgree
<1>1. Init => RolesAgree
  BY DEF Init, RolesAgree
<1>2. Types /\ RolesAgree /\ [Next]_vars => RolesAgree'
  BY RolesStep DEF Types
<1> QED
  BY <1>1, <1>2, TypesHold, PTL DEF Spec

----------------------------------------------------------------------------
(* The keep-alive of a PPS contract.                                       *)

\* The steps that change the contract, its keep-alive or who is about to arm it.
LEMMA KeepaliveFrame ==
  ASSUME [Next]_vars
  PROVE  \/ UNCHANGED <<workVars, contract, agreed, call, shell>>
         \/ partner_present \/ Detach \/ ContractEnd \/ AskGive \/ Reschedule
         \/ (\E is_source \in BOOLEAN : Attach(is_source)) \/ TransitionPs \/ TakeRequest
         \/ SwapVbusOff \/ SwapDone \/ Leave \/ HardReset \/ Recovered
         \/ (\E got \in BOOLEAN : ask_answered(got)) \/ keepalive_handler \/ KeepaliveRequest
         \/ want_set \/ cmd_keepalive \/ KeepaliveOn \/ cmd_drswap \/ cmd_prswap \/ cmd_answers
         \/ cmd_srccaps \/ cmd_send \/ cmd_ask \/ AskReset \/ AskBegin \/ dpm_request
         \/ PrSwapUndo \/ AskWake \/ AskForget
<1>1. CASE Callback
  BY <1>1 DEF Callback, workVars
<1>2. CASE Sink
  BY <1>2 DEF Sink, policy_set_src_cap, workVars, hostVars, SelectCapability, policy_get_rdo,
     RequestAnswered, sinkVars, RequestRejected
<1>3. CASE Source
  BY <1>3 DEF Source, SendCaps, policy_get_src_caps, sinkVars, workVars, hostVars,
     policy_check_sink_request
<1>4. CASE Stack
  BY <1>4 DEF Stack, SwapRefused, workVars, hostVars, PrSwapAccepted, sinkVars, DataRole,
     pr_swap_check, ProtocolError
<1>5. CASE Work
  BY <1>5 DEF Work, tcpp_fault, sinkVars, workVars, hostVars
<1>6. CASE Shell
  BY <1>6 DEF Shell, workVars
<1>7. CASE Unplug
  BY <1>7 DEF Unplug, sinkVars, workVars, hostVars, stackVars
<1>8. CASE SwapWindowEnds
  BY <1>8 DEF SwapWindowEnds, sinkVars, workVars, hostVars, stackVars
<1>9. CASE UNCHANGED vars
  BY <1>9 DEF vars, sinkVars, workVars, hostVars, stackVars
<1> QED
  BY <1>1, <1>2, <1>3, <1>4, <1>5, <1>6, <1>7, <1>8, <1>9 DEF Next

\* Whoever takes the timer, the handler or the switch of the keep-alive hands it on.
LEMMA KeepaliveStep ==
  ASSUME KeepaliveArmed, Types, [Next]_vars
  PROVE  KeepaliveArmed'
<1> USE PdAssumption
<1>1. ASSUME partner_present PROVE KeepaliveArmed'
  BY <1>1 DEF partner_present, detach, close_window, sinkVars, workVars, hostVars, KeepaliveArmed
<1>2. ASSUME Detach PROVE KeepaliveArmed'
  BY <1>2 DEF Detach, detach, close_window, workVars, hostVars, KeepaliveArmed
<1>3. ASSUME ContractEnd PROVE KeepaliveArmed'
  BY <1>3 DEF ContractEnd, contract_end, hostVars, KeepaliveArmed
<1>4. ASSUME AskGive PROVE KeepaliveArmed'
  BY <1>4 DEF AskGive, sinkVars, workVars, hostVars, KeepaliveArmed
<1>5. ASSUME Reschedule PROVE KeepaliveArmed'
  BY <1>5 DEF Reschedule, sinkVars, hostVars, KeepaliveArmed
<1>6. ASSUME NEW is_source \in BOOLEAN, Attach(is_source) PROVE KeepaliveArmed'
  BY <1>6 DEF Attach, role_set, Idle, close_window, workVars, hostVars, KeepaliveArmed
<1>7. ASSUME TransitionPs PROVE KeepaliveArmed'
  BY <1>7 DEF TransitionPs, Idle, sinkVars, workVars, hostVars, KeepaliveArmed
<1>8. ASSUME TakeRequest PROVE KeepaliveArmed'
  BY <1>8 DEF TakeRequest, policy_get_src_caps, policy_get_rdo, sinkVars, workVars, hostVars,
     KeepaliveArmed
<1>9. ASSUME SwapVbusOff PROVE KeepaliveArmed'
  BY <1>9 DEF SwapVbusOff, vbus_lost, Idle, detach, sinkVars, workVars, hostVars, KeepaliveArmed
<1>10. ASSUME SwapDone PROVE KeepaliveArmed'
  BY <1>10 DEF SwapDone, role_set, Idle, close_window, workVars, hostVars, KeepaliveArmed
<1>11. ASSUME Leave PROVE KeepaliveArmed'
  BY <1>11 DEF Leave, vbus_lost, detach, sinkVars, workVars, hostVars, KeepaliveArmed
<1>12. ASSUME HardReset PROVE KeepaliveArmed'
  BY <1>12 DEF HardReset, swap_failed_locked, close_window, sinkVars, workVars, hostVars,
     KeepaliveArmed
<1>13. ASSUME Recovered PROVE KeepaliveArmed'
  BY <1>13 DEF Recovered, role_set, Idle, close_window, workVars, hostVars, KeepaliveArmed
<1>14. ASSUME NEW got \in BOOLEAN, ask_answered(got) PROVE KeepaliveArmed'
  BY <1>14 DEF ask_answered, Idle, sinkVars, workVars, hostVars, KeepaliveArmed
<1>15. ASSUME keepalive_handler PROVE KeepaliveArmed'
  BY <1>15 DEF keepalive_handler, hostVars, stackVars, KeepaliveArmed
<1>16. ASSUME KeepaliveRequest PROVE KeepaliveArmed'
  BY <1>16 DEF KeepaliveRequest, sinkVars, hostVars, KeepaliveArmed
<1>17. ASSUME want_set PROVE KeepaliveArmed'
  BY <1>17 DEF want_set, Typed, Done, Then, Arg, workVars, stackVars, KeepaliveArmed
<1>18. ASSUME cmd_keepalive PROVE KeepaliveArmed'
  BY <1>18 DEF cmd_keepalive, Typed, Done, Then, Arg, sinkVars, stackVars, KeepaliveArmed
<1>19. ASSUME KeepaliveOn PROVE KeepaliveArmed'
  BY <1>19 DEF KeepaliveOn, sinkVars, stackVars, KeepaliveArmed
<1>20. ASSUME cmd_drswap PROVE KeepaliveArmed'
  BY <1>20 DEF cmd_drswap, Typed, Then, Done, Arg, sinkVars, workVars, stackVars, KeepaliveArmed
<1>21. ASSUME cmd_prswap PROVE KeepaliveArmed'
  BY <1>21 DEF cmd_prswap, Typed, Done, Then, Arg, sinkVars, workVars, stackVars, KeepaliveArmed
<1>22. ASSUME cmd_answers PROVE KeepaliveArmed'
  BY <1>22 DEF cmd_answers, Typed, Done, Arg, Then, sinkVars, workVars, stackVars, KeepaliveArmed
<1>23. ASSUME cmd_srccaps PROVE KeepaliveArmed'
  BY <1>23 DEF cmd_srccaps, Typed, Done, Then, Arg, sinkVars, workVars, stackVars, KeepaliveArmed
<1>24. ASSUME cmd_send PROVE KeepaliveArmed'
  BY <1>24 DEF cmd_send, Typed, Then, Done, Arg, sinkVars, workVars, stackVars, KeepaliveArmed
<1>25. ASSUME cmd_ask PROVE KeepaliveArmed'
  BY <1>25 DEF cmd_ask, Typed, Done, Then, Arg, sinkVars, workVars, stackVars, KeepaliveArmed
<1>31. ASSUME AskReset PROVE KeepaliveArmed'
  BY <1>31 DEF AskReset, sinkVars, workVars, stackVars, KeepaliveArmed
<1>32. ASSUME AskBegin PROVE KeepaliveArmed'
  BY <1>32 DEF AskBegin, Then, Arg, sinkVars, workVars, stackVars, KeepaliveArmed
<1>26. ASSUME dpm_request PROVE KeepaliveArmed'
  <2>1. shell # "rearm"
    BY <1>26 DEF dpm_request, DpmRequest, Asks
  <2>2. UNCHANGED <<contract, agreed, keepalive_off, armed, work, call>>
    BY <1>26 DEF dpm_request, sinkVars, workVars
  <2> QED
    BY <2>1, <2>2 DEF KeepaliveArmed
<1>27. ASSUME PrSwapUndo PROVE KeepaliveArmed'
  BY <1>27 DEF PrSwapUndo, sinkVars, workVars, stackVars, KeepaliveArmed
<1>28. ASSUME AskWake PROVE KeepaliveArmed'
  BY <1>28 DEF AskWake, sinkVars, workVars, stackVars, KeepaliveArmed
<1>29. ASSUME AskForget PROVE KeepaliveArmed'
  BY <1>29 DEF AskForget, sinkVars, workVars, stackVars, KeepaliveArmed
<1>30. ASSUME UNCHANGED <<workVars, contract, agreed, call, shell>> PROVE KeepaliveArmed'
  BY <1>30 DEF workVars, KeepaliveArmed
<1> QED
  BY <1>1, <1>2, <1>3, <1>4, <1>5, <1>6, <1>7, <1>8, <1>9, <1>10, <1>11, <1>12, <1>13, <1>14,
     <1>15, <1>16, <1>17, <1>18, <1>19, <1>20, <1>21, <1>22, <1>23, <1>24, <1>25, <1>26, <1>27,
     <1>28, <1>29, <1>30, <1>31, <1>32, KeepaliveFrame

\* A PPS contract in force is never left without its keep-alive: not by a full queue, a lost
\* race of the timer with a new contract, or the host that turns it off and on.
THEOREM AlwaysArmed == Spec => []KeepaliveArmed
<1>1. Init => KeepaliveArmed
  BY DEF Init, KeepaliveArmed
<1>2. Types /\ KeepaliveArmed /\ [Next]_vars => KeepaliveArmed'
  BY KeepaliveStep
<1> QED
  BY <1>1, <1>2, TypesHold, PTL DEF Spec

----------------------------------------------------------------------------
(* A partner that is gone.                                                 *)

\* The steps that change what the bench remembers of a partner.
LEMMA PartnerFrame ==
  ASSUME [Next]_vars
  PROVE  \/ UNCHANGED <<attached, drs_pending, alone, prs_pending, swap_open, partner_swap,
                        src_caps, src_contract, contract, refresh, call>>
         \/ partner_present \/ Detach \/ ContractEnd \/ AskGive \/ Reschedule
         \/ (\E caps \in Capabilities : policy_set_src_cap(caps)) \/ SelectCapability
         \/ RequestRejected \/ (\E is_source \in BOOLEAN : Attach(is_source)) \/ TransitionPs
         \/ TakeRequest \/ SwapRefused \/ DataRole \/ pr_swap_check \/ SwapVbusOff \/ SwapDone
         \/ ProtocolError \/ Leave \/ HardReset \/ Recovered
         \/ (\E got \in BOOLEAN : ask_answered(got)) \/ keepalive_handler \/ cmd_drswap
         \/ cmd_prswap \/ PrSwapUndo \/ SwapWindowEnds
<1>1. CASE Callback
  BY <1>1 DEF Callback
<1>2. CASE Sink
  BY <1>2 DEF Sink, RequestAnswered, roleVars, sinkVars, swapVars, srcVars, lineVars
<1>3. CASE Source
  BY <1>3 DEF Source, SendCaps, policy_get_src_caps, roleVars, sinkVars, swapVars,
     policy_check_sink_request, lineVars
<1>4. CASE Stack
  BY <1>4 DEF Stack, PrSwapAccepted, roleVars, sinkVars, swapVars, srcVars, lineVars
<1>5. CASE Work
  BY <1>5 DEF Work, KeepaliveRequest, roleVars, sinkVars, swapVars, srcVars, tcpp_fault,
     lineVars
<1>6. CASE Shell
  BY <1>6 DEF Shell, want_set, roleVars, swapVars, srcVars, stackVars, cmd_keepalive, sinkVars,
     KeepaliveOn, cmd_answers, cmd_srccaps, cmd_send, cmd_ask, AskReset, AskBegin,
     dpm_request, AskWake, AskForget, lineVars
<1>7. CASE Unplug
  BY <1>7 DEF Unplug, roleVars, sinkVars, swapVars, srcVars, stackVars
<1>8. CASE SwapWindowEnds
  BY <1>8
<1>9. CASE UNCHANGED vars
  BY <1>9 DEF vars, roleVars, sinkVars, swapVars, srcVars, stackVars, lineVars
<1> QED
  BY <1>1, <1>2, <1>3, <1>4, <1>5, <1>6, <1>7, <1>8, <1>9 DEF Next

\* What a detached bench has forgotten stays forgotten: whatever brings it back needs a partner.
LEMMA PartnerStep ==
  ASSUME PartnerForgotten, RolesAgree, Types, [Next]_vars
  PROVE  PartnerForgotten'
<1> USE PdAssumption
<1>1. ASSUME partner_present PROVE PartnerForgotten'
  BY <1>1 DEF partner_present, detach, close_window, roleVars, sinkVars, swapVars, srcVars,
     PartnerForgotten, RolesAgree, lineVars
<1>2. ASSUME Detach PROVE PartnerForgotten'
  BY <1>2 DEF Detach, detach, close_window, PartnerForgotten, RolesAgree, lineVars
<1>3. ASSUME ContractEnd PROVE PartnerForgotten'
  BY <1>3 DEF ContractEnd, contract_end, roleVars, swapVars, srcVars, PartnerForgotten,
     RolesAgree, lineVars
<1>4. ASSUME AskGive PROVE PartnerForgotten'
  BY <1>4 DEF AskGive, roleVars, sinkVars, swapVars, srcVars, PartnerForgotten,
     RolesAgree, lineVars
<1>5. ASSUME Reschedule PROVE PartnerForgotten'
  BY <1>5 DEF Reschedule, roleVars, sinkVars, swapVars, srcVars, PartnerForgotten,
     RolesAgree, lineVars
<1>6. ASSUME NEW caps \in Capabilities, policy_set_src_cap(caps) PROVE PartnerForgotten'
  BY <1>6 DEF policy_set_src_cap, Idle, roleVars, swapVars, srcVars, PartnerForgotten,
     RolesAgree, lineVars
<1>7. ASSUME SelectCapability PROVE PartnerForgotten'
  BY <1>7 DEF SelectCapability, policy_get_rdo, Idle, roleVars, swapVars, srcVars,
     PartnerForgotten, RolesAgree, lineVars
<1>8. ASSUME RequestRejected PROVE PartnerForgotten'
  BY <1>8 DEF RequestRejected, rejected, Idle, swap_answered_locked, answers_swap, roleVars,
     srcVars, PartnerForgotten, RolesAgree, lineVars
<1>9. ASSUME NEW is_source \in BOOLEAN, Attach(is_source) PROVE PartnerForgotten'
  BY <1>9 DEF Attach, role_set, Idle, close_window, PartnerForgotten, RolesAgree, lineVars
<1>10. ASSUME TransitionPs PROVE PartnerForgotten'
  BY <1>10 DEF TransitionPs, Idle, roleVars, sinkVars, swapVars, PartnerForgotten,
     RolesAgree, lineVars
<1>11. ASSUME TakeRequest PROVE PartnerForgotten'
  <2>1. /\ UNCHANGED <<attached, src_caps, contract, swapVars, src_contract, lineVars>>
        /\ call = "none"
    BY <1>11 DEF TakeRequest, policy_get_rdo, policy_get_src_caps, roleVars, sinkVars, srcVars
  <2>2. UNCHANGED call
    BY <1>11 DEF TakeRequest
  <2>3. refresh' = refresh \/ refresh' = FALSE
    BY <1>11 DEF TakeRequest, policy_get_rdo, sinkVars
  <2> QED
    BY <2>1, <2>2, <2>3 DEF swapVars, lineVars, PartnerForgotten
<1>12. ASSUME SwapRefused PROVE PartnerForgotten'
  BY <1>12 DEF SwapRefused, close_window, keep_window, swap_answered_locked, rejected, Idle,
     answers_swap, roleVars, srcVars, PartnerForgotten, RolesAgree, lineVars
<1>13. ASSUME pr_swap_check PROVE PartnerForgotten'
  BY <1>13 DEF pr_swap_check, Idle, roleVars, sinkVars, srcVars, PartnerForgotten,
     RolesAgree, lineVars
<1>14. ASSUME SwapVbusOff PROVE PartnerForgotten'
  BY <1>14 DEF SwapVbusOff, vbus_lost, Idle, detach, roleVars, sinkVars, swapVars, srcVars,
     PartnerForgotten, RolesAgree, lineVars
<1>15. ASSUME SwapDone PROVE PartnerForgotten'
  BY <1>15 DEF SwapDone, role_set, Idle, close_window, PartnerForgotten, RolesAgree, lineVars
<1>16. ASSUME ProtocolError PROVE PartnerForgotten'
  BY <1>16 DEF ProtocolError, swap_failed_locked, close_window, roleVars, sinkVars, srcVars,
     PartnerForgotten, RolesAgree, lineVars
<1>17. ASSUME Leave PROVE PartnerForgotten'
  BY <1>17 DEF Leave, vbus_lost, detach, roleVars, sinkVars, swapVars, srcVars, PartnerForgotten,
     RolesAgree, lineVars
<1>18. ASSUME HardReset PROVE PartnerForgotten'
  BY <1>18 DEF HardReset, swap_failed_locked, close_window, roleVars, sinkVars, srcVars,
     PartnerForgotten, RolesAgree, lineVars
<1>19. ASSUME Recovered PROVE PartnerForgotten'
  BY <1>19 DEF Recovered, role_set, Idle, close_window, PartnerForgotten, RolesAgree, lineVars
<1>20. ASSUME NEW got \in BOOLEAN, ask_answered(got) PROVE PartnerForgotten'
  BY <1>20 DEF ask_answered, Idle, roleVars, sinkVars, swapVars, srcVars, PartnerForgotten,
     RolesAgree, lineVars
<1>21. ASSUME keepalive_handler PROVE PartnerForgotten'
  BY <1>21 DEF keepalive_handler, roleVars, swapVars, srcVars, stackVars, PartnerForgotten,
     RolesAgree, lineVars
<1>22. ASSUME cmd_prswap PROVE PartnerForgotten'
  BY <1>22 DEF cmd_prswap, Typed, Done, Then, Arg, roleVars, sinkVars, srcVars, stackVars,
     PartnerForgotten, RolesAgree, lineVars
<1>23. ASSUME PrSwapUndo PROVE PartnerForgotten'
  BY <1>23 DEF PrSwapUndo, roleVars, sinkVars, srcVars, stackVars, PartnerForgotten,
     RolesAgree, lineVars
<1>24. ASSUME SwapWindowEnds PROVE PartnerForgotten'
  BY <1>24 DEF SwapWindowEnds, roleVars, sinkVars, srcVars, stackVars, PartnerForgotten,
     RolesAgree, lineVars
<1>26. ASSUME DataRole PROVE PartnerForgotten'
  BY <1>26 DEF DataRole, sinkVars, srcVars, lineVars, PartnerForgotten
<1>27. ASSUME cmd_drswap PROVE PartnerForgotten'
  BY <1>27 DEF cmd_drswap, roleVars, sinkVars, srcVars, stackVars, PartnerForgotten
<1>25. ASSUME UNCHANGED <<attached, drs_pending, alone, prs_pending, swap_open, partner_swap,
                         src_caps, src_contract, contract, refresh, call>>
       PROVE  PartnerForgotten'
  BY <1>25 DEF PartnerForgotten, RolesAgree, lineVars
<1> QED
  BY <1>1, <1>2, <1>3, <1>4, <1>5, <1>6, <1>7, <1>8, <1>9, <1>10, <1>11, <1>12, <1>13, <1>14,
     <1>15, <1>16, <1>17, <1>18, <1>19, <1>20, <1>21, <1>22, <1>23, <1>24, <1>25, <1>26,
     <1>27, PartnerFrame

\* Of a partner that is gone nothing is left, whichever callback or command was under way
\* when it went.
THEOREM NothingRemembered == Spec => []PartnerForgotten
<1>1. Init => PartnerForgotten
  BY DEF Init, PartnerForgotten
<1>2. Types /\ RolesAgree /\ PartnerForgotten /\ [Next]_vars => PartnerForgotten'
  BY PartnerStep
<1> QED
  BY <1>1, <1>2, TypesHold, RolesHold, PTL DEF Spec

----------------------------------------------------------------------------
(* pd ask and its answers.                                                 *)

\* Between its section that resets the semaphore and its wait, what is given or about to be
\* given to a command is its own answer, or it was crossed; without a command nobody is asked.
AsksAgree ==
    /\ shell \notin Asks \cup {"wait", "answered", "forget"} => ask = "none"
    /\ shell = "asking" => (ask_sem = 1 \/ call = "give" => ask_crossed)
    /\ shell \in Asks \cup {"wait"} => (ask_sem = 1 \/ call = "give" => ask = "none" \/ ask_crossed)
    /\ AnswerIsTheAsked

\* Only an answer has the semaphore given.
LEMMA GiveFrame ==
  ASSUME [Next]_vars, call # "give"
  PROVE  call' # "give" \/ \E got \in BOOLEAN : ask_answered(got)
<1>1. CASE Callback
  BY <1>1 DEF Callback, partner_present, Detach, ContractEnd, AskGive, Reschedule
<1>2. CASE Sink
  BY <1>2 DEF Sink, policy_set_src_cap, SelectCapability, RequestAnswered, RequestRejected
<1>3. CASE Source
  BY <1>3 DEF Source, SendCaps, policy_check_sink_request
<1>4. CASE Stack
  BY <1>4 DEF Stack, Attach, role_set, TransitionPs, TakeRequest, SwapRefused, PrSwapAccepted,
     DataRole, pr_swap_check, SwapVbusOff, vbus_lost, SwapDone, ProtocolError, Leave, HardReset,
     Recovered
<1>5. CASE Work
  BY <1>5 DEF Work, keepalive_handler, KeepaliveRequest, tcpp_fault, stackVars
<1>6. CASE Shell
  BY <1>6 DEF Shell, want_set, cmd_keepalive, KeepaliveOn, cmd_drswap, cmd_prswap, cmd_answers,
     cmd_srccaps, cmd_send, cmd_ask, AskReset, AskBegin, dpm_request, PrSwapUndo, AskWake,
     AskForget, stackVars
<1>7. CASE Unplug
  BY <1>7 DEF Unplug, stackVars
<1>8. CASE SwapWindowEnds
  BY <1>8 DEF SwapWindowEnds, stackVars
<1>9. CASE UNCHANGED vars
  BY <1>9 DEF vars, stackVars
<1> QED
  BY <1>1, <1>2, <1>3, <1>4, <1>5, <1>6, <1>7, <1>8, <1>9 DEF Next

\* A command that asks nothing finds and leaves nobody asked.
OtherCommand ==
    \/ want_set \/ cmd_keepalive \/ KeepaliveOn \/ cmd_drswap \/ cmd_prswap \/ cmd_answers
    \/ cmd_srccaps \/ cmd_send \/ cmd_ask \/ PrSwapUndo

LEMMA OtherFacts ==
  ASSUME OtherCommand
  PROVE  /\ shell \in {"idle", "rearm", "undo"}
         /\ shell' \notin Asks \cup {"wait", "answered", "forget", "asking"}
         /\ UNCHANGED askVars
<1>1. /\ shell \in {"idle", "rearm", "undo"}
      /\ shell' \in {"idle", "request", "rearm", "drswap", "prswap", "srccaps", "getcaps",
                    "hardreset", "reset"}
  BY DEF OtherCommand, want_set, cmd_keepalive, KeepaliveOn, cmd_drswap, cmd_prswap, cmd_answers,
     cmd_srccaps, cmd_send, cmd_ask, PrSwapUndo, Typed, Done, Then
<1>2. UNCHANGED askVars
  BY DEF OtherCommand, want_set, cmd_keepalive, KeepaliveOn, cmd_drswap, cmd_prswap, cmd_answers,
     cmd_srccaps, cmd_send, cmd_ask, PrSwapUndo
<1> QED
  BY <1>1, <1>2 DEF Asks

\* An answer is given to the command that asked, or crossed with its reset of the semaphore.
LEMMA AsksStep ==
  ASSUME AsksAgree, Types, [Next]_vars
  PROVE  AsksAgree'
<1> USE DEF AnswerIsTheAsked
<1>1. CASE UNCHANGED hostVars
  <2>1. UNCHANGED shell
    BY <1>1 DEF hostVars
  <2>2. ASSUME AskGive PROVE AsksAgree'
    BY <2>1, <2>2 DEF AskGive, AsksAgree
  <2>3. ASSUME NEW got \in BOOLEAN, ask_answered(got) PROVE AsksAgree'
    BY <2>1, <2>3 DEF ask_answered, Idle, askVars, AsksAgree, Asks
  <2>4. CASE UNCHANGED askVars /\ ~\E got \in BOOLEAN : ask_answered(got)
    <3>1. call' = "give" => call = "give"
      BY <2>4, GiveFrame
    <3> QED
      BY <2>1, <2>4, <3>1 DEF askVars, AsksAgree
  <2>5. ~(AskReset \/ AskBegin \/ AskWake \/ AskForget)
    <3>1. ~(AskReset \/ AskWake \/ AskForget)
      BY <2>1 DEF AskReset, AskWake, AskForget
    <3>2. ASSUME AskBegin PROVE FALSE
      <4>1. Arg.name = "ask" /\ Arg \in Command /\ shell' = Arg.kind /\ shell = "asking"
        BY <3>2, TypedFacts DEF AskBegin, Then, Arg, Types, HostTypes
      <4> QED
        BY <2>1, <4>1, CommandFacts DEF Asks
    <3> QED
      BY <3>1, <3>2
  <2> QED
    BY <2>2, <2>3, <2>4, <2>5, AskFrame
<1>2. CASE OtherCommand
  <2>1. shell \notin Asks \cup {"wait", "answered", "forget"}
    BY <1>2, OtherFacts DEF Asks
  <2> QED
    BY <1>2, <2>1, OtherFacts DEF askVars, AsksAgree
<1>3. CASE AskReset
  <2>1. shell = "reset" /\ shell' = "asking" /\ ask_sem' = 0 /\ UNCHANGED <<ask, call>>
    BY <1>3 DEF AskReset, stackVars
  <2>2. call' = "give" => ask_crossed'
    BY <1>3, <2>1 DEF AskReset
  <2> QED
    BY <2>1, <2>2 DEF Asks, AsksAgree
<1>4. CASE AskBegin
  <2>1. Arg.name = "ask" /\ Arg \in Command
    BY <1>4, TypedFacts DEF AskBegin, Arg, Types, HostTypes
  <2>2. shell = "asking" /\ shell' \in Asks /\ UNCHANGED <<ask_sem, ask_crossed, call>>
    BY <1>4, <2>1, CommandFacts DEF AskBegin, Then, stackVars
  <2> QED
    BY <2>2 DEF Asks, AsksAgree
<1>5. CASE dpm_request
  <2>1. UNCHANGED <<ask, ask_sem, ask_crossed, call>> /\ shell \in DpmRequest
    BY <1>5 DEF dpm_request, askVars
  <2>2. shell \notin Asks => shell' \in {"undo", "idle"}
    BY <1>5 DEF dpm_request
  <2>3. shell \in Asks => shell' \in {"wait", "forget"}
    BY <1>5 DEF dpm_request
  <2>4. shell \notin {"wait", "answered", "forget", "asking"}
    BY <2>1 DEF DpmRequest, Asks
  <2> QED
    BY <2>1, <2>2, <2>3, <2>4 DEF AsksAgree, Asks
<1>6. CASE AskWake
  BY <1>6 DEF AskWake, stackVars, Asks, AsksAgree
<1>7. CASE AskForget
  BY <1>7 DEF AskForget, stackVars, Asks, AsksAgree
<1> QED
  BY <1>1, <1>2, <1>3, <1>4, <1>5, <1>6, <1>7, HostFrame DEF OtherCommand

\* What `pd ask' takes for its answer was given after its question, however late an earlier
\* command's came, but for the one answer that was under way as it reset the semaphore.
THEOREM AnswersAreTheAsked == Spec => []AnswerIsTheAsked
<1>1. Init => AsksAgree
  BY DEF Init, AsksAgree, AnswerIsTheAsked, Asks
<1>2. Types /\ AsksAgree /\ [Next]_vars => AsksAgree'
  BY AsksStep
<1>3. AsksAgree => AnswerIsTheAsked
  BY DEF AsksAgree
<1> QED
  BY <1>1, <1>2, <1>3, TypesHold, PTL DEF Spec

----------------------------------------------------------------------------
(* Source_Capabilities and the Request for them.                           *)

\* The contract in force as a sink is one its PDO offered.
AgreedFits == contract => Offered(agreed)

\* With a source that has sent its capabilities the bench holds them, and a Request on the
\* wire is one they offer.
RequestsFit ==
    /\ ~psrc /\ pe \in {"select", "request", "transition", "ready", "drswap", "prswap"} \cup Asks
          => src_caps # <<>>
    /\ RequestNamesHeldPdo

\* A valid choice stays within the PDO it names.
LEMMA ChosenFits ==
  ASSUME SinkTypes, src_caps # <<>>, NEW rdo \in rdo_for_locked(want, src_caps)
  PROVE  /\ rdo.pos \in DOMAIN src_caps /\ rdo.ma <= src_caps[rdo.pos].ma
         /\ src_caps[rdo.pos].kind = "pps"
              => rdo.mv \in src_caps[rdo.pos].min..src_caps[rdo.pos].max
<1>1. /\ \A i \in DOMAIN src_caps : src_caps[i] \in Pdo
      /\ 1 \in DOMAIN src_caps /\ src_caps[1].kind = "fixed"
  BY CapsFacts DEF SinkTypes
<1>2. \A i \in DOMAIN src_caps : src_caps[i].ma \in Nat /\ src_caps[i].kind \in {"fixed", "pps"}
  BY <1>1 DEF Pdo
<1>3. CABLE_MA \in Nat /\ want.ma \in Nat
  BY PdAssumption DEF SinkTypes, Want
<1>4. \A x \in Nat : Lesser(x, CABLE_MA) <= x
  BY <1>3 DEF Lesser
<1>9. \A i \in DOMAIN src_caps : src_caps[i].kind = "pps" =>
        src_caps[i].min \in Nat /\ src_caps[i].max \in Nat /\ src_caps[i].min % 100 = 0
  BY <1>1, PdAssumption DEF SinkTypes, Pdo, WellFormed
<1>5. \A i \in DOMAIN src_caps, ma \in Nat : src_caps[i].kind = "fixed" /\ ma <= src_caps[i].ma =>
        LET r == rdo_fixed(i, ma) IN
        /\ r.pos \in DOMAIN src_caps /\ r.ma <= src_caps[r.pos].ma
        /\ src_caps[r.pos].kind # "pps"
  <2>1. \A ma \in Nat : Steps(ma, 10) \in Nat /\ Steps(ma, 10) <= ma
    BY StepsFacts
  <2>2. \A i, ma : rdo_fixed(i, ma).pos = i /\ rdo_fixed(i, ma).ma = Steps(ma, 10)
    BY DEF rdo_fixed
  <2>3. ASSUME NEW i \in DOMAIN src_caps, NEW ma \in Nat, src_caps[i].kind = "fixed",
               ma <= src_caps[i].ma
        PROVE  Steps(ma, 10) <= src_caps[i].ma
    BY <1>2, <2>1, <2>3
  <2> QED
    BY <2>2, <2>3
<1>6. \A x \in Nat : Lesser(x, CABLE_MA) \in Nat
  BY <1>3 DEF Lesser
<1>7. CASE rdo \in rdo_max_locked(src_caps)
  <2>1. fixed_positions(src_caps) # {}
    BY <1>1 DEF fixed_positions
  <2>2. PICK i \in fixed_positions(src_caps) : rdo = rdo_fixed(i, Lesser(src_caps[i].ma, CABLE_MA))
    BY <1>7, <2>1, Zenon DEF rdo_max_locked
  <2>3. i \in DOMAIN src_caps /\ src_caps[i].kind = "fixed"
    BY <2>2 DEF fixed_positions
  <2> QED
    BY <1>2, <1>4, <1>5, <1>6, <2>2, <2>3
<1>8. CASE rdo \notin rdo_max_locked(src_caps)
  <2> DEFINE pdo == src_caps[want.pos]
  <2>1. want.pos \in DOMAIN src_caps /\ want.kind = pdo.kind /\ ~(want.ma > pdo.ma)
    BY <1>8 DEF rdo_for_locked
  <2>2. \/ /\ want.kind = "fixed"
           /\ rdo = rdo_fixed(want.pos, IF want.ma > 0 THEN want.ma ELSE Lesser(pdo.ma, CABLE_MA))
        \/ /\ want.mv \in pdo.min..pdo.max
           /\ rdo = rdo_pps(want.pos, want.mv, want.ma) /\ want.kind = "pps"
    BY <1>2, <1>8, <2>1 DEF rdo_for_locked
  <2>3. want.ma <= pdo.ma
    BY <1>2, <1>3, <2>1
  <2>4. CASE /\ want.kind = "fixed"
             /\ rdo = rdo_fixed(want.pos, IF want.ma > 0 THEN want.ma ELSE Lesser(pdo.ma, CABLE_MA))
    <3>1. (IF want.ma > 0 THEN want.ma ELSE Lesser(pdo.ma, CABLE_MA)) \in Nat
      BY <1>2, <1>3, <1>6, <2>1
    <3>2. (IF want.ma > 0 THEN want.ma ELSE Lesser(pdo.ma, CABLE_MA)) <= pdo.ma
      BY <1>2, <1>3, <1>4, <2>1, <2>3
    <3> QED
      BY <1>5, <2>1, <2>4, <3>1, <3>2
  <2>5. CASE /\ want.mv \in pdo.min..pdo.max
             /\ rdo = rdo_pps(want.pos, want.mv, want.ma) /\ want.kind = "pps"
    <3>1. want.mv \in Nat
      BY DEF SinkTypes, Want
    <3>2. /\ Steps(want.ma, 50) \in Nat /\ Steps(want.ma, 50) <= want.ma
          /\ Steps(want.mv, 20) \in Nat /\ Steps(want.mv, 20) <= want.mv
      BY <1>3, <3>1, StepsFacts
    <3>3. pdo.min \in Nat /\ pdo.max \in Nat /\ pdo.min % 100 = 0
      BY <1>9, <2>1, <2>5
    <3>4. pdo.min <= Steps(want.mv, 20)
      <4> HIDE DEF pdo
      <4>1. pdo.min <= want.mv
        BY <2>5, <3>1, <3>3
      <4>2. \A x, min \in Nat : min <= x /\ min % 100 = 0 => min <= Steps(x, 20)
        BY StepsFacts
      <4> QED
        BY <3>1, <3>3, <4>1, <4>2
    <3>5. rdo.pos = want.pos /\ rdo.mv = Steps(want.mv, 20) /\ rdo.ma = Steps(want.ma, 50)
      BY <2>5 DEF rdo_pps
    <3>6. pdo.ma \in Nat
      BY <1>2, <2>1
    <3> QED
      BY <1>3, <2>1, <2>3, <2>5, <3>1, <3>2, <3>3, <3>4, <3>5, <3>6
  <2> QED
    BY <2>2, <2>4, <2>5
<1> QED
  BY <1>7, <1>8

\* policy_get_rdo asks for what the caps held offer: the contract again, the choice, or vSafe5V.
LEMMA GetRdoFits ==
  ASSUME SinkTypes, src_caps # <<>>, AgreedFits, policy_get_rdo
  PROVE  sent'.rdo.pos \in DOMAIN src_caps /\ sent'.pdo = src_caps[sent'.rdo.pos] /\ Offered(sent')
<1>1. PICK rdo \in rdo_choices : \E pdo \in pdos_at(rdo.pos) : sent' = [rdo |-> rdo, pdo |-> pdo]
  BY DEF policy_get_rdo
<1>2. /\ rdo.pos \in DOMAIN src_caps /\ rdo.ma <= src_caps[rdo.pos].ma
      /\ src_caps[rdo.pos].kind = "pps"
           => rdo.mv \in src_caps[rdo.pos].min..src_caps[rdo.pos].max
  <2>1. CASE repeats /\ rdo = agreed.rdo
    BY <2>1 DEF repeats, AgreedFits, Offered
  <2>2. CASE rdo \in rdo_for_locked(want, src_caps)
    BY <2>2, ChosenFits
  <2>3. CASE rdo = safe_rdo
    <3>1. 1 \in DOMAIN src_caps /\ src_caps[1] \in Pdo /\ src_caps[1].kind = "fixed"
      BY CapsFacts DEF SinkTypes
    <3>2. Lesser(SAFE_MA, src_caps[1].ma) <= src_caps[1].ma
      BY <3>1, PdAssumption DEF Lesser, Pdo
    <3>3. rdo.pos = 1 /\ rdo.ma = Steps(Lesser(SAFE_MA, src_caps[1].ma), 10)
      BY <2>3 DEF safe_rdo, rdo_fixed
    <3>4. src_caps[1].ma \in Nat /\ Lesser(SAFE_MA, src_caps[1].ma) \in Nat
      BY <3>1, PdAssumption DEF Lesser, Pdo
    <3>5. rdo.ma \in Nat /\ rdo.ma <= Lesser(SAFE_MA, src_caps[1].ma)
      BY <3>3, <3>4, StepsFacts
    <3> QED
      BY <3>1, <3>2, <3>3, <3>4, <3>5
  <2> QED
    BY <2>1, <2>2, <2>3 DEF rdo_choices
<1>3. sent' = [rdo |-> rdo, pdo |-> src_caps[rdo.pos]]
  BY <1>1, <1>2 DEF pdos_at
<1> QED
  BY <1>2, <1>3 DEF Offered

\* The steps that change the contract.
LEMMA ContractFrame ==
  ASSUME [Next]_vars
  PROVE  \/ UNCHANGED <<contract, agreed>>
         \/ ContractEnd \/ TransitionPs \/ TakeRequest
<1>1. CASE Callback
  BY <1>1 DEF Callback, partner_present, sinkVars, Detach, detach, AskGive, Reschedule
<1>2. CASE Sink
  BY <1>2 DEF Sink, policy_set_src_cap, SelectCapability, policy_get_rdo, RequestAnswered,
     sinkVars, RequestRejected
<1>3. CASE Source
  BY <1>3 DEF Source, SendCaps, policy_get_src_caps, sinkVars, policy_check_sink_request
<1>4. CASE Stack
  BY <1>4 DEF Stack, Attach, role_set, SwapRefused, PrSwapAccepted, sinkVars, DataRole,
     pr_swap_check, SwapVbusOff, SwapDone, ProtocolError, Leave, HardReset, Recovered,
     ask_answered
<1>5. CASE Work
  BY <1>5 DEF Work, keepalive_handler, KeepaliveRequest, sinkVars, tcpp_fault
<1>6. CASE Shell
  BY <1>6 DEF Shell, want_set, cmd_keepalive, sinkVars, KeepaliveOn, cmd_drswap, cmd_prswap,
     cmd_answers, cmd_srccaps, cmd_send, cmd_ask, AskReset, AskBegin, dpm_request, PrSwapUndo,
     AskWake, AskForget
<1>7. CASE Unplug
  BY <1>7 DEF Unplug, sinkVars
<1>8. CASE SwapWindowEnds
  BY <1>8 DEF SwapWindowEnds, sinkVars
<1>9. CASE UNCHANGED vars
  BY <1>9 DEF vars, sinkVars
<1> QED
  BY <1>1, <1>2, <1>3, <1>4, <1>5, <1>6, <1>7, <1>8, <1>9 DEF Next

\* Only a Request the source accepted comes in force.
LEMMA AgreedStep ==
  ASSUME AgreedFits, RequestsFit, RolesAgree, Types, [Next]_vars
  PROVE  AgreedFits'
<1> USE PdAssumption
<1>1. ASSUME ContractEnd PROVE AgreedFits'
  BY <1>1 DEF ContractEnd, contract_end, AgreedFits
<1>2. ASSUME TransitionPs PROVE AgreedFits'
  <2>1. CASE source
    BY <1>2, <2>1 DEF TransitionPs, sinkVars, AgreedFits
  <2>2. CASE ~source
    <3>1. pe = "transition"
      BY <1>2, <2>2 DEF TransitionPs, Idle, RolesAgree
    <3>2. Offered(sent)
      BY <3>1 DEF RequestsFit, RequestNamesHeldPdo
    <3>3. agreed' = sent
      BY <1>2, <2>2 DEF TransitionPs
    <3> QED
      BY <3>2, <3>3 DEF AgreedFits
  <2> QED
    BY <2>1, <2>2
<1>3. ASSUME TakeRequest PROVE AgreedFits'
  BY <1>3 DEF TakeRequest, policy_get_rdo, sinkVars, AgreedFits
<1>4. ASSUME UNCHANGED <<contract, agreed>> PROVE AgreedFits'
  BY <1>4 DEF AgreedFits
<1> QED
  BY <1>1, <1>2, <1>3, <1>4, ContractFrame

\* The steps that change the capabilities, the Request or the Policy Engine.
LEMMA RequestFrame ==
  ASSUME [Next]_vars
  PROVE  \/ UNCHANGED <<src_caps, sent, pe, psrc>>
         \/ Detach \/ (\E caps \in Capabilities : policy_set_src_cap(caps)) \/ SelectCapability
         \/ RequestAnswered \/ RequestRejected \/ SendCaps
         \/ (\E rdo \in Requests : policy_check_sink_request(rdo))
         \/ (\E is_source \in BOOLEAN : Attach(is_source)) \/ TransitionPs \/ TakeRequest
         \/ SwapRefused \/ PrSwapAccepted \/ DataRole \/ pr_swap_check \/ SwapVbusOff \/ SwapDone
         \/ ProtocolError \/ Leave \/ HardReset \/ Recovered
         \/ (\E got \in BOOLEAN : ask_answered(got))
<1>1. CASE Callback
  BY <1>1 DEF Callback, partner_present, sinkVars, ContractEnd, contract_end, AskGive, Reschedule
<1>2. CASE Sink
  BY <1>2 DEF Sink
<1>3. CASE Source
  BY <1>3 DEF Source
<1>4. CASE Stack
  BY <1>4 DEF Stack
<1>5. CASE Work
  BY <1>5 DEF Work, keepalive_handler, stackVars, KeepaliveRequest, sinkVars, tcpp_fault
<1>6. CASE Shell
  BY <1>6 DEF Shell, want_set, stackVars, cmd_keepalive, sinkVars, KeepaliveOn, cmd_drswap,
     cmd_prswap, cmd_answers, cmd_srccaps, cmd_send, cmd_ask, AskReset, AskBegin,
     dpm_request, PrSwapUndo, AskWake,
     AskForget
<1>7. CASE Unplug
  BY <1>7 DEF Unplug, sinkVars, stackVars
<1>8. CASE SwapWindowEnds
  BY <1>8 DEF SwapWindowEnds, sinkVars, stackVars
<1>9. CASE UNCHANGED vars
  BY <1>9 DEF vars, sinkVars, stackVars
<1> QED
  BY <1>1, <1>2, <1>3, <1>4, <1>5, <1>6, <1>7, <1>8, <1>9 DEF Next

\* A Request always names a PDO held, and the PDO stays held until it is answered.
LEMMA RequestStep ==
  ASSUME RequestsFit, AgreedFits, RolesAgree, Types, [Next]_vars
  PROVE  RequestsFit'
<1> USE PdAssumption
<1>1. ASSUME Detach PROVE RequestsFit'
  <2>1. pe \in {"off", "power"} /\ UNCHANGED pe
    BY <1>1 DEF Detach, RolesAgree
  <2> QED
    BY <2>1 DEF RequestsFit, RequestNamesHeldPdo, Asks
<1>2. ASSUME NEW caps \in Capabilities, policy_set_src_cap(caps) PROVE RequestsFit'
  <2>1. src_caps' = caps /\ pe' = "select"
    BY <1>2 DEF policy_set_src_cap
  <2> QED
    BY <2>1, CapsFacts DEF RequestsFit, RequestNamesHeldPdo
<1>3. ASSUME SelectCapability PROVE RequestsFit'
  <2>1. pe = "select" /\ pe' = "request" /\ policy_get_rdo /\ UNCHANGED psrc
    BY <1>3 DEF SelectCapability, Idle
  <2>2. src_caps # <<>> /\ ~psrc
    BY <2>1 DEF RequestsFit, RolesAgree
  <2>3. UNCHANGED src_caps
    BY <2>1 DEF policy_get_rdo
  <2> QED
    BY <2>1, <2>2, <2>3, GetRdoFits DEF Types, RequestsFit, RequestNamesHeldPdo
<1>4. ASSUME RequestAnswered PROVE RequestsFit'
  BY <1>4 DEF RequestAnswered, Idle, sinkVars, RequestsFit, RequestNamesHeldPdo, Asks
<1>5. ASSUME RequestRejected PROVE RequestsFit'
  BY <1>5 DEF RequestRejected, rejected, Idle, swap_answered_locked, answers_swap, RequestsFit,
     RequestNamesHeldPdo, Asks
<1>6. ASSUME SendCaps PROVE RequestsFit'
  BY <1>6 DEF SendCaps, Idle, sinkVars, RequestsFit, RequestNamesHeldPdo, Asks
<1>7. ASSUME NEW rdo \in Requests, policy_check_sink_request(rdo) PROVE RequestsFit'
  BY <1>7 DEF policy_check_sink_request, Idle, sinkVars, RequestsFit, RequestNamesHeldPdo, Asks
<1>8. ASSUME NEW is_source \in BOOLEAN, Attach(is_source) PROVE RequestsFit'
  BY <1>8 DEF Attach, role_set, Idle, close_window, RequestsFit, RequestNamesHeldPdo, Asks
<1>9. ASSUME TransitionPs PROVE RequestsFit'
  <2>1. pe' = "ready" /\ UNCHANGED <<src_caps, psrc>>
    BY <1>9 DEF TransitionPs, sinkVars
  <2>2. psrc \/ pe = "transition"
    BY <1>9 DEF TransitionPs, Idle, RolesAgree
  <2> QED
    BY <2>1, <2>2 DEF RequestsFit, RequestNamesHeldPdo, Asks
<1>10. ASSUME TakeRequest PROVE RequestsFit'
  <2>1. UNCHANGED <<psrc, src_caps>> /\ (UNCHANGED sent \/ policy_get_rdo)
    BY <1>10 DEF TakeRequest, policy_get_rdo, sinkVars
  <2> DEFINE r == Head(queue)
  <2>2. TakenAs(r)
    BY <1>10, TakeFacts
  <2>3. r # "request" \/ ~ActsOn(r) => UNCHANGED sent
    BY <1>10 DEF TakeRequest, sinkVars
  <2> HIDE DEF r
  <2>4. CASE pe' = r /\ ActsOn(r) /\ r = "request"
    <3>1. pe = "ready" /\ ~psrc
      BY <2>4 DEF ActsOn, Asks
    <3>2. src_caps # <<>>
      BY <3>1 DEF RequestsFit
    <3>3. CASE policy_get_rdo
      BY <2>1, <3>2, <3>3, GetRdoFits DEF Types, RequestsFit, RequestNamesHeldPdo
    <3>4. CASE ~policy_get_rdo
      BY <1>10, <2>4, <3>4 DEF TakeRequest, r
    <3> QED
      BY <3>3, <3>4
  <2>5. CASE pe' = r /\ ActsOn(r) /\ r \notin {"request", "getcaps", "hardreset", "recovery"}
    <3>1. r = "srccaps" \/ (r \in {"drswap", "prswap"} \cup Asks /\ pe = "ready")
      BY <2>5 DEF ActsOn
    <3>3. r = "srccaps" => psrc
      BY <2>5 DEF ActsOn, Asks
    <3>2. pe' \notin {"select", "request", "transition", "ready"}
      BY <2>5, <3>1 DEF Asks
    <3> QED
      BY <2>1, <2>5, <3>1, <3>2, <3>3 DEF RequestsFit, RequestNamesHeldPdo, Asks
  <2>6. CASE pe' \in {"reset", "crossed", "failed"}
    BY <2>6 DEF RequestsFit, RequestNamesHeldPdo, Asks
  <2>7. CASE pe' = pe /\ UNCHANGED sent
    BY <2>1, <2>7 DEF RequestsFit, RequestNamesHeldPdo
  <2>8. CASE pe' = pe /\ r = "request" /\ ActsOn(r)
    <3>1. pe = "ready" /\ ~psrc
      BY <2>8 DEF ActsOn, Asks
    <3> QED
      BY <2>1, <2>8, <3>1 DEF RequestsFit, RequestNamesHeldPdo
  <2> QED
    BY <2>2, <2>3, <2>4, <2>5, <2>6, <2>7, <2>8 DEF TakenAs
<1>11. ASSUME SwapRefused PROVE RequestsFit'
  BY <1>11 DEF SwapRefused, close_window, keep_window, swap_answered_locked, rejected, Idle,
     answers_swap, RequestsFit, RequestNamesHeldPdo, Asks
<1>12. ASSUME PrSwapAccepted PROVE RequestsFit'
  BY <1>12 DEF PrSwapAccepted, Idle, sinkVars, RequestsFit, RequestNamesHeldPdo, Asks
<1>13. ASSUME DataRole PROVE RequestsFit'
  BY <1>13 DEF DataRole, Idle, sinkVars, RequestsFit, RequestNamesHeldPdo, Asks
<1>14. ASSUME pr_swap_check PROVE RequestsFit'
  BY <1>14 DEF pr_swap_check, Idle, sinkVars, RequestsFit, RequestNamesHeldPdo, Asks
<1>15. ASSUME SwapVbusOff PROVE RequestsFit'
  BY <1>15 DEF SwapVbusOff, vbus_lost, Idle, detach, sinkVars, RequestsFit, RequestNamesHeldPdo,
     Asks
<1>16. ASSUME SwapDone PROVE RequestsFit'
  BY <1>16 DEF SwapDone, role_set, Idle, close_window, RequestsFit, RequestNamesHeldPdo, Asks
<1>17. ASSUME ProtocolError PROVE RequestsFit'
  BY <1>17 DEF ProtocolError, swap_failed_locked, close_window, sinkVars, RequestsFit,
     RequestNamesHeldPdo, Asks
<1>18. ASSUME Leave PROVE RequestsFit'
  BY <1>18 DEF Leave, vbus_lost, detach, sinkVars, RequestsFit, RequestNamesHeldPdo, Asks
<1>19. ASSUME HardReset PROVE RequestsFit'
  BY <1>19 DEF HardReset, swap_failed_locked, close_window, sinkVars, RequestsFit,
     RequestNamesHeldPdo, Asks
<1>20. ASSUME Recovered PROVE RequestsFit'
  BY <1>20 DEF Recovered, role_set, Idle, close_window, RequestsFit, RequestNamesHeldPdo, Asks
<1>21. ASSUME NEW got \in BOOLEAN, ask_answered(got) PROVE RequestsFit'
  BY <1>21 DEF ask_answered, Idle, sinkVars, RequestsFit, RequestNamesHeldPdo, Asks
<1>22. ASSUME UNCHANGED <<src_caps, sent, pe, psrc>> PROVE RequestsFit'
  BY <1>22 DEF RequestsFit, RequestNamesHeldPdo, Asks
<1> QED
  BY <1>1, <1>2, <1>3, <1>4, <1>5, <1>6, <1>7, <1>8, <1>9, <1>10, <1>11, <1>12, <1>13, <1>14,
     <1>15, <1>16, <1>17, <1>18, <1>19, <1>20, <1>21, <1>22, RequestFrame

\* A Request on the wire names a PDO of the capabilities held and stays within it, for any
\* capabilities, choices and cable.
THEOREM RequestsAreOffered == Spec => []RequestNamesHeldPdo
<1> DEFINE Inv == RequestsFit /\ AgreedFits
<1>1. Init => Inv
  BY DEF Init, RequestsFit, AgreedFits, RequestNamesHeldPdo, Asks
<1>2. Types /\ RolesAgree /\ Inv /\ [Next]_vars => Inv'
  BY RequestStep, AgreedStep
<1>3. Inv => RequestNamesHeldPdo
  BY DEF RequestsFit
<1> HIDE DEF Inv
<1> QED
  BY <1>1, <1>2, <1>3, TypesHold, RolesHold, PTL DEF Spec

----------------------------------------------------------------------------
(* PR_Swap windows.                                                        *)

PrSwapQueued == \E i \in DOMAIN queue : queue[i] = "prswap"

\* A PR_Swap that may still reach the wire has its window: the one the stack is at, the one
\* the shell is about to queue, and the one queued unless the port is off by now.
WindowsCover ==
    /\ pe \in {"prswap", "swap"} \/ shell = "prswap" => swap_open \/ overtaken
    /\ PrSwapQueued => swap_open \/ overtaken \/ pe \in {"off", "power", "crossed"}

\* A request appended is the only one the queue gains.
LEMMA QueuedFacts ==
  ASSUME StackTypes, NEW r \in DpmRequest, usbc_request(r)
  PROVE  PrSwapQueued' => PrSwapQueued \/ r = "prswap"
<1>1. queue \in Seq(DpmRequest)
  BY DEF StackTypes
<1>2. \A i \in DOMAIN Append(queue, r) :
        (i \in DOMAIN queue /\ Append(queue, r)[i] = queue[i]) \/ Append(queue, r)[i] = r
  BY <1>1
<1> QED
  BY <1>1, <1>2 DEF usbc_request, PrSwapQueued

\* Closing the window overtakes the PR_Swap the shell is about to queue.
LEMMA WindowFacts ==
  ASSUME SwapTypes, close_window \/ keep_window, swap_open \/ overtaken \/ shell # "prswap"
  PROVE  shell = "prswap" => swap_open' \/ overtaken'
BY DEF close_window, keep_window, SwapTypes

\* The steps that change a window or the way of a PR_Swap to the wire.
LEMMA WindowFrame ==
  ASSUME [Next]_vars
  PROVE  \/ UNCHANGED <<pe, shell, swap_open, overtaken, queue>>
         \/ Detach \/ (\E caps \in Capabilities : policy_set_src_cap(caps)) \/ SelectCapability
         \/ RequestAnswered \/ RequestRejected \/ SendCaps
         \/ (\E rdo \in Requests : policy_check_sink_request(rdo))
         \/ (\E is_source \in BOOLEAN : Attach(is_source)) \/ TransitionPs \/ TakeRequest
         \/ SwapRefused \/ PrSwapAccepted \/ DataRole \/ pr_swap_check \/ SwapVbusOff \/ SwapDone
         \/ ProtocolError \/ Leave \/ HardReset \/ Recovered
         \/ (\E got \in BOOLEAN : ask_answered(got)) \/ KeepaliveRequest \/ tcpp_fault
         \/ want_set \/ cmd_keepalive \/ KeepaliveOn \/ cmd_drswap \/ cmd_prswap \/ cmd_answers
         \/ cmd_srccaps \/ cmd_send \/ cmd_ask \/ AskReset \/ AskBegin \/ dpm_request
         \/ PrSwapUndo \/ AskWake \/ AskForget \/ SwapWindowEnds
<1>1. CASE Callback
  BY <1>1 DEF Callback, partner_present, swapVars, hostVars, ContractEnd, contract_end, AskGive,
     Reschedule
<1>2. CASE Sink
  BY <1>2 DEF Sink
<1>3. CASE Source
  BY <1>3 DEF Source
<1>4. CASE Stack
  BY <1>4 DEF Stack
<1>5. CASE Work
  BY <1>5 DEF Work, keepalive_handler, swapVars, hostVars, stackVars
<1>6. CASE Shell
  BY <1>6 DEF Shell
<1>7. CASE Unplug
  BY <1>7 DEF Unplug, swapVars, hostVars, stackVars
<1>8. CASE SwapWindowEnds
  BY <1>8
<1>9. CASE UNCHANGED vars
  BY <1>9 DEF vars, swapVars, hostVars, stackVars
<1> QED
  BY <1>1, <1>2, <1>3, <1>4, <1>5, <1>6, <1>7, <1>8, <1>9 DEF Next

\* No window closes on a PR_Swap under way but with its end, or it is overtaken.
LEMMA WindowStep ==
  ASSUME WindowsCover, RolesAgree, Types, [Next]_vars
  PROVE  WindowsCover'
<1> USE PdAssumption
<1>1. ASSUME Detach PROVE WindowsCover'
  <2>1. pe \in {"off", "power"} /\ UNCHANGED <<pe, queue, shell>> /\ close_window
    BY <1>1 DEF Detach, detach, hostVars, RolesAgree
  <2>2. shell = "prswap" => swap_open' \/ overtaken'
    BY <2>1, WindowFacts DEF WindowsCover, Types
  <2> QED
    BY <2>1, <2>2 DEF WindowsCover
<1>2. ASSUME NEW caps \in Capabilities, policy_set_src_cap(caps) PROVE WindowsCover'
  BY <1>2 DEF policy_set_src_cap, Idle, swapVars, hostVars, WindowsCover, PrSwapQueued
<1>3. ASSUME SelectCapability PROVE WindowsCover'
  BY <1>3 DEF SelectCapability, Idle, swapVars, hostVars, WindowsCover, PrSwapQueued
<1>4. ASSUME RequestAnswered PROVE WindowsCover'
  BY <1>4 DEF RequestAnswered, Idle, swapVars, hostVars, WindowsCover, PrSwapQueued
<1>5. ASSUME RequestRejected PROVE WindowsCover'
  <2>1. queue = <<>> /\ UNCHANGED <<queue, shell>> /\ pe' \notin {"prswap", "swap"}
    BY <1>5 DEF RequestRejected, Idle, hostVars
  <2>2. close_window \/ keep_window
    BY <1>5 DEF RequestRejected, rejected, swap_answered_locked
  <2>3. shell = "prswap" => swap_open' \/ overtaken'
    BY <2>2, WindowFacts DEF WindowsCover, Types
  <2>4. ~PrSwapQueued'
    BY <2>1 DEF PrSwapQueued
  <2> QED
    BY <2>1, <2>3, <2>4 DEF WindowsCover
<1>6. ASSUME SendCaps PROVE WindowsCover'
  BY <1>6 DEF SendCaps, Idle, swapVars, hostVars, WindowsCover, PrSwapQueued
<1>7. ASSUME NEW rdo \in Requests, policy_check_sink_request(rdo) PROVE WindowsCover'
  BY <1>7 DEF policy_check_sink_request, Idle, swapVars, hostVars, WindowsCover, PrSwapQueued
<1>8. ASSUME NEW is_source \in BOOLEAN, Attach(is_source) PROVE WindowsCover'
  <2>1. queue = <<>> /\ UNCHANGED <<queue, shell>> /\ pe' \notin {"prswap", "swap"}
    BY <1>8 DEF Attach, Idle, role_set, hostVars
  <2>2. close_window \/ keep_window
    BY <1>8 DEF Attach, role_set
  <2>3. shell = "prswap" => swap_open' \/ overtaken'
    BY <2>2, WindowFacts DEF WindowsCover, Types
  <2>4. ~PrSwapQueued'
    BY <2>1 DEF PrSwapQueued
  <2> QED
    BY <2>1, <2>3, <2>4 DEF WindowsCover
<1>9. ASSUME TransitionPs PROVE WindowsCover'
  BY <1>9 DEF TransitionPs, Idle, swapVars, hostVars, WindowsCover, PrSwapQueued
<1>10. ASSUME TakeRequest PROVE WindowsCover'
  <2>1. /\ queue # <<>> /\ queue' = Tail(queue) /\ UNCHANGED <<shell, swap_open, overtaken>>
        /\ queue \in Seq(DpmRequest)
    BY <1>10 DEF TakeRequest, swapVars, hostVars, Types, StackTypes
  <2>2. PrSwapQueued' => PrSwapQueued
    <3>1. \A i \in DOMAIN Tail(queue) : i + 1 \in DOMAIN queue /\ Tail(queue)[i] = queue[i + 1]
      BY <2>1
    <3> QED
      BY <2>1, <3>1 DEF PrSwapQueued
  <2> DEFINE r == Head(queue)
  <2>3. r = "prswap" => PrSwapQueued
    BY <2>1 DEF PrSwapQueued
  <2>4. TakenAs(r) /\ (pe' = "crossed" => pe \in {"power", "crossed"})
    BY <1>10, TakeFacts
  <2> HIDE DEF r
  <2>5. pe' = "prswap" => pe = "prswap" \/ (r = "prswap" /\ pe = "ready")
    BY <2>4 DEF TakenAs, ActsOn, Asks
  <2>6. pe' = "swap" => pe = "swap"
    BY <2>4 DEF TakenAs, ActsOn, Asks
  <2>7. pe \in {"off", "power", "crossed"} => pe' \in {"off", "power", "crossed"}
    BY <2>4 DEF TakenAs, ActsOn, Asks
  <2> QED
    BY <2>1, <2>2, <2>3, <2>5, <2>6, <2>7 DEF WindowsCover
<1>11. ASSUME SwapRefused PROVE WindowsCover'
  <2>1. queue = <<>> /\ UNCHANGED <<queue, shell>> /\ pe' \notin {"prswap", "swap"}
    BY <1>11 DEF SwapRefused, Idle, hostVars
  <2>2. close_window \/ keep_window
    BY <1>11 DEF SwapRefused, rejected, swap_answered_locked
  <2>3. shell = "prswap" => swap_open' \/ overtaken'
    BY <2>2, WindowFacts DEF WindowsCover, Types
  <2>4. ~PrSwapQueued'
    BY <2>1 DEF PrSwapQueued
  <2> QED
    BY <2>1, <2>3, <2>4 DEF WindowsCover
<1>12. ASSUME PrSwapAccepted PROVE WindowsCover'
  BY <1>12 DEF PrSwapAccepted, Idle, swapVars, hostVars, WindowsCover, PrSwapQueued
<1>13. ASSUME DataRole PROVE WindowsCover'
  BY <1>13 DEF DataRole, Idle, hostVars, WindowsCover, PrSwapQueued
<1>14. ASSUME pr_swap_check PROVE WindowsCover'
  BY <1>14 DEF pr_swap_check, Idle, hostVars, WindowsCover, PrSwapQueued
<1>15. ASSUME SwapVbusOff PROVE WindowsCover'
  BY <1>15 DEF SwapVbusOff, vbus_lost, Idle, detach, swapVars, hostVars, WindowsCover,
     PrSwapQueued
<1>16. ASSUME SwapDone PROVE WindowsCover'
  <2>1. queue = <<>> /\ UNCHANGED <<queue, shell>> /\ pe' \notin {"prswap", "swap"}
    BY <1>16 DEF SwapDone, Idle, role_set, hostVars
  <2>2. close_window \/ keep_window
    BY <1>16 DEF SwapDone, role_set
  <2>3. shell = "prswap" => swap_open' \/ overtaken'
    BY <2>2, WindowFacts DEF WindowsCover, Types
  <2>4. ~PrSwapQueued'
    BY <2>1 DEF PrSwapQueued
  <2> QED
    BY <2>1, <2>3, <2>4 DEF WindowsCover
<1>17. ASSUME ProtocolError PROVE WindowsCover'
  <2>1. queue = <<>> /\ UNCHANGED <<queue, shell>> /\ pe' \notin {"prswap", "swap"}
    BY <1>17 DEF ProtocolError, hostVars
  <2>2. close_window \/ keep_window
    BY <1>17 DEF ProtocolError, swap_failed_locked
  <2>3. shell = "prswap" => swap_open' \/ overtaken'
    BY <2>2, WindowFacts DEF WindowsCover, Types
  <2>4. ~PrSwapQueued'
    BY <2>1 DEF PrSwapQueued
  <2> QED
    BY <2>1, <2>3, <2>4 DEF WindowsCover
<1>18. ASSUME Leave PROVE WindowsCover'
  BY <1>18 DEF Leave, vbus_lost, detach, swapVars, hostVars, WindowsCover, PrSwapQueued
<1>19. ASSUME HardReset PROVE WindowsCover'
  <2>1. queue = <<>> /\ UNCHANGED shell /\ pe' = "restart" /\ close_window
    BY <1>19 DEF HardReset, swap_failed_locked, hostVars
  <2>2. queue' = <<>> \/ queue' = <<"recovery">>
    <3>1. UNCHANGED queue \/ usbc_request("recovery")
      BY <1>19 DEF HardReset
    <3> QED
      BY <2>1, <3>1 DEF usbc_request
  <2>3. ~PrSwapQueued'
    BY <2>2 DEF PrSwapQueued
  <2>4. shell = "prswap" => swap_open' \/ overtaken'
    BY <2>1, WindowFacts DEF WindowsCover, Types
  <2> QED
    BY <2>1, <2>3, <2>4 DEF WindowsCover
<1>20. ASSUME Recovered PROVE WindowsCover'
  <2>1. queue = <<>> /\ UNCHANGED <<queue, shell>> /\ pe' \notin {"prswap", "swap"}
    BY <1>20 DEF Recovered, Idle, role_set, hostVars
  <2>2. close_window \/ keep_window
    BY <1>20 DEF Recovered, role_set
  <2>3. shell = "prswap" => swap_open' \/ overtaken'
    BY <2>2, WindowFacts DEF WindowsCover, Types
  <2>4. ~PrSwapQueued'
    BY <2>1 DEF PrSwapQueued
  <2> QED
    BY <2>1, <2>3, <2>4 DEF WindowsCover
<1>21. ASSUME NEW got \in BOOLEAN, ask_answered(got) PROVE WindowsCover'
  BY <1>21 DEF ask_answered, Idle, swapVars, hostVars, WindowsCover, PrSwapQueued
<1>22. ASSUME KeepaliveRequest PROVE WindowsCover'
  <2>1. UNCHANGED <<pe, shell, swap_open, overtaken>> /\ usbc_request("request")
    BY <1>22 DEF KeepaliveRequest, swapVars, hostVars
  <2>2. PrSwapQueued' => PrSwapQueued
    BY <2>1, QueuedFacts DEF DpmRequest, Types
  <2> QED
    BY <2>1, <2>2 DEF WindowsCover
<1>23. ASSUME tcpp_fault PROVE WindowsCover'
  <2>1. UNCHANGED <<pe, shell, swap_open, overtaken>> /\ usbc_request("recovery")
    BY <1>23 DEF tcpp_fault, swapVars, hostVars
  <2>2. PrSwapQueued' => PrSwapQueued
    BY <2>1, QueuedFacts DEF DpmRequest, Types
  <2> QED
    BY <2>1, <2>2 DEF WindowsCover
<1>24. ASSUME want_set PROVE WindowsCover'
  BY <1>24 DEF want_set, Typed, Done, Then, Arg, swapVars, stackVars, WindowsCover, PrSwapQueued
<1>25. ASSUME cmd_keepalive PROVE WindowsCover'
  BY <1>25 DEF cmd_keepalive, Typed, Done, Then, Arg, swapVars, stackVars, WindowsCover,
     PrSwapQueued
<1>26. ASSUME KeepaliveOn PROVE WindowsCover'
  BY <1>26 DEF KeepaliveOn, swapVars, stackVars, WindowsCover, PrSwapQueued
<1>27. ASSUME cmd_drswap PROVE WindowsCover'
  BY <1>27 DEF cmd_drswap, Typed, Then, Done, Arg, stackVars, WindowsCover, PrSwapQueued
<1>28. ASSUME cmd_prswap PROVE WindowsCover'
  BY <1>28 DEF cmd_prswap, Typed, Done, Then, Arg, stackVars, WindowsCover, PrSwapQueued
<1>29. ASSUME cmd_answers PROVE WindowsCover'
  BY <1>29 DEF cmd_answers, Typed, Done, Arg, Then, swapVars, stackVars, WindowsCover,
     PrSwapQueued
<1>30. ASSUME cmd_srccaps PROVE WindowsCover'
  BY <1>30 DEF cmd_srccaps, Typed, Done, Then, Arg, swapVars, stackVars, WindowsCover,
     PrSwapQueued
<1>31. ASSUME cmd_send PROVE WindowsCover'
  BY <1>31 DEF cmd_send, Typed, Then, Done, Arg, swapVars, stackVars, WindowsCover, PrSwapQueued
<1>32. ASSUME cmd_ask PROVE WindowsCover'
  BY <1>32 DEF cmd_ask, Done, swapVars, stackVars, WindowsCover, PrSwapQueued
<1>39. ASSUME AskReset PROVE WindowsCover'
  BY <1>39 DEF AskReset, swapVars, stackVars, WindowsCover, PrSwapQueued
<1>40. ASSUME AskBegin PROVE WindowsCover'
  <2>1. Arg.name = "ask" /\ Arg \in Command
    BY <1>40, TypedFacts DEF AskBegin, Arg, Types, HostTypes
  <2>2. shell' # "prswap"
    BY <1>40, <2>1, CommandFacts DEF AskBegin, Then, Asks
  <2>3. UNCHANGED <<pe, queue, swap_open, overtaken>>
    BY <1>40 DEF AskBegin, swapVars, stackVars
  <2>4. PrSwapQueued' = PrSwapQueued
    BY <2>3 DEF PrSwapQueued
  <2> QED
    BY <2>2, <2>3, <2>4 DEF WindowsCover
<1>33. ASSUME dpm_request PROVE WindowsCover'
  <2>1. UNCHANGED <<pe, swap_open, overtaken>> /\ shell' # "prswap" /\ usbc_request(shell)
    BY <1>33 DEF dpm_request, swapVars
  <2>2. PrSwapQueued' => PrSwapQueued \/ shell = "prswap"
    BY <2>1, QueuedFacts, <1>33 DEF dpm_request, Types
  <2> QED
    BY <2>1, <2>2 DEF WindowsCover
<1>34. ASSUME PrSwapUndo PROVE WindowsCover'
  <2>1. shell' = "idle" /\ UNCHANGED <<pe, queue>>
    BY <1>34 DEF PrSwapUndo, stackVars
  <2>2. pe \in {"prswap", "swap"} \/ PrSwapQueued => swap_under_way
    BY DEF swap_under_way, PrSwapQueued
  <2>3. swap_under_way => overtaken'
    BY <1>34 DEF PrSwapUndo
  <2>4. PrSwapQueued' = PrSwapQueued
    BY <2>1 DEF PrSwapQueued
  <2> QED
    BY <2>1, <2>2, <2>3, <2>4 DEF WindowsCover
<1>35. ASSUME AskWake PROVE WindowsCover'
  BY <1>35 DEF AskWake, swapVars, stackVars, WindowsCover, PrSwapQueued
<1>36. ASSUME AskForget PROVE WindowsCover'
  BY <1>36 DEF AskForget, swapVars, stackVars, WindowsCover, PrSwapQueued
<1>37. ASSUME SwapWindowEnds PROVE WindowsCover'
  <2>1. ~swap_under_way /\ UNCHANGED <<pe, queue, shell>>
    BY <1>37 DEF SwapWindowEnds, hostVars, stackVars
  <2>2. pe \notin {"prswap", "swap"} /\ shell # "prswap" /\ ~PrSwapQueued
    BY <2>1 DEF swap_under_way, PrSwapQueued
  <2>3. PrSwapQueued' = PrSwapQueued
    BY <2>1 DEF PrSwapQueued
  <2> QED
    BY <2>1, <2>2, <2>3 DEF WindowsCover
<1>38. ASSUME UNCHANGED <<pe, shell, swap_open, overtaken, queue>> PROVE WindowsCover'
  BY <1>38 DEF WindowsCover, PrSwapQueued
<1> QED
  BY <1>1, <1>2, <1>3, <1>4, <1>5, <1>6, <1>7, <1>8, <1>9, <1>10, <1>11, <1>12, <1>13, <1>14,
     <1>15, <1>16, <1>17, <1>18, <1>19, <1>20, <1>21, <1>22, <1>23, <1>24, <1>25, <1>26, <1>27,
     <1>28, <1>29, <1>30, <1>31, <1>32, <1>33, <1>34, <1>35, <1>36, <1>37, <1>38, <1>39,
     <1>40, WindowFrame

\* While a PR_Swap moves VBUS its window is open or was overtaken, for any sequence of
\* commands and a queue of any depth.
THEOREM SwapsAreCovered == Spec => []SwapIsCovered
<1>1. Init => WindowsCover
  BY DEF Init, WindowsCover, PrSwapQueued
<1>2. Types /\ RolesAgree /\ WindowsCover /\ [Next]_vars => WindowsCover'
  BY WindowStep
<1>3. WindowsCover => SwapIsCovered
  BY DEF WindowsCover, SwapIsCovered
<1> QED
  BY <1>1, <1>2, <1>3, TypesHold, RolesHold, PTL DEF Spec

----------------------------------------------------------------------------
(* The contract as a source.                                               *)

\* The steps that change the caps sent, the Request accepted or the contract.
LEMMA SourceFrame ==
  ASSUME [Next]_vars
  PROVE  \/ UNCHANGED <<pe, sent_caps, req, src_contract, src_agreed>>
         \/ Detach \/ (\E caps \in Capabilities : policy_set_src_cap(caps)) \/ SelectCapability
         \/ RequestAnswered \/ RequestRejected \/ SendCaps
         \/ (\E rdo \in Requests : policy_check_sink_request(rdo))
         \/ (\E is_source \in BOOLEAN : Attach(is_source)) \/ TransitionPs \/ TakeRequest
         \/ SwapRefused \/ PrSwapAccepted \/ DataRole \/ pr_swap_check \/ SwapVbusOff \/ SwapDone
         \/ ProtocolError \/ Leave \/ HardReset \/ Recovered
         \/ (\E got \in BOOLEAN : ask_answered(got))
<1>1. CASE Callback
  BY <1>1 DEF Callback, partner_present, srcVars, ContractEnd, contract_end, AskGive, Reschedule
<1>2. CASE Sink
  BY <1>2 DEF Sink
<1>3. CASE Source
  BY <1>3 DEF Source
<1>4. CASE Stack
  BY <1>4 DEF Stack
<1>5. CASE Work
  BY <1>5 DEF Work, keepalive_handler, srcVars, stackVars, KeepaliveRequest, tcpp_fault
<1>6. CASE Shell
  BY <1>6 DEF Shell, want_set, srcVars, stackVars, cmd_keepalive, KeepaliveOn, cmd_drswap,
     cmd_prswap, cmd_answers, cmd_srccaps, cmd_send, cmd_ask, AskReset, AskBegin,
     dpm_request, PrSwapUndo, AskWake,
     AskForget
<1>7. CASE Unplug
  BY <1>7 DEF Unplug, srcVars, stackVars
<1>8. CASE SwapWindowEnds
  BY <1>8 DEF SwapWindowEnds, srcVars, stackVars
<1>9. CASE UNCHANGED vars
  BY <1>9 DEF vars, srcVars, stackVars
<1> QED
  BY <1>1, <1>2, <1>3, <1>4, <1>5, <1>6, <1>7, <1>8, <1>9 DEF Next

\* A Request accepted was offered, and only it comes in force.
LEMMA SourceStep ==
  ASSUME SourceContractFits, RolesAgree, Types, [Next]_vars
  PROVE  SourceContractFits'
<1> USE PdAssumption
<1>1. ASSUME Detach PROVE SourceContractFits'
  BY <1>1 DEF Detach, detach, close_window, SourceContractFits
<1>2. ASSUME NEW caps \in Capabilities, policy_set_src_cap(caps) PROVE SourceContractFits'
  BY <1>2 DEF policy_set_src_cap, Idle, srcVars, SourceContractFits
<1>3. ASSUME SelectCapability PROVE SourceContractFits'
  BY <1>3 DEF SelectCapability, Idle, srcVars, SourceContractFits
<1>4. ASSUME RequestAnswered PROVE SourceContractFits'
  BY <1>4 DEF RequestAnswered, Idle, srcVars, SourceContractFits
<1>5. ASSUME RequestRejected PROVE SourceContractFits'
  BY <1>5 DEF RequestRejected, rejected, Idle, swap_answered_locked, answers_swap, srcVars,
     SourceContractFits
<1>6. ASSUME SendCaps PROVE SourceContractFits'
  BY <1>6 DEF SendCaps, policy_get_src_caps, Idle, SourceContractFits
<1>7. ASSUME NEW rdo \in Requests, policy_check_sink_request(rdo) PROVE SourceContractFits'
  <2>1. UNCHANGED <<sent_caps, src_contract, src_agreed>>
    BY <1>7 DEF policy_check_sink_request
  <2>2. CASE accepts(rdo)
    <3>1. req' = [rdo |-> rdo, pdo |-> sent_caps[rdo.pos]] /\ request_fits(sent_caps, rdo)
      BY <1>7, <2>2 DEF policy_check_sink_request, accepts
    <3> QED
      BY <2>1, <3>1 DEF SourceContractFits, request_fits
  <2>3. CASE ~accepts(rdo)
    <3>1. pe' # "supply"
      BY <1>7, <2>3 DEF policy_check_sink_request
    <3> QED
      BY <2>1, <3>1 DEF SourceContractFits
  <2> QED
    BY <2>2, <2>3
<1>8. ASSUME NEW is_source \in BOOLEAN, Attach(is_source) PROVE SourceContractFits'
  BY <1>8 DEF Attach, role_set, Idle, close_window, SourceContractFits
<1>9. ASSUME TransitionPs PROVE SourceContractFits'
  <2>1. UNCHANGED sent_caps /\ pe' = "ready"
    BY <1>9 DEF TransitionPs
  <2>2. CASE source
    <3>1. pe = "supply"
      BY <1>9, <2>2 DEF TransitionPs, Idle, RolesAgree
    <3>2. req.rdo.ma <= req.pdo.ma /\ req.pdo.kind = "fixed"
      BY <3>1 DEF SourceContractFits, request_fits
    <3>3. src_agreed' = req
      BY <1>9, <2>2 DEF TransitionPs
    <3> QED
      BY <2>1, <3>2, <3>3 DEF SourceContractFits
  <2>3. CASE ~source
    <3>1. UNCHANGED <<src_contract, src_agreed>>
      BY <1>9, <2>3 DEF TransitionPs
    <3> QED
      BY <2>1, <3>1 DEF SourceContractFits
  <2> QED
    BY <2>2, <2>3
<1>10. ASSUME TakeRequest PROVE SourceContractFits'
  <2>1. UNCHANGED <<req, src_contract, src_agreed>>
    BY <1>10 DEF TakeRequest, policy_get_src_caps, srcVars
  <2> DEFINE r == Head(queue)
  <2>2. TakenAs(r)
    BY <1>10, TakeFacts
  <2>3. pe' = "supply" => pe = "supply"
    BY <2>2 DEF TakenAs, ActsOn, Asks
  <2>4. pe = "supply" => UNCHANGED sent_caps
    BY <1>10 DEF TakeRequest, ActsOn, srcVars
  <2> QED
    BY <2>1, <2>3, <2>4 DEF SourceContractFits, request_fits
<1>11. ASSUME SwapRefused PROVE SourceContractFits'
  BY <1>11 DEF SwapRefused, close_window, keep_window, swap_answered_locked, rejected, Idle,
     answers_swap, srcVars, SourceContractFits
<1>12. ASSUME PrSwapAccepted PROVE SourceContractFits'
  BY <1>12 DEF PrSwapAccepted, Idle, srcVars, SourceContractFits
<1>13. ASSUME DataRole PROVE SourceContractFits'
  BY <1>13 DEF DataRole, Idle, srcVars, SourceContractFits
<1>14. ASSUME pr_swap_check PROVE SourceContractFits'
  BY <1>14 DEF pr_swap_check, Idle, srcVars, SourceContractFits
<1>15. ASSUME SwapVbusOff PROVE SourceContractFits'
  BY <1>15 DEF SwapVbusOff, vbus_lost, Idle, detach, srcVars, SourceContractFits
<1>16. ASSUME SwapDone PROVE SourceContractFits'
  BY <1>16 DEF SwapDone, role_set, Idle, close_window, SourceContractFits
<1>17. ASSUME ProtocolError PROVE SourceContractFits'
  BY <1>17 DEF ProtocolError, swap_failed_locked, close_window, srcVars, SourceContractFits
<1>18. ASSUME Leave PROVE SourceContractFits'
  BY <1>18 DEF Leave, vbus_lost, detach, srcVars, SourceContractFits
<1>19. ASSUME HardReset PROVE SourceContractFits'
  BY <1>19 DEF HardReset, swap_failed_locked, close_window, srcVars, SourceContractFits
<1>20. ASSUME Recovered PROVE SourceContractFits'
  BY <1>20 DEF Recovered, role_set, Idle, close_window, SourceContractFits
<1>21. ASSUME NEW got \in BOOLEAN, ask_answered(got) PROVE SourceContractFits'
  BY <1>21 DEF ask_answered, Idle, srcVars, SourceContractFits
<1>22. ASSUME UNCHANGED <<pe, sent_caps, req, src_contract, src_agreed>> PROVE SourceContractFits'
  BY <1>22 DEF SourceContractFits
<1> QED
  BY <1>1, <1>2, <1>3, <1>4, <1>5, <1>6, <1>7, <1>8, <1>9, <1>10, <1>11, <1>12, <1>13, <1>14,
     <1>15, <1>16, <1>17, <1>18, <1>19, <1>20, <1>21, <1>22, SourceFrame

\* As a source the bench has agreed to nothing the caps it sent did not offer, for any
\* offers and Requests.
THEOREM SourceAgreesToItsOffer == Spec => []SourceContractFits
<1>1. Init => SourceContractFits
  BY DEF Init, SourceContractFits
<1>2. Types /\ RolesAgree /\ SourceContractFits /\ [Next]_vars => SourceContractFits'
  BY SourceStep
<1> QED
  BY <1>1, <1>2, TypesHold, RolesHold, PTL DEF Spec
=============================================================================
