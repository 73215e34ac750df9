------------------------------ MODULE PdBench ------------------------------
(***************************************************************************)
(* pd-bench/src/main.c, DRP build: the state one spinlock guards, shared   *)
(* by the USB-C stack's thread (the policy callbacks), the shell thread    *)
(* (the pd commands) and the work queue (keep-alive and fault work).  A    *)
(* section under the lock is one step; what a callback or a command does   *)
(* after giving the lock back is another.                                  *)
(*                                                                         *)
(* The stack and the partner are external: `pe' is the Policy Engine as    *)
(* far as the callbacks tell, `queue' the requests usbc_request holds for  *)
(* it, which it drops when it cannot act on them.  A PDO is its kind, its  *)
(* voltages and its current, an RDO a position and what it asks there, all *)
(* in mV and mA.                                                           *)
(* Time is left open: a timer may fire whenever it is armed.               *)
(***************************************************************************)
EXTENDS Integers, Sequences, FiniteSets

CONSTANTS
    Capabilities,   \* the Source_Capabilities a partner may send
    SourcePdos,     \* the Source_Capabilities of the devicetree
    Offers,         \* the Source_Capabilities the host may set, the devicetree's among them
    Requests,       \* the Requests a sink partner may send
    Scripts,        \* the command sequences a host may run
    SAFE_MA, CABLE_MA,
    QueueDepth,     \* requests the stack holds
    MaxAttaches,    \* bound: attaches
    MaxFaults,      \* bound: faults of the TCPP03
    MaxRejects      \* bound: Rejects that answer no swap

Pdo == [kind : {"fixed", "pps"}, min : Nat, max : Nat, ma : Nat]
Rdo == [pos : Nat \ {0}, mv : Nat, ma : Nat]
Want == [kind : {"max", "fixed", "pps"}, pos : Nat, mv : Nat, ma : Nat]
Asks == {"status", "ppsstatus", "battstatus", "snkcaps"}

\* A pd command: its name and what it is given.
Command ==
    [name : {"want"}, want : Want]
        \cup [name : {"srccaps"}, offer : Offers]
        \cup [name : {"ask"}, kind : Asks]
        \cup [name : {"dr"}, answer : {"accept", "reject", "nosupport"}]
        \cup [name : {"pr"}, answer : {"accept", "reject"}]
        \cup [name : {"answer"}, answer : {"accept", "reject", "wait"}]
        \cup [name : {"keepalive"}, off : BOOLEAN]
        \cup [name : {"drswap", "prswap", "getcaps", "hardreset"}]

\* What usbc_request is called with.
DpmRequest == {"request", "drswap", "prswap", "getcaps", "hardreset", "srccaps", "recovery"} \cup Asks

\* The first PDO is the fixed vSafe5V one, as USB PD and the devicetree have it; the field of
\* a PPS range counts in 100 mV.
WellFormed(caps) ==
    /\ caps # <<>> /\ caps[1].kind = "fixed"
    /\ \A i \in DOMAIN caps : caps[i].kind = "pps" => caps[i].min % 100 = 0

ASSUME PdAssumption ==
    /\ Capabilities \subseteq Seq(Pdo) /\ Offers \subseteq Seq(Pdo) /\ SourcePdos \in Offers
    /\ \A caps \in Capabilities \cup Offers : WellFormed(caps)
    /\ Requests \subseteq Rdo
    /\ Scripts \subseteq Seq(Command)
    /\ SAFE_MA \in Nat /\ CABLE_MA \in Nat
    /\ QueueDepth \in Nat \ {0} /\ MaxAttaches \in Nat /\ MaxFaults \in Nat
    /\ MaxRejects \in Nat

VARIABLES
    \* the roles
    attached, source, dfp,
    \* as a sink: the partner's caps, the host's choice, the last Request, the contract
    src_caps, want, sent, contract, agreed, refresh, rejects,
    \* the keep-alive: its timer, the work item, the host's switch
    armed, work, keepalive_off,
    \* swaps; overtaken is history: the host's PR_Swap lost its window before it was queued,
    \* or took back that of another
    drs_pending, prs_pending, awaiting, swap_open, partner_swap, overtaken,
    \* pd ask; ask_crossed is history: an answer was still to be given as the semaphore was reset
    ask, ask_got, ask_sem, ask_crossed,
    \* as a source: the offer, the caps last sent, the Request accepted, the contract
    offer, sent_caps, req, src_contract, src_agreed,
    \* the host: its answers, what it will still type, where the shell is
    dr_answer, pr_answer, req_answer, script, shell,
    \* the stack: Policy Engine, its role, where it is in a callback, its request queue
    pe, psrc, call, queue,
    \* whether a partner terminates CC; attaches and faults so far; alone is history: the last
    \* `pd drswap' was typed with no partner attached
    present, attaches, faults, alone

roleVars == <<attached, source, dfp>>
sinkVars == <<src_caps, want, sent, contract, agreed, refresh, rejects>>
workVars == <<armed, work, keepalive_off>>
swapVars == <<drs_pending, prs_pending, awaiting, swap_open, partner_swap, overtaken>>
askVars == <<ask, ask_got, ask_sem, ask_crossed>>
srcVars == <<offer, sent_caps, req, src_contract, src_agreed>>
hostVars == <<dr_answer, pr_answer, req_answer, script, shell>>
stackVars == <<pe, psrc, call, queue>>
lineVars == <<present, attaches, faults, alone>>
vars == <<roleVars, sinkVars, workVars, swapVars, askVars, srcVars, hostVars, stackVars, lineVars>>

NoPdo == [kind |-> "fixed", min |-> 0, max |-> 0, ma |-> 0]
Lesser(a, b) == IF a <= b THEN a ELSE b

----------------------------------------------------------------------------
(* Choosing and judging a Request.                                         *)

\* A field counts in steps: what lies between two is rounded down.
Steps(x, step) == step * (x \div step)

rdo_fixed(pos, ma) == [pos |-> pos, mv |-> 0, ma |-> Steps(ma, 10)]
rdo_pps(pos, mv, ma) == [pos |-> pos, mv |-> Steps(mv, 20), ma |-> Steps(ma, 50)]
NoRequest == [rdo |-> rdo_fixed(1, 0), pdo |-> NoPdo]

fixed_positions(caps) == {i \in DOMAIN caps : caps[i].kind = "fixed"}
fixed_power(pdo) == (pdo.max * Lesser(pdo.ma, CABLE_MA)) \div 1000

\* The highest power fixed PDO, at most what a cable carries; the first of equals.
rdo_max_locked(caps) ==
    IF fixed_positions(caps) = {}
    THEN {rdo_fixed(1, SAFE_MA)}
    ELSE {rdo_fixed(i, Lesser(caps[i].ma, CABLE_MA)) :
            i \in {k \in fixed_positions(caps) : \A j \in fixed_positions(caps) :
                     \/ fixed_power(caps[j]) < fixed_power(caps[k])
                     \/ fixed_power(caps[j]) = fixed_power(caps[k]) /\ k <= j}}

\* The RDO for a choice against the caps held; none when the choice is not valid.
rdo_for_locked(w, caps) ==
    IF caps = <<>> THEN {}
    ELSE IF w.kind = "max" THEN rdo_max_locked(caps)
    ELSE IF w.pos \notin DOMAIN caps THEN {}
    ELSE LET pdo == caps[w.pos] IN
         IF w.kind # pdo.kind \/ w.ma > pdo.ma THEN {}
         ELSE IF w.kind = "fixed"
              THEN {rdo_fixed(w.pos, IF w.ma > 0 THEN w.ma ELSE Lesser(pdo.ma, CABLE_MA))}
              ELSE IF w.mv \in pdo.min..pdo.max
                   THEN {rdo_pps(w.pos, w.mv, w.ma)}
                   ELSE {}

\* Mutant: the PDO at the contract's position is not compared.
repeats_any == refresh /\ contract /\ agreed.rdo.pos \in DOMAIN src_caps

\* What the stack asks a source for: the contract again, the choice, or vSafe5V.
repeats ==
    /\ refresh /\ contract
    /\ agreed.rdo.pos \in DOMAIN src_caps
    /\ src_caps[agreed.rdo.pos] = agreed.pdo

safe_rdo == rdo_fixed(1, IF src_caps = <<>> THEN SAFE_MA ELSE Lesser(SAFE_MA, src_caps[1].ma))

rdo_choices ==
    LET chosen == IF repeats THEN {agreed.rdo} ELSE rdo_for_locked(want, src_caps)
    IN IF chosen = {} THEN {safe_rdo} ELSE chosen

\* The PDO kept with a Request; past the caps held, whatever earlier ones left in the array.
pdos_at(pos) ==
    IF pos \in DOMAIN src_caps THEN {src_caps[pos]}
    ELSE {NoPdo} \cup {caps[pos] : caps \in {c \in Capabilities : pos \in DOMAIN c}}

policy_get_rdo ==
    /\ \E rdo \in rdo_choices : \E pdo \in pdos_at(rdo.pos) : sent' = [rdo |-> rdo, pdo |-> pdo]
    /\ refresh' = FALSE
    /\ UNCHANGED <<src_caps, want, contract, agreed, rejects>>

\* A Request is for a fixed PDO, within its current.
request_fits(caps, rdo) ==
    /\ rdo.pos \in DOMAIN caps
    /\ caps[rdo.pos].kind = "fixed"
    /\ rdo.ma <= caps[rdo.pos].ma

----------------------------------------------------------------------------
(* Sections under the lock that several callers share.                     *)

\* Mutant: a full queue is not noticed.
usbc_request_unbounded(r) == queue' = Append(queue, r)

\* Queued, or refused when the queue is full.
usbc_request(r) == queue' = IF Len(queue) < QueueDepth THEN Append(queue, r) ELSE queue

contract_end ==
    /\ contract' = FALSE /\ refresh' = FALSE /\ armed' = FALSE
    /\ UNCHANGED <<src_caps, want, sent, agreed, rejects, work, keepalive_off>>

\* The window of a PR_Swap closes; the one the shell is about to queue loses its own.
close_window == swap_open' = FALSE /\ overtaken' = (overtaken \/ shell = "prswap")
keep_window == UNCHANGED <<swap_open, overtaken>>

\* The partner is gone: forget what it told the bench (contract_end follows).
detach ==
    /\ attached' = FALSE /\ source' = FALSE /\ dfp' = FALSE
    /\ drs_pending' = FALSE /\ prs_pending' = FALSE
    /\ close_window /\ partner_swap' = FALSE
    /\ src_caps' = <<>> /\ src_contract' = FALSE
    /\ UNCHANGED <<want, sent, contract, agreed, refresh, rejects, awaiting, offer,
                   sent_caps, req, src_agreed>>

\* The stack starts the Policy Engine in a power role.
role_set(is_source) ==
    LET swapped == attached /\ is_source # source IN
    /\ attached' = TRUE
    /\ dfp' = IF attached THEN dfp ELSE is_source
    /\ partner_swap' = (partner_swap /\ ~swapped)
    /\ prs_pending' = (prs_pending /\ (partner_swap \/ ~swapped))
    /\ close_window
    /\ source' = is_source
    /\ src_caps' = IF is_source THEN <<>> ELSE src_caps
    /\ src_contract' = (src_contract /\ is_source)
    /\ call' = IF is_source THEN "end" ELSE "none"
    /\ UNCHANGED <<want, sent, contract, agreed, refresh, rejects, workVars, drs_pending,
                   awaiting, askVars, offer, sent_caps, req, src_agreed, hostVars, queue>>

\* A PR_Swap under way ends in a reset or ErrorRecovery.
swap_failed_locked ==
    /\ close_window
    /\ partner_swap' = (partner_swap /\ ~swap_open)
    /\ prs_pending' = (prs_pending /\ ~swap_open)
    /\ UNCHANGED <<drs_pending, awaiting>>

\* A Reject or Not_Supported: it answers the swap sent last that still waits, if any.
answers_swap == (awaiting = "pr" /\ prs_pending) \/ drs_pending

swap_answered_locked ==
    LET pr == awaiting = "pr" /\ prs_pending IN
    /\ prs_pending' = (prs_pending /\ ~pr)
    /\ IF pr THEN close_window ELSE keep_window
    /\ drs_pending' = (drs_pending /\ pr)
    /\ UNCHANGED <<awaiting, partner_swap>>

\* MSG_REJECTED_RECEIVED: a Reject that answers no swap is a Request's.
rejected ==
    /\ rejects < MaxRejects
    /\ swap_answered_locked
    /\ rejects' = IF answers_swap THEN rejects ELSE rejects + 1

\* VBUS goes off: POWER_CHANGE_0A0 of a sink, policy_src_en(false) of a source.
vbus_lost(sourcing) ==
    call' = IF sourcing /\ ~(attached /\ source) THEN "none"
            ELSE IF ~swap_open THEN "detach"
            ELSE IF sourcing THEN "look_source" ELSE "look_sink"

----------------------------------------------------------------------------
(* The stack's thread, inside a callback.                                  *)

\* The second half of swapping(): does a partner still terminate CC?
partner_present ==
    /\ call \in {"look_source", "look_sink"}
    /\ call' = IF ~present THEN "detach" ELSE IF call = "look_sink" THEN "end" ELSE "none"
    /\ UNCHANGED <<roleVars, sinkVars, workVars, swapVars, askVars, srcVars, hostVars,
                   pe, psrc, queue, lineVars>>

Detach ==
    /\ call = "detach"
    /\ detach
    /\ call' = "end"
    /\ UNCHANGED <<workVars, askVars, hostVars, pe, psrc, queue, lineVars>>

ContractEnd ==
    /\ call = "end"
    /\ contract_end
    /\ call' = "none"
    /\ UNCHANGED <<roleVars, swapVars, askVars, srcVars, hostVars, pe, psrc, queue, lineVars>>

AskGive ==
    /\ call = "give"
    /\ ask_sem' = 1 /\ call' = "none"
    /\ UNCHANGED <<roleVars, sinkVars, workVars, swapVars, ask, ask_got, ask_crossed, srcVars,
                   hostVars, pe, psrc, queue, lineVars>>

\* The keep-alive waits for its next turn from the moment a contract comes in force.
Reschedule ==
    /\ call = "arm"
    /\ armed' = TRUE /\ call' = "none"
    /\ UNCHANGED <<roleVars, sinkVars, work, keepalive_off, swapVars, askVars, srcVars,
                   hostVars, pe, psrc, queue, lineVars>>

----------------------------------------------------------------------------
(* The stack's thread, as a sink.                                          *)

\* The stack looks at its queue in every cycle, before it runs its machines.
Idle(states) == call = "none" /\ queue = <<>> /\ pe \in states

Attach(is_source) ==
    /\ Idle({"off"}) /\ attaches < MaxAttaches
    /\ attaches' = attaches + 1 /\ present' = TRUE /\ UNCHANGED <<faults, alone>>
    /\ pe' = "start" /\ psrc' = is_source
    /\ role_set(is_source)

policy_set_src_cap(caps) ==
    /\ Idle({"start", "ready"}) /\ ~psrc
    /\ src_caps' = caps
    /\ pe' = "select"
    /\ UNCHANGED <<roleVars, want, sent, contract, agreed, refresh, rejects, workVars, swapVars,
                   askVars, srcVars, hostVars, psrc, call, queue, lineVars>>

SelectCapability ==
    /\ Idle({"select"})
    /\ policy_get_rdo
    /\ pe' = "request"
    /\ UNCHANGED <<roleVars, workVars, swapVars, askVars, srcVars, hostVars, psrc, call, queue,
                   lineVars>>

\* Accept; or Wait, after which the stack repeats the Request.
RequestAnswered ==
    /\ Idle({"request"})
    /\ pe' \in {"transition", "select"}
    /\ UNCHANGED <<roleVars, sinkVars, workVars, swapVars, askVars, srcVars, hostVars,
                   psrc, call, queue, lineVars>>

\* The source rejects the Request: the contract stays as it was.
RequestRejected ==
    /\ Idle({"request"})
    /\ rejected
    /\ pe' = IF contract THEN "ready" ELSE "start"
    /\ UNCHANGED <<roleVars, src_caps, want, sent, contract, agreed, refresh, workVars, askVars,
                   srcVars, hostVars, psrc, call, queue, lineVars>>

\* TRANSITION_PS: the Request is in force, as the role the bench believes it has.
TransitionPs ==
    /\ Idle({"transition", "supply"})
    /\ IF source
       THEN /\ src_contract' = TRUE /\ src_agreed' = req
            /\ UNCHANGED <<sinkVars, call>>
       ELSE /\ contract' = TRUE /\ agreed' = sent /\ call' = "arm"
            /\ UNCHANGED <<src_caps, want, sent, refresh, rejects, src_contract, src_agreed>>
    /\ pe' = "ready"
    /\ UNCHANGED <<roleVars, workVars, swapVars, askVars, offer, sent_caps, req, hostVars,
                   psrc, queue, lineVars>>

----------------------------------------------------------------------------
(* The stack's thread, as a source.                                        *)

\* The stack sends Source_Capabilities: as it starts, or for REQUEST_PE_SEND_SRC_CAPS.
policy_get_src_caps ==
    /\ sent_caps' = offer
    /\ UNCHANGED <<offer, req, src_contract, src_agreed>>

SendCaps ==
    /\ Idle({"start"}) /\ psrc
    /\ policy_get_src_caps
    /\ pe' = "srccaps"
    /\ UNCHANGED <<roleVars, sinkVars, workVars, swapVars, askVars, hostVars, psrc, call, queue,
                   lineVars>>

\* Mutant: the Request is held against the offer of now.
accepts_offer(rdo) == req_answer = "accept" /\ request_fits(offer, rdo)

\* The host's answer, but never Accept for more than the caps sent offer.
accepts(rdo) == req_answer = "accept" /\ request_fits(sent_caps, rdo)

policy_check_sink_request(rdo) ==
    /\ Idle({"srccaps", "ready"}) /\ psrc
    /\ req' = IF accepts(rdo) THEN [rdo |-> rdo, pdo |-> sent_caps[rdo.pos]] ELSE req
    /\ pe' = IF accepts(rdo) THEN "supply"
             ELSE IF ~src_contract THEN "refused"
             ELSE IF request_fits(offer, src_agreed.rdo) THEN "ready"   \* present_contract_is_valid
             ELSE "reset"
    /\ UNCHANGED <<roleVars, sinkVars, workVars, swapVars, askVars, offer, sent_caps,
                   src_contract, src_agreed, hostVars, psrc, call, queue, lineVars>>

----------------------------------------------------------------------------
(* The stack's thread: swaps, resets and the requests it is given.         *)

\* It takes the next request and acts on it, or drops it.
ActsOn(r) ==
    \/ r \in {"drswap", "prswap", "hardreset"} \cup Asks /\ pe = "ready"
    \/ r \in {"request", "getcaps"} /\ pe = "ready" /\ ~psrc
    \/ r = "srccaps" /\ pe \in {"ready", "refused"} /\ psrc
    \/ r = "recovery" /\ pe \notin {"off", "failed", "crossed"}

TakeRequest ==
    /\ call = "none" /\ queue # <<>>
    /\ queue' = Tail(queue)
    /\ LET r == Head(queue) IN
       /\ pe' = IF ~ActsOn(r) THEN pe ELSE
                CASE r = "getcaps" -> pe
                  [] r = "hardreset" -> "reset"
                  [] r = "recovery" -> IF pe = "power" THEN "crossed" ELSE "failed"
                  [] OTHER -> r
       /\ IF ActsOn(r) /\ r = "request"
          THEN policy_get_rdo /\ UNCHANGED srcVars
          ELSE IF ActsOn(r) /\ r = "srccaps"
          THEN policy_get_src_caps /\ UNCHANGED sinkVars
          ELSE UNCHANGED <<sinkVars, srcVars>>
    /\ UNCHANGED <<roleVars, workVars, swapVars, askVars, hostVars, psrc, call, lineVars>>

\* The partner answers a swap of the bench with Reject, Not_Supported, Wait or nothing.
SwapRefused ==
    /\ Idle({"drswap", "prswap"})
    /\ pe' = "ready"
    /\ \/ swap_answered_locked /\ UNCHANGED rejects
       \/ rejected
       \/ /\ UNCHANGED rejects
          /\ IF pe = "drswap"
             THEN drs_pending' = FALSE /\ keep_window /\ UNCHANGED prs_pending
             ELSE prs_pending' = FALSE /\ close_window /\ UNCHANGED drs_pending
          /\ UNCHANGED <<awaiting, partner_swap>>
       \/ LET pr == awaiting = "pr" /\ prs_pending IN
          /\ UNCHANGED rejects
          /\ prs_pending' = (prs_pending /\ ~pr)
          /\ IF pr THEN close_window ELSE keep_window
          /\ UNCHANGED <<drs_pending, awaiting, partner_swap>>
    /\ UNCHANGED <<roleVars, src_caps, want, sent, contract, agreed, refresh, workVars, askVars,
                   srcVars, hostVars, psrc, call, queue, lineVars>>

PrSwapAccepted ==
    /\ Idle({"prswap"})
    /\ pe' = "swap"
    /\ UNCHANGED <<roleVars, sinkVars, workVars, swapVars, askVars, srcVars, hostVars,
                   psrc, call, queue, lineVars>>

\* DATA_ROLE_IS_*: the bench's own DR_Swap, or the partner's the bench takes.
DataRole ==
    /\ \/ Idle({"drswap"})
       \/ Idle({"ready"}) /\ dr_answer = "accept"
    /\ dfp' = ~dfp /\ drs_pending' = FALSE
    /\ pe' = "ready"
    /\ UNCHANGED <<attached, source, sinkVars, workVars, prs_pending, awaiting, swap_open,
                   partner_swap, overtaken, askVars, srcVars, hostVars, psrc, call, queue, lineVars>>

\* Mutant: the window is left to the bench's own PR_Swap.
pr_swap_check_unguarded ==
    /\ Idle({"ready"}) /\ pr_answer = "accept"
    /\ partner_swap' = TRUE
    /\ pe' = "swap"
    /\ UNCHANGED <<roleVars, sinkVars, workVars, drs_pending, prs_pending, awaiting, swap_open,
                   overtaken, askVars, srcVars, hostVars, psrc, call, queue, lineVars>>

\* The partner's PR_Swap; taking the source role needs the supply as well (supply_ok).
pr_swap_check ==
    /\ Idle({"ready"}) /\ pr_answer = "accept"
    /\ partner_swap' = TRUE /\ swap_open' = TRUE
    /\ pe' = "swap"
    /\ UNCHANGED <<roleVars, sinkVars, workVars, drs_pending, prs_pending, awaiting, overtaken,
                   askVars, srcVars, hostVars, psrc, call, queue, lineVars>>

\* The old source turns its supply off: the bench hears VBUS go.
SwapVbusOff ==
    /\ Idle({"swap"})
    /\ vbus_lost(psrc)
    /\ pe' = "power"
    /\ UNCHANGED <<roleVars, sinkVars, workVars, swapVars, askVars, srcVars, hostVars,
                   psrc, queue, lineVars>>

\* The new source is on: the Policy Engine starts in the other role.
SwapDone ==
    /\ Idle({"power"})
    /\ pe' = "start" /\ psrc' = ~psrc
    /\ role_set(~psrc)
    /\ UNCHANGED lineVars

\* PROTOCOL_ERROR, on the way to ErrorRecovery; crossed: the supplies are already exchanged.
ProtocolError ==
    /\ call = "none" /\ queue = <<>> /\ pe \notin {"off", "failed", "crossed"}
    /\ swap_failed_locked
    /\ pe' = IF pe = "power" THEN "crossed" ELSE "failed"
    /\ UNCHANGED <<roleVars, sinkVars, workVars, askVars, srcVars, hostVars, psrc, call, queue,
                   lineVars>>

\* The port leaves Attached: for an error, or because the partner went.
Leave ==
    /\ call = "none" /\ queue = <<>>
    /\ pe \in {"failed", "crossed"} \/ (pe # "off" /\ ~present)
    /\ vbus_lost(IF pe \in {"power", "crossed"} THEN ~psrc ELSE psrc)
    /\ pe' = "off"
    /\ UNCHANGED <<roleVars, sinkVars, workVars, swapVars, askVars, srcVars, hostVars,
                   psrc, queue, lineVars>>

\* Hard Reset, sent or received.  A source turns VBUS off (src_hard_reset), and asks for
\* ErrorRecovery when it cannot.
HardReset ==
    /\ call = "none" /\ queue = <<>>
    /\ pe \notin {"off", "failed", "crossed", "power", "restart"}
    /\ swap_failed_locked
    /\ pe' = "restart"
    /\ IF psrc
       THEN /\ src_contract' = FALSE
            /\ UNCHANGED <<offer, sent_caps, req, src_agreed, call>>
            /\ UNCHANGED queue \/ usbc_request("recovery")
       ELSE call' = "end" /\ UNCHANGED <<srcVars, queue>>
    /\ UNCHANGED <<roleVars, sinkVars, workVars, askVars, hostVars, psrc, lineVars>>

\* VBUS is back (src_recovered): the Policy Engine starts again in its role.
Recovered ==
    /\ Idle({"restart"})
    /\ pe' = "start"
    /\ role_set(psrc)
    /\ UNCHANGED <<psrc, lineVars>>

\* The partner's information, or word that it sent none.
ask_answered(got) ==
    /\ Idle(Asks)
    /\ pe = "snkcaps" => got
    /\ IF ask = pe
       THEN ask' = "none" /\ ask_got' = got /\ call' = "give" /\ UNCHANGED <<ask_sem, ask_crossed>>
       ELSE UNCHANGED <<askVars, call>>
    /\ pe' = "ready"
    /\ UNCHANGED <<roleVars, sinkVars, workVars, swapVars, srcVars, hostVars, psrc, queue, lineVars>>

----------------------------------------------------------------------------
(* The work queue.                                                         *)

keepalive_handler ==
    /\ armed /\ work = "idle"
    /\ LET pps == contract /\ agreed.pdo.kind = "pps" /\ ~keepalive_off IN
       /\ refresh' = pps
       /\ work' = IF pps THEN "request" ELSE "idle"
    /\ armed' = FALSE
    /\ UNCHANGED <<roleVars, src_caps, want, sent, contract, agreed, rejects, keepalive_off,
                   swapVars, askVars, srcVars, hostVars, stackVars, lineVars>>

\* Mutant: a refused keep-alive is not tried again.
KeepaliveRequest_once ==
    /\ work = "request"
    /\ usbc_request("request")
    /\ armed' = (armed \/ Len(queue) < QueueDepth) /\ work' = "idle"
    /\ UNCHANGED <<roleVars, sinkVars, keepalive_off, swapVars, askVars, srcVars, hostVars,
                   pe, psrc, call, lineVars>>

\* Queued, and again in 8 s; or refused, and again in 100 ms.
KeepaliveRequest ==
    /\ work = "request"
    /\ usbc_request("request")
    /\ armed' = TRUE /\ work' = "idle"
    /\ UNCHANGED <<roleVars, sinkVars, keepalive_off, swapVars, askVars, srcVars, hostVars,
                   pe, psrc, call, lineVars>>

\* A TCPP03 fault opened both paths: start over from an unattached port.
tcpp_fault ==
    /\ faults < MaxFaults /\ faults' = faults + 1
    /\ usbc_request("recovery")
    /\ UNCHANGED <<roleVars, sinkVars, workVars, swapVars, askVars, srcVars, hostVars,
                   pe, psrc, call, present, attaches, alone>>

----------------------------------------------------------------------------
(* The shell.                                                              *)

\* The next command, with what the steps below leave alone.
Typed(name) == shell = "idle" /\ script # <<>> /\ Head(script).name = name
Arg == Head(script)
Done == script' = Tail(script) /\ shell' = "idle"
Then(r) == script' = Tail(script) /\ shell' = r

\* A choice is checked against the caps held now, then asked for at once.
want_set ==
    /\ Typed("want")
    /\ IF ~source /\ rdo_for_locked(Arg.want, src_caps) # {}
       THEN want' = Arg.want /\ Then("request")
       ELSE UNCHANGED want /\ Done
    /\ UNCHANGED <<roleVars, src_caps, sent, contract, agreed, refresh, rejects, workVars,
                   swapVars, askVars, srcVars, dr_answer, pr_answer, req_answer,
                   stackVars, lineVars>>

cmd_keepalive ==
    /\ Typed("keepalive")
    /\ keepalive_off' = Arg.off
    /\ IF Arg.off THEN Done ELSE Then("rearm")
    /\ UNCHANGED <<roleVars, sinkVars, armed, work, swapVars, askVars, srcVars, dr_answer, pr_answer,
                   req_answer, stackVars, lineVars>>

\* Turned on, the keep-alive starts over at once.
KeepaliveOn ==
    /\ shell = "rearm"
    /\ armed' = TRUE /\ shell' = "idle"
    /\ UNCHANGED <<roleVars, sinkVars, work, keepalive_off, swapVars, askVars, srcVars, dr_answer,
                   pr_answer, req_answer, script, stackVars, lineVars>>

\* Whether a partner is attached is not looked at.
cmd_drswap ==
    /\ Typed("drswap") /\ Then("drswap")
    /\ drs_pending' = TRUE /\ awaiting' = "dr" /\ alone' = ~attached
    /\ UNCHANGED <<roleVars, sinkVars, workVars, prs_pending, swap_open, partner_swap, overtaken,
                   askVars, srcVars, dr_answer, pr_answer, req_answer, stackVars, present,
                   attaches, faults>>

\* Mutant: whether a partner is attached is not looked at.
cmd_prswap_blind ==
    /\ Typed("prswap") /\ Then("prswap")
    /\ prs_pending' = TRUE /\ awaiting' = "pr" /\ swap_open' = TRUE
    /\ UNCHANGED <<roleVars, sinkVars, workVars, drs_pending, partner_swap, overtaken, askVars,
                   srcVars, dr_answer, pr_answer, req_answer, stackVars, lineVars>>

cmd_prswap ==
    /\ Typed("prswap")
    /\ IF attached
       THEN prs_pending' = TRUE /\ awaiting' = "pr" /\ swap_open' = TRUE /\ Then("prswap")
       ELSE UNCHANGED <<prs_pending, awaiting, swap_open>> /\ Done
    /\ UNCHANGED <<roleVars, sinkVars, workVars, drs_pending, partner_swap, overtaken, askVars,
                   srcVars, dr_answer, pr_answer, req_answer, stackVars, lineVars>>

\* How the bench answers a DR_Swap, a PR_Swap and a Request.
cmd_answers ==
    /\ \/ Typed("dr") /\ dr_answer' = Arg.answer /\ UNCHANGED <<pr_answer, req_answer>>
       \/ Typed("pr") /\ pr_answer' = Arg.answer /\ UNCHANGED <<dr_answer, req_answer>>
       \/ Typed("answer") /\ req_answer' = Arg.answer /\ UNCHANGED <<dr_answer, pr_answer>>
    /\ Done
    /\ UNCHANGED <<roleVars, sinkVars, workVars, swapVars, askVars, srcVars, stackVars, lineVars>>

cmd_srccaps ==
    /\ Typed("srccaps")
    /\ offer' = Arg.offer
    /\ IF attached /\ source THEN Then("srccaps") ELSE Done
    /\ UNCHANGED <<roleVars, sinkVars, workVars, swapVars, askVars, sent_caps, req, src_contract,
                   src_agreed, dr_answer, pr_answer, req_answer, stackVars, lineVars>>

\* pd getcaps and pd hardreset only queue their request.
cmd_send ==
    /\ \E name \in {"getcaps", "hardreset"} : Typed(name) /\ Then(name)
    /\ UNCHANGED <<roleVars, sinkVars, workVars, swapVars, askVars, srcVars, dr_answer, pr_answer,
                   req_answer, stackVars, lineVars>>

\* The roles are looked at in a section of their own.
cmd_ask ==
    /\ Typed("ask")
    /\ IF /\ attached
          /\ Arg.kind = "ppsstatus" => ~source
          /\ Arg.kind = "snkcaps" => source
       THEN shell' = "reset" /\ UNCHANGED script
       ELSE Done
    /\ UNCHANGED <<roleVars, sinkVars, workVars, swapVars, askVars, srcVars, dr_answer, pr_answer,
                   req_answer, stackVars, lineVars>>

\* Mutant: the semaphore keeps what an earlier command did not wait for.
AskReset_not ==
    /\ shell = "reset" /\ shell' = "asking"
    /\ ask_crossed' = (call = "give")
    /\ UNCHANGED <<roleVars, sinkVars, workVars, swapVars, ask, ask_got, ask_sem, srcVars, dr_answer,
                   pr_answer, req_answer, script, stackVars, lineVars>>

AskReset ==
    /\ shell = "reset" /\ shell' = "asking"
    /\ ask_sem' = 0 /\ ask_crossed' = (call = "give")
    /\ UNCHANGED <<roleVars, sinkVars, workVars, swapVars, ask, ask_got, srcVars, dr_answer,
                   pr_answer, req_answer, script, stackVars, lineVars>>

AskBegin ==
    /\ shell = "asking"
    /\ ask' = Arg.kind /\ Then(Arg.kind)
    /\ UNCHANGED <<roleVars, sinkVars, workVars, swapVars, ask_got, ask_sem, ask_crossed, srcVars,
                   dr_answer, pr_answer, req_answer, stackVars, lineVars>>

\* The command's request is queued; a refused ask or PR_Swap is taken back.
dpm_request ==
    /\ shell \in DpmRequest
    /\ usbc_request(shell)
    /\ LET full == Len(queue) = QueueDepth IN
       shell' = IF shell \in Asks THEN IF full THEN "forget" ELSE "wait"
                ELSE IF full /\ shell = "prswap" THEN "undo" ELSE "idle"
    /\ UNCHANGED <<roleVars, sinkVars, workVars, swapVars, askVars, srcVars, dr_answer, pr_answer,
                   req_answer, script, pe, psrc, call, lineVars>>

\* A PR_Swap on its way: asked for, sent, or in its power transition.
swap_under_way ==
    \/ pe \in {"prswap", "swap", "power"}
    \/ shell = "prswap"
    \/ \E i \in DOMAIN queue : queue[i] = "prswap"

PrSwapUndo ==
    /\ shell = "undo"
    /\ prs_pending' = FALSE /\ swap_open' = FALSE /\ shell' = "idle"
    /\ overtaken' = (overtaken \/ swap_under_way)
    /\ UNCHANGED <<roleVars, sinkVars, workVars, drs_pending, awaiting, partner_swap, askVars,
                   srcVars, dr_answer, pr_answer, req_answer, script, stackVars, lineVars>>

\* The wait for an answer ends: the semaphore was given, or ASK_TIMEOUT_MS are over.
AskWake ==
    /\ shell = "wait"
    /\ \/ ask_sem = 1 /\ ask_sem' = 0 /\ shell' = "answered"
       \/ ask_sem = 0 /\ shell' = "forget" /\ UNCHANGED ask_sem
    /\ UNCHANGED <<roleVars, sinkVars, workVars, swapVars, ask, ask_got, ask_crossed, srcVars,
                   dr_answer, pr_answer, req_answer, script, stackVars, lineVars>>

\* With a semaphore taken the command prints what ask_got says, else that no answer came.
AskForget ==
    /\ shell \in {"answered", "forget"}
    /\ ask' = "none" /\ shell' = "idle"
    /\ UNCHANGED <<roleVars, sinkVars, workVars, swapVars, ask_got, ask_sem, ask_crossed, srcVars,
                   dr_answer, pr_answer, req_answer, script, stackVars, lineVars>>

----------------------------------------------------------------------------
(* The line, and time.                                                     *)

Unplug ==
    /\ present /\ pe # "off"
    /\ present' = FALSE
    /\ UNCHANGED <<roleVars, sinkVars, workVars, swapVars, askVars, srcVars, hostVars, stackVars,
                   attaches, faults, alone>>

\* SWAP_WINDOW_MS end: a PR_Swap's AMS and power transition end well within them.
SwapWindowEnds ==
    /\ swap_open /\ ~swap_under_way
    /\ swap_open' = FALSE
    /\ UNCHANGED <<roleVars, sinkVars, workVars, drs_pending, prs_pending, awaiting, partner_swap,
                   overtaken, askVars, srcVars, hostVars, stackVars, lineVars>>

Init ==
    /\ attached = FALSE /\ source = FALSE /\ dfp = FALSE
    /\ src_caps = <<>> /\ want = [kind |-> "max", pos |-> 0, mv |-> 0, ma |-> 0]
    /\ sent = NoRequest /\ contract = FALSE /\ agreed = NoRequest /\ refresh = FALSE
    /\ rejects = 0
    /\ armed = FALSE /\ work = "idle" /\ keepalive_off = FALSE
    /\ drs_pending = FALSE /\ prs_pending = FALSE /\ awaiting = "none"
    /\ swap_open = FALSE /\ partner_swap = FALSE /\ overtaken = FALSE
    /\ ask = "none" /\ ask_got = FALSE /\ ask_sem = 0 /\ ask_crossed = FALSE
    /\ offer = SourcePdos /\ sent_caps = <<>> /\ req = NoRequest
    /\ src_contract = FALSE /\ src_agreed = NoRequest
    /\ dr_answer = "accept" /\ pr_answer = "accept" /\ req_answer = "accept"
    /\ script \in Scripts /\ shell = "idle"
    /\ pe = "off" /\ psrc = FALSE /\ call = "none" /\ queue = <<>>
    /\ present = FALSE /\ attaches = 0 /\ faults = 0 /\ alone = FALSE

Callback == partner_present \/ Detach \/ ContractEnd \/ AskGive \/ Reschedule

Sink ==
    \/ \E caps \in Capabilities : policy_set_src_cap(caps)
    \/ SelectCapability \/ RequestAnswered \/ RequestRejected

Source == SendCaps \/ \E rdo \in Requests : policy_check_sink_request(rdo)

Stack ==
    \/ \E is_source \in BOOLEAN : Attach(is_source)
    \/ TransitionPs \/ TakeRequest
    \/ SwapRefused \/ PrSwapAccepted \/ DataRole \/ pr_swap_check \/ SwapVbusOff \/ SwapDone
    \/ ProtocolError \/ Leave \/ HardReset \/ Recovered
    \/ \E got \in BOOLEAN : ask_answered(got)

Work == keepalive_handler \/ KeepaliveRequest \/ tcpp_fault

Shell ==
    \/ want_set \/ cmd_keepalive \/ KeepaliveOn \/ cmd_drswap \/ cmd_prswap \/ cmd_answers \/ cmd_srccaps
    \/ cmd_send \/ cmd_ask
    \/ AskReset \/ AskBegin \/ dpm_request \/ PrSwapUndo \/ AskWake \/ AskForget

Next == Callback \/ Sink \/ Source \/ Stack \/ Work \/ Shell \/ Unplug \/ SwapWindowEnds

Spec == Init /\ [][Next]_vars

----------------------------------------------------------------------------
(* Properties.                                                             *)

Agreement == [rdo : Rdo, pdo : Pdo]

\* Every variable holds a value of its type.
TypeOK ==
    /\ attached \in BOOLEAN /\ source \in BOOLEAN /\ dfp \in BOOLEAN
    /\ src_caps \in Capabilities \cup {<<>>} /\ want \in Want
    /\ sent \in Agreement /\ contract \in BOOLEAN /\ agreed \in Agreement
    /\ refresh \in BOOLEAN /\ rejects \in 0..MaxRejects
    /\ armed \in BOOLEAN /\ work \in {"idle", "request"} /\ keepalive_off \in BOOLEAN
    /\ drs_pending \in BOOLEAN /\ prs_pending \in BOOLEAN
    /\ awaiting \in {"none", "dr", "pr"}
    /\ swap_open \in BOOLEAN /\ partner_swap \in BOOLEAN /\ overtaken \in BOOLEAN
    /\ ask \in Asks \cup {"none"} /\ ask_got \in BOOLEAN /\ ask_sem \in 0..1
    /\ ask_crossed \in BOOLEAN
    /\ offer \in Offers /\ sent_caps \in Offers \cup {<<>>}
    /\ req \in Agreement /\ src_contract \in BOOLEAN /\ src_agreed \in Agreement
    /\ dr_answer \in {"accept", "reject", "nosupport"} /\ pr_answer \in {"accept", "reject"}
    /\ req_answer \in {"accept", "reject", "wait"}
    /\ script \in Seq(Command) /\ shell \in DpmRequest \cup {"idle", "wait", "answered",
                                                                 "forget", "undo", "rearm",
                                                                 "reset", "asking"}
    /\ pe \in {"off", "start", "select", "transition", "ready", "refused", "supply", "reset",
              "restart", "swap", "power", "failed", "crossed"} \cup DpmRequest
    /\ psrc \in BOOLEAN
    /\ call \in {"none", "look_source", "look_sink", "detach", "end", "give", "arm"}
    /\ queue \in Seq(DpmRequest) /\ Len(queue) <= QueueDepth
    /\ present \in BOOLEAN /\ attaches \in 0..MaxAttaches /\ faults \in 0..MaxFaults
    /\ alone \in BOOLEAN

\* What a Request asks for is what its PDO offers.
Offered(a) ==
    /\ a.rdo.ma <= a.pdo.ma
    /\ a.pdo.kind = "pps" => a.rdo.mv \in a.pdo.min..a.pdo.max

\* A Request on the wire names a PDO of the caps the source sent last and stays within it,
\* whatever the host chose, the keep-alive repeats or the source has changed since.
RequestNamesHeldPdo ==
    pe \in {"request", "transition"} =>
        /\ sent.rdo.pos \in DOMAIN src_caps
        /\ sent.pdo = src_caps[sent.rdo.pos]
        /\ Offered(sent)

\* A PPS contract in force is never left without its keep-alive, unless the host turned
\* it off: the timer runs, the handler does, or the stack or the shell is about to set it.
KeepaliveArmed ==
    contract /\ agreed.pdo.kind = "pps" /\ ~keepalive_off
        => armed \/ work = "request" \/ call = "arm" \/ shell = "rearm"

\* Of a partner that is gone nothing is left: no swap that was sent it waits, no window lets
\* the next VBUS loss pass for a swap, none of its caps are asked from, no contract is shown.
\* A DR_Swap can be pending with no partner, but only one the host typed after it had gone:
\* cmd_drswap does not look, and the next partner's Reject will pass for its answer.
PartnerForgotten ==
    /\ ~attached => /\ ~prs_pending /\ (drs_pending => alone)
                    /\ ~swap_open /\ ~partner_swap
                    /\ src_caps = <<>> /\ ~src_contract
                    /\ contract => call = "end"
    /\ refresh => contract

\* `pd ask' takes for its answer only what came after its question, whatever an earlier
\* command did not wait for.  One answer alone is beyond that: the one whose semaphore the
\* stack was still to give when the shell reset it.
AnswerIsTheAsked == shell = "answered" => ask = "none" \/ ask_crossed

\* While a PR_Swap moves VBUS, its window is open: the loss of VBUS is not taken for a
\* detach.  Two things only can have closed it: what ends a swap came between the two halves
\* of `pd prswap', or the bench took back a PR_Swap that could not be queued.
SwapIsCovered == pe = "swap" => swap_open \/ overtaken

\* As a source the bench has agreed to nothing the caps it sent did not offer, however
\* the host changes the offer meanwhile.
SourceContractFits ==
    /\ pe = "supply" => /\ request_fits(sent_caps, req.rdo)
                        /\ req.pdo = sent_caps[req.rdo.pos]
    /\ src_contract => src_agreed.rdo.ma <= src_agreed.pdo.ma /\ src_agreed.pdo.kind = "fixed"
=============================================================================
