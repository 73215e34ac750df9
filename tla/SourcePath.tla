----------------------------- MODULE SourcePath -----------------------------
(***************************************************************************)
(* The provider path of the DRP build: pd-bench/src/tcpp03.c and the        *)
(* functions of pd-bench/src/main.c that switch VBUS with it.  The USB-C    *)
(* stack's thread turns the source on and off and sleeps while it does; the *)
(* fault work of the system work queue, which runs before that thread       *)
(* whenever it can run at all, reads and clears faults under the same       *)
(* mutex.                                                                  *)
(*                                                                         *)
(* The TCPP03 is external: a control byte written whole, and a fault that   *)
(* opens both paths until the recovery word.  So is the stack, which is     *)
(* `tc': what it asked for last.  A poll of VBUS that goes on too long      *)
(* times out whenever VBUS is not there.  An I2C transfer may fail.         *)
(***************************************************************************)
EXTENDS Integers

CONSTANTS
    MaxFaults,      \* bound: faults
    MaxErrors       \* bound: I2C transfers that fail

ASSUME PathAssumption == MaxFaults \in Nat /\ MaxErrors \in Nat

VARIABLES
    ctrl,       \* the control byte: both paths open, idle (consumer closed), source, source_off
    latched,    \* the TCPP03 holds a fault: both paths are open whatever ctrl says
    vbus,       \* 0: under DISCHARGED_MV, 1: between, 2: at vSafe5V
    cn3,        \* the CN3 supply is at vSafe5V
    lock,       \* holder of the mutex
    at,         \* where the stack's thread is in source_on or source_off
    undoing,    \* it turns off because turning on failed
    ok,         \* what it will return is no error so far
    doing,      \* what the stack asked for: enable, disable, reset, recover
    tc,         \* the port: unattached, source, hardreset, error
    hr, due,    \* self.hr, and whether tSrcRecover is over
    recovery,   \* ErrorRecovery is requested
    fw, again,  \* the fault work, and whether it is submitted anew while it runs
    flagged,    \* what the work has read of the flags: fault, none or error
    faults,     \* self.faults
    \* history: faults that fell, an ErrorRecovery that could not be queued, failed transfers,
    \* and whether the last call was a source_off that returned 0
    fell, lost, errors, dark

chipVars == <<ctrl, latched>>
lineVars == <<vbus, cn3>>
callVars == <<at, undoing, ok, doing, dark>>
portVars == <<tc, hr, due, recovery, lost>>
workVars == <<fw, again, flagged, faults>>
vars == <<chipVars, lineVars, lock, callVars, portVars, workVars, fell, errors>>

Holders == {"none", "stack", "work"}

----------------------------------------------------------------------------
(* The TCPP03.                                                             *)

\* One byte, written whole; CTRL_OPEN is the recovery word as well.
ctrl_write(val) ==
    /\ ctrl' = val
    /\ latched' = (latched /\ val # "open")
    /\ UNCHANGED errors

i2c_fails == errors < MaxErrors /\ errors' = errors + 1

\* VBUS follows what is closed onto it.
provided == ctrl = "source" /\ ~latched /\ cn3

Vbus ==
    /\ IF provided THEN vbus < 2 /\ vbus' = vbus + 1 ELSE vbus > 0 /\ vbus' = vbus - 1
    /\ UNCHANGED <<chipVars, cn3, lock, callVars, portVars, workVars, fell, errors>>

Supply ==
    /\ cn3' = ~cn3
    /\ UNCHANGED <<chipVars, vbus, lock, callVars, portVars, workVars, fell, errors>>

\* A fault falls: FLGn goes active, and its edge submits the work (flg_isr).
Fault ==
    /\ ~latched /\ fell < MaxFaults
    /\ latched' = TRUE /\ fell' = fell + 1
    /\ IF fw = "idle" THEN fw' = "lock" /\ UNCHANGED again ELSE again' = TRUE /\ UNCHANGED fw
    /\ UNCHANGED <<ctrl, lineVars, lock, callVars, portVars, flagged, faults, errors>>

----------------------------------------------------------------------------
(* The fault work.                                                         *)

\* It can go on at once: the stack's thread, of lower priority, has to wait.
work_first == fw = "report" \/ (fw = "lock" /\ lock = "none")

\* The request is queued, or the stack's queue is full and it is lost.
usbc_recovery ==
    \/ recovery' = TRUE /\ UNCHANGED lost
    \/ lost' = TRUE /\ UNCHANGED recovery

WorkLock ==
    /\ fw = "lock" /\ lock = "none"
    /\ lock' = "work" /\ fw' = "read"
    /\ UNCHANGED <<chipVars, lineVars, callVars, portVars, again, flagged, faults, fell, errors>>

WorkRead ==
    /\ fw = "read"
    /\ \/ /\ flagged' = IF latched THEN "fault" ELSE "none"
          /\ fw' = IF latched THEN "open" ELSE "unlock"
          /\ UNCHANGED errors
       \/ /\ i2c_fails
          /\ flagged' = "error" /\ fw' = "unlock"
    /\ UNCHANGED <<chipVars, lineVars, lock, callVars, portVars, again, faults, fell>>

\* The recovery word, then idle; what fails first ends it.
WorkClear ==
    /\ fw \in {"open", "idle_write"}
    /\ \/ /\ ctrl_write(IF fw = "open" THEN "open" ELSE "idle")
          /\ fw' = IF fw = "open" THEN "idle_write" ELSE "unlock"
          /\ UNCHANGED flagged
       \/ i2c_fails /\ flagged' = "error" /\ fw' = "unlock" /\ UNCHANGED chipVars
    /\ UNCHANGED <<lineVars, lock, callVars, portVars, again, faults, fell>>

WorkUnlock ==
    /\ fw = "unlock"
    /\ lock' = "none" /\ fw' = "report"
    /\ UNCHANGED <<chipVars, lineVars, callVars, portVars, again, flagged, faults, fell, errors>>

\* Mutant: flags that could not be read are taken for no fault.
WorkReport_unread ==
    /\ fw = "report"
    /\ IF flagged = "fault"
       THEN faults' = faults + 1 /\ usbc_recovery
       ELSE UNCHANGED <<faults, recovery, lost>>
    /\ fw' = (IF again THEN "lock" ELSE "idle") /\ again' = FALSE
    /\ UNCHANGED <<chipVars, lineVars, lock, callVars, tc, hr, due, flagged, fell, errors>>

\* Mutant: the work is submitted again when the flags could not be read.
WorkReport_retries ==
    /\ fw = "report"
    /\ IF flagged = "none"
       THEN UNCHANGED <<faults, recovery, lost>>
       ELSE faults' = faults + 1 /\ usbc_recovery
    /\ fw' = (IF again \/ flagged = "error" THEN "lock" ELSE "idle") /\ again' = FALSE
    /\ UNCHANGED <<chipVars, lineVars, lock, callVars, tc, hr, due, flagged, fell, errors>>

\* FLGn without a fault flag is only logged; otherwise tcpp_fault counts and asks for
\* ErrorRecovery.
WorkReport ==
    /\ fw = "report"
    /\ IF flagged = "none"
       THEN UNCHANGED <<faults, recovery, lost>>
       ELSE faults' = faults + 1 /\ usbc_recovery
    /\ fw' = (IF again THEN "lock" ELSE "idle") /\ again' = FALSE
    /\ UNCHANGED <<chipVars, lineVars, lock, callVars, tc, hr, due, flagged, fell, errors>>

fault_handler == WorkLock \/ WorkRead \/ WorkClear \/ WorkUnlock \/ WorkReport

----------------------------------------------------------------------------
(* The stack's thread: source_on.                                          *)

At(where) == at = where /\ ~work_first

\* Mutant: a Hard Reset whose VBUS did not go off asks for nothing.
Return_unasked(result) ==
    /\ at' = "idle" /\ undoing' = FALSE /\ ok' = TRUE /\ doing' = "none"
    /\ dark' = (result /\ doing \in {"disable", "reset"})
    /\ tc' = CASE doing = "enable" -> IF result THEN "source" ELSE "error"
               [] doing = "disable" -> "unattached"
               [] doing = "reset" -> "hardreset"
               [] doing = "recover" -> IF result THEN "source" ELSE tc
    /\ IF doing \in {"reset", "recover"}
       THEN hr' = IF ~result THEN "failed" ELSE IF doing = "reset" THEN "recover" ELSE "none"
       ELSE UNCHANGED hr
    /\ due' = (due /\ doing # "reset")
    /\ UNCHANGED <<recovery, lost>>

\* What the caller makes of the result.
Return(result) ==
    /\ at' = "idle" /\ undoing' = FALSE /\ ok' = TRUE /\ doing' = "none"
    /\ dark' = (result /\ doing \in {"disable", "reset"})
    /\ CASE doing = "enable" ->
              tc' = (IF result THEN "source" ELSE "error") /\ UNCHANGED <<hr, due, recovery, lost>>
         [] doing = "disable" ->
              tc' = "unattached" /\ UNCHANGED <<hr, due, recovery, lost>>
         [] doing = "reset" ->
              /\ tc' = "hardreset"
              /\ IF result THEN hr' = "recover" /\ due' = FALSE /\ UNCHANGED <<recovery, lost>>
                           ELSE hr' = "failed" /\ usbc_recovery /\ UNCHANGED due
         [] doing = "recover" ->
              IF result THEN tc' = "source" /\ hr' = "none" /\ UNCHANGED <<due, recovery, lost>>
                        ELSE hr' = "failed" /\ usbc_recovery /\ UNCHANGED <<tc, due>>

\* Only with CN3 at vSafe5V.
supply_ok ==
    /\ At("supply")
    /\ IF cn3 THEN at' = "lock" /\ UNCHANGED <<undoing, ok, doing, dark, portVars>>
              ELSE Return(FALSE)
    /\ UNCHANGED <<chipVars, lineVars, lock, workVars, fell, errors>>

\* Mutant: the two writes are not made under the mutex.
SourceLock_unlocked ==
    /\ At("lock") /\ at' = "open"
    /\ UNCHANGED <<chipVars, lineVars, lock, undoing, ok, doing, dark, portVars, workVars, fell,
                   errors>>

SourceLock ==
    /\ At("lock") /\ lock = "none"
    /\ lock' = "stack" /\ at' = "open"
    /\ UNCHANGED <<chipVars, lineVars, undoing, ok, doing, dark, portVars, workVars, fell, errors>>

\* tcpp03_source(true): the consumer path opens, GATE_SWAP_MS, the provider path closes.
OpenPaths ==
    /\ At("open")
    /\ \/ ctrl_write("open") /\ at' = "gate" /\ UNCHANGED <<lock, undoing>>
       \/ i2c_fails /\ at' = "off" /\ undoing' = TRUE /\ lock' = "none" /\ UNCHANGED chipVars
    /\ UNCHANGED <<lineVars, ok, doing, dark, portVars, workVars, fell>>

CloseProvider ==
    /\ At("gate")
    /\ \/ ctrl_write("source") /\ at' = "poll_on" /\ UNCHANGED undoing
       \/ i2c_fails /\ at' = "off" /\ undoing' = TRUE /\ UNCHANGED chipVars
    /\ lock' = "none"
    /\ UNCHANGED <<lineVars, ok, doing, dark, portVars, workVars, fell>>

\* VBUS is there, or TC_T_VBUS_ON_MAX_MS are over.
VbusOn ==
    /\ At("poll_on")
    /\ IF vbus = 2
       THEN Return(TRUE)
       ELSE at' = "off" /\ undoing' = TRUE /\ UNCHANGED <<ok, doing, dark, portVars>>
    /\ UNCHANGED <<chipVars, lineVars, lock, workVars, fell, errors>>

----------------------------------------------------------------------------
(* The stack's thread: source_off.                                         *)

SourceOff ==
    /\ At("off") /\ lock = "none"
    /\ \/ ctrl_write("source_off") /\ at' = "poll_off" /\ UNCHANGED ok
       \/ i2c_fails /\ at' = "idle_write" /\ ok' = FALSE /\ UNCHANGED chipVars
    /\ UNCHANGED <<lineVars, lock, undoing, doing, dark, portVars, workVars, fell>>

\* Mutant: VBUS that stays is no error.
Discharged_untimed ==
    /\ At("poll_off")
    /\ at' = "idle_write"
    /\ UNCHANGED <<chipVars, lineVars, lock, undoing, ok, doing, dark, portVars, workVars, fell,
                   errors>>

\* VBUS is discharged, or PD_T_SAFE_0V_MAX_MS are over.
Discharged ==
    /\ At("poll_off")
    /\ at' = "idle_write" /\ ok' = (vbus = 0)
    /\ UNCHANGED <<chipVars, lineVars, lock, undoing, doing, dark, portVars, workVars, fell, errors>>

tcpp03_idle ==
    /\ At("idle_write") /\ lock = "none"
    /\ \/ ctrl_write("idle") /\ Return(ok /\ ~undoing)
       \/ i2c_fails /\ Return(FALSE) /\ UNCHANGED chipVars
    /\ UNCHANGED <<lineVars, lock, workVars, fell>>

----------------------------------------------------------------------------
(* What the stack calls; it looks at what was requested of it first.        *)

Call(what, where) ==
    /\ At("idle")
    /\ doing' = what /\ at' = where /\ dark' = FALSE
    /\ UNCHANGED <<chipVars, lineVars, lock, undoing, ok, hr, due, lost, workVars, fell, errors>>

\* policy_src_en(true): an attach as source, or a PR_Swap to source.
Enable ==
    /\ tc = "unattached" /\ ~recovery
    /\ Call("enable", "supply")
    /\ UNCHANGED <<tc, recovery>>

\* policy_src_en(false): a detach, a PR_Swap to sink, an ErrorRecovery.
Disable ==
    /\ tc \in {"source", "hardreset", "error"}
    /\ Call("disable", "off")
    /\ recovery' = FALSE /\ UNCHANGED tc

\* ErrorRecovery of a port that sources nothing.
RecoverUnattached ==
    /\ At("idle") /\ tc = "unattached" /\ recovery
    /\ recovery' = FALSE
    /\ UNCHANGED <<chipVars, lineVars, lock, callVars, tc, hr, due, lost, workVars, fell, errors>>

src_hard_reset ==
    /\ tc = "source" /\ ~recovery
    /\ Call("reset", "off")
    /\ UNCHANGED <<tc, recovery>>

src_recovered ==
    /\ tc = "hardreset" /\ hr = "recover" /\ due /\ ~recovery
    /\ Call("recover", "supply")
    /\ UNCHANGED <<tc, recovery>>

\* tSrcRecover is over.
RecoverTime ==
    /\ hr = "recover" /\ ~due
    /\ due' = TRUE
    /\ UNCHANGED <<chipVars, lineVars, lock, callVars, tc, hr, recovery, lost, workVars, fell, errors>>

Init ==
    /\ ctrl = "idle" /\ latched = FALSE
    /\ vbus = 0 /\ cn3 \in BOOLEAN
    /\ lock = "none"
    /\ at = "idle" /\ undoing = FALSE /\ ok = TRUE /\ doing = "none" /\ dark = FALSE
    /\ tc = "unattached" /\ hr = "none" /\ due = FALSE /\ recovery = FALSE /\ lost = FALSE
    /\ fw = "idle" /\ again = FALSE /\ flagged = "none" /\ faults = 0
    /\ fell = 0 /\ errors = 0

\* What the thread does without being told.
Switching ==
    \/ supply_ok \/ SourceLock \/ OpenPaths \/ CloseProvider \/ VbusOn
    \/ SourceOff \/ Discharged \/ tcpp03_idle

Requested == Enable \/ Disable \/ RecoverUnattached \/ src_hard_reset \/ src_recovered

Next == Vbus \/ Supply \/ Fault \/ fault_handler \/ Switching \/ Requested \/ RecoverTime

\* The stack acts on a request for ErrorRecovery and asks whether VBUS has recovered.
Spec ==
    /\ Init /\ [][Next]_vars
    /\ WF_vars(fault_handler) /\ WF_vars(Switching) /\ WF_vars(RecoverTime)
    /\ WF_vars(recovery /\ (Disable \/ RecoverUnattached))
    /\ WF_vars(src_recovered) /\ WF_vars(tc = "error" /\ Disable)

----------------------------------------------------------------------------
(* Properties.                                                             *)

\* Every variable holds a value of its type, and no more faults are counted than can fall.
TypeOK ==
    /\ ctrl \in {"open", "idle", "source", "source_off"} /\ latched \in BOOLEAN
    /\ vbus \in 0..2 /\ cn3 \in BOOLEAN /\ lock \in Holders
    /\ at \in {"idle", "supply", "lock", "open", "gate", "poll_on", "off", "poll_off",
               "idle_write"}
    /\ undoing \in BOOLEAN /\ ok \in BOOLEAN /\ dark \in BOOLEAN
    /\ doing \in {"none", "enable", "disable", "reset", "recover"}
    /\ tc \in {"unattached", "source", "hardreset", "error"}
    /\ hr \in {"none", "recover", "failed"} /\ due \in BOOLEAN
    /\ recovery \in BOOLEAN /\ lost \in BOOLEAN
    /\ fw \in {"idle", "lock", "read", "open", "idle_write", "unlock", "report"}
    /\ again \in BOOLEAN /\ flagged \in {"none", "fault", "error"}
    /\ faults \in 0..MaxFaults /\ fell \in 0..MaxFaults /\ errors \in 0..MaxErrors

\* The provider path closes only onto two open paths, the TCPP03 refuses both closed,
\* whatever the fault work writes meanwhile.
GateSwap == [][ctrl' = "source" => ctrl = "open" \/ UNCHANGED ctrl]_vars

\* Once source_off has returned 0, VBUS is and stays at vSafe0V until the stack calls again:
\* through a detach, and for all of tSrcRecover after a Hard Reset, faults or not.
VbusStaysOff ==
    dark => /\ vbus = 0 /\ ctrl # "source"

\* A fault that has opened the path under a sourcing port is never forgotten, by whatever I2C
\* transfer that fails: the work that will find it is due, or ErrorRecovery is requested or
\* could not be queued.
FaultIsOwed ==
    latched /\ tc = "source" /\ at = "idle" => fw # "idle" \/ recovery \/ lost

\* Nor is a Hard Reset: the stack waits for VBUS to be turned on again, or ErrorRecovery is
\* requested or could not be queued.
ResetIsOwed ==
    tc = "hardreset" /\ at = "idle" => hr = "recover" \/ recovery \/ lost

\* Neither trouble is ever left with nothing under way to end it.
TroubleIsOwed == FaultIsOwed /\ ResetIsOwed

\* A fault that opens the path under a sourcing port ends its attach, unless
\* ErrorRecovery could not be queued.
FaultEndsAttach == (latched /\ tc = "source" /\ at = "idle") ~> (tc = "unattached" \/ lost)

\* A Hard Reset comes to an end: VBUS back, or the attach over.
HardResetEnds == (tc = "hardreset") ~> (tc \in {"source", "unattached"} \/ lost)

\* Either trouble does end.
TroubleEnds == FaultEndsAttach /\ HardResetEnds
=============================================================================
