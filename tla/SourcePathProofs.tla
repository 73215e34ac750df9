-------------------------- MODULE SourcePathProofs --------------------------
(***************************************************************************)
(* Proofs about SourcePath, for any number of faults and of I2C transfers   *)
(* that fail: the types, that the provider path only ever closes onto two   *)
(* open paths, and that VBUS stays discharged once source_off has returned 0.*)
(***************************************************************************)
EXTENDS SourcePath, TLAPS

\* The registers, VBUS and the mutex.
ChipTypes ==
    /\ ctrl \in {"open", "idle", "source", "source_off"} /\ latched \in BOOLEAN
    /\ vbus \in 0..2 /\ cn3 \in BOOLEAN /\ lock \in Holders

\* The call under way, and what it is for: only a call has one.
CallTypes ==
    /\ at \in {"idle", "supply", "lock", "open", "gate", "poll_on", "off", "poll_off",
               "idle_write"}
    /\ undoing \in BOOLEAN /\ ok \in BOOLEAN /\ dark \in BOOLEAN
    /\ doing \in {"none", "enable", "disable", "reset", "recover"}
    /\ at # "idle" => doing # "none"

\* The port.
PortTypes ==
    /\ tc \in {"unattached", "source", "hardreset", "error"}
    /\ hr \in {"none", "recover", "failed"} /\ due \in BOOLEAN
    /\ recovery \in BOOLEAN /\ lost \in BOOLEAN

\* The work; every run of it, one under way and one submitted included, answers a fault of
\* its own.
WorkTypes ==
    /\ fw \in {"idle", "lock", "read", "open", "idle_write", "unlock", "report"}
    /\ again \in BOOLEAN /\ flagged \in {"none", "fault", "error"}
    /\ faults \in Nat /\ fell \in 0..MaxFaults /\ errors \in 0..MaxErrors
    /\ faults <= fell
    /\ fw # "idle" => faults < fell
    /\ again => fw # "idle" /\ faults + 1 < fell

Types == ChipTypes /\ CallTypes /\ PortTypes /\ WorkTypes

\* No step leaves the registers, VBUS or the mutex without a value of their type.
LEMMA ChipStep ==
  ASSUME ChipTypes, [Next]_vars
  PROVE  ChipTypes'
<1> USE PathAssumption
<1>1. CASE Vbus
  BY <1>1 DEF Vbus, provided, chipVars, callVars, portVars, workVars, ChipTypes, Holders
<1>2. CASE Supply
  BY <1>2 DEF Supply, chipVars, callVars, portVars, workVars, ChipTypes, Holders
<1>3. CASE Fault
  BY <1>3 DEF Fault, lineVars, callVars, portVars, ChipTypes, Holders
<1>4. CASE WorkLock
  BY <1>4 DEF WorkLock, chipVars, lineVars, callVars, portVars, ChipTypes, Holders
<1>5. CASE WorkRead
  BY <1>5 DEF WorkRead, i2c_fails, chipVars, lineVars, callVars, portVars, ChipTypes, Holders
<1>6. CASE WorkClear
  BY <1>6 DEF WorkClear, ctrl_write, i2c_fails, chipVars, lineVars, callVars, portVars,
      ChipTypes, Holders
<1>7. CASE WorkUnlock
  BY <1>7 DEF WorkUnlock, chipVars, lineVars, callVars, portVars, ChipTypes, Holders
<1>8. CASE WorkReport
  BY <1>8 DEF WorkReport, usbc_recovery, chipVars, lineVars, callVars, ChipTypes, Holders
<1>9. CASE supply_ok
  BY <1>9 DEF supply_ok, Return, At, usbc_recovery, work_first, chipVars, lineVars, portVars,
      workVars, ChipTypes, Holders
<1>10. CASE SourceLock
  BY <1>10 DEF SourceLock, At, work_first, chipVars, lineVars, portVars, workVars, ChipTypes,
      Holders
<1>11. CASE OpenPaths
  BY <1>11 DEF OpenPaths, ctrl_write, i2c_fails, At, work_first, chipVars, lineVars, portVars,
      workVars, ChipTypes, Holders
<1>12. CASE CloseProvider
  BY <1>12 DEF CloseProvider, ctrl_write, i2c_fails, At, work_first, chipVars, lineVars,
      portVars, workVars, ChipTypes, Holders
<1>13. CASE VbusOn
  BY <1>13 DEF VbusOn, Return, At, usbc_recovery, work_first, chipVars, lineVars, portVars,
      workVars, ChipTypes, Holders
<1>14. CASE SourceOff
  BY <1>14 DEF SourceOff, ctrl_write, i2c_fails, At, work_first, chipVars, lineVars, portVars,
      workVars, ChipTypes, Holders
<1>15. CASE Discharged
  BY <1>15 DEF Discharged, At, work_first, chipVars, lineVars, portVars, workVars, ChipTypes,
      Holders
<1>16. CASE tcpp03_idle
  BY <1>16 DEF tcpp03_idle, ctrl_write, i2c_fails, Return, At, usbc_recovery, work_first,
      chipVars, lineVars, workVars, ChipTypes, Holders
<1>17. CASE Enable
  BY <1>17 DEF Enable, Call, At, chipVars, lineVars, workVars, ChipTypes, Holders
<1>18. CASE Disable
  BY <1>18 DEF Disable, Call, At, chipVars, lineVars, workVars, ChipTypes, Holders
<1>19. CASE RecoverUnattached
  BY <1>19 DEF RecoverUnattached, At, work_first, chipVars, lineVars, callVars, workVars,
      ChipTypes, Holders
<1>20. CASE src_hard_reset
  BY <1>20 DEF src_hard_reset, Call, At, chipVars, lineVars, workVars, ChipTypes, Holders
<1>21. CASE src_recovered
  BY <1>21 DEF src_recovered, Call, At, chipVars, lineVars, workVars, ChipTypes, Holders
<1>22. CASE RecoverTime
  BY <1>22 DEF RecoverTime, chipVars, lineVars, callVars, workVars, ChipTypes, Holders
<1>23. CASE UNCHANGED vars
  BY <1>23 DEF vars, chipVars, lineVars, callVars, portVars, workVars, ChipTypes, Holders
<1> QED
  BY <1>1, <1>2, <1>3, <1>4, <1>5, <1>6, <1>7, <1>8, <1>9, <1>10, <1>11, <1>12, <1>13, <1>14,
      <1>15, <1>16, <1>17, <1>18, <1>19, <1>20, <1>21, <1>22, <1>23 DEF Next, fault_handler,
      Switching, Requested

\* Nor the call: one begins for a purpose and ends with none.
LEMMA CallStep ==
  ASSUME CallTypes, [Next]_vars
  PROVE  CallTypes'
<1> USE PathAssumption
<1>1. CASE Vbus
  BY <1>1 DEF Vbus, provided, chipVars, callVars, portVars, workVars, CallTypes
<1>2. CASE Supply
  BY <1>2 DEF Supply, chipVars, callVars, portVars, workVars, CallTypes
<1>3. CASE Fault
  BY <1>3 DEF Fault, lineVars, callVars, portVars, CallTypes
<1>4. CASE WorkLock
  BY <1>4 DEF WorkLock, chipVars, lineVars, callVars, portVars, CallTypes
<1>5. CASE WorkRead
  BY <1>5 DEF WorkRead, i2c_fails, chipVars, lineVars, callVars, portVars, CallTypes
<1>6. CASE WorkClear
  BY <1>6 DEF WorkClear, ctrl_write, i2c_fails, chipVars, lineVars, callVars, portVars, CallTypes
<1>7. CASE WorkUnlock
  BY <1>7 DEF WorkUnlock, chipVars, lineVars, callVars, portVars, CallTypes
<1>8. CASE WorkReport
  BY <1>8 DEF WorkReport, usbc_recovery, chipVars, lineVars, callVars, CallTypes
<1>9. CASE supply_ok
  BY <1>9 DEF supply_ok, Return, At, usbc_recovery, work_first, chipVars, lineVars, portVars,
      workVars, CallTypes
<1>10. CASE SourceLock
  BY <1>10 DEF SourceLock, At, work_first, chipVars, lineVars, portVars, workVars, CallTypes
<1>11. CASE OpenPaths
  BY <1>11 DEF OpenPaths, ctrl_write, i2c_fails, At, work_first, chipVars, lineVars, portVars,
      workVars, CallTypes
<1>12. CASE CloseProvider
  BY <1>12 DEF CloseProvider, ctrl_write, i2c_fails, At, work_first, chipVars, lineVars,
      portVars, workVars, CallTypes
<1>13. CASE VbusOn
  BY <1>13 DEF VbusOn, Return, At, usbc_recovery, work_first, chipVars, lineVars, portVars,
      workVars, CallTypes
<1>14. CASE SourceOff
  BY <1>14 DEF SourceOff, ctrl_write, i2c_fails, At, work_first, chipVars, lineVars, portVars,
      workVars, CallTypes
<1>15. CASE Discharged
  BY <1>15 DEF Discharged, At, work_first, chipVars, lineVars, portVars, workVars, CallTypes
<1>16. CASE tcpp03_idle
  BY <1>16 DEF tcpp03_idle, ctrl_write, i2c_fails, Return, At, usbc_recovery, work_first,
      chipVars, lineVars, workVars, CallTypes
<1>17. CASE Enable
  BY <1>17 DEF Enable, Call, At, chipVars, lineVars, workVars, CallTypes
<1>18. CASE Disable
  BY <1>18 DEF Disable, Call, At, chipVars, lineVars, workVars, CallTypes
<1>19. CASE RecoverUnattached
  BY <1>19 DEF RecoverUnattached, At, work_first, chipVars, lineVars, callVars, workVars,
      CallTypes
<1>20. CASE src_hard_reset
  BY <1>20 DEF src_hard_reset, Call, At, chipVars, lineVars, workVars, CallTypes
<1>21. CASE src_recovered
  BY <1>21 DEF src_recovered, Call, At, chipVars, lineVars, workVars, CallTypes
<1>22. CASE RecoverTime
  BY <1>22 DEF RecoverTime, chipVars, lineVars, callVars, workVars, CallTypes
<1>23. CASE UNCHANGED vars
  BY <1>23 DEF vars, chipVars, lineVars, callVars, portVars, workVars, CallTypes
<1> QED
  BY <1>1, <1>2, <1>3, <1>4, <1>5, <1>6, <1>7, <1>8, <1>9, <1>10, <1>11, <1>12, <1>13, <1>14,
      <1>15, <1>16, <1>17, <1>18, <1>19, <1>20, <1>21, <1>22, <1>23 DEF Next, fault_handler,
      Switching, Requested

\* Nor the port: what a call returns to it is for the call it made.
LEMMA PortStep ==
  ASSUME PortTypes, CallTypes, [Next]_vars
  PROVE  PortTypes'
<1> USE PathAssumption
<1>1. CASE Vbus
  BY <1>1 DEF Vbus, provided, chipVars, callVars, portVars, workVars, PortTypes, CallTypes
<1>2. CASE Supply
  BY <1>2 DEF Supply, chipVars, callVars, portVars, workVars, PortTypes, CallTypes
<1>3. CASE Fault
  BY <1>3 DEF Fault, lineVars, callVars, portVars, PortTypes, CallTypes
<1>4. CASE WorkLock
  BY <1>4 DEF WorkLock, chipVars, lineVars, callVars, portVars, PortTypes, CallTypes
<1>5. CASE WorkRead
  BY <1>5 DEF WorkRead, i2c_fails, chipVars, lineVars, callVars, portVars, PortTypes, CallTypes
<1>6. CASE WorkClear
  BY <1>6 DEF WorkClear, ctrl_write, i2c_fails, chipVars, lineVars, callVars, portVars,
      PortTypes, CallTypes
<1>7. CASE WorkUnlock
  BY <1>7 DEF WorkUnlock, chipVars, lineVars, callVars, portVars, PortTypes, CallTypes
<1>8. CASE WorkReport
  BY <1>8 DEF WorkReport, usbc_recovery, chipVars, lineVars, callVars, PortTypes, CallTypes
<1>9. CASE supply_ok
  BY <1>9 DEF supply_ok, Return, At, usbc_recovery, work_first, chipVars, lineVars, portVars,
      workVars, PortTypes, CallTypes
<1>10. CASE SourceLock
  BY <1>10 DEF SourceLock, At, work_first, chipVars, lineVars, portVars, workVars, PortTypes,
      CallTypes
<1>11. CASE OpenPaths
  BY <1>11 DEF OpenPaths, ctrl_write, i2c_fails, At, work_first, chipVars, lineVars, portVars,
      workVars, PortTypes, CallTypes
<1>12. CASE CloseProvider
  BY <1>12 DEF CloseProvider, ctrl_write, i2c_fails, At, work_first, chipVars, lineVars,
      portVars, workVars, PortTypes, CallTypes
<1>13. CASE VbusOn
  BY <1>13 DEF VbusOn, Return, At, usbc_recovery, work_first, chipVars, lineVars, portVars,
      workVars, PortTypes, CallTypes
<1>14. CASE SourceOff
  BY <1>14 DEF SourceOff, ctrl_write, i2c_fails, At, work_first, chipVars, lineVars, portVars,
      workVars, PortTypes, CallTypes
<1>15. CASE Discharged
  BY <1>15 DEF Discharged, At, work_first, chipVars, lineVars, portVars, workVars, PortTypes,
      CallTypes
<1>16. CASE tcpp03_idle
  BY <1>16 DEF tcpp03_idle, ctrl_write, i2c_fails, Return, At, usbc_recovery, work_first,
      chipVars, lineVars, workVars, PortTypes, CallTypes
<1>17. CASE Enable
  BY <1>17 DEF Enable, Call, At, chipVars, lineVars, workVars, PortTypes, CallTypes
<1>18. CASE Disable
  BY <1>18 DEF Disable, Call, At, chipVars, lineVars, workVars, PortTypes, CallTypes
<1>19. CASE RecoverUnattached
  BY <1>19 DEF RecoverUnattached, At, work_first, chipVars, lineVars, callVars, workVars,
      PortTypes, CallTypes
<1>20. CASE src_hard_reset
  BY <1>20 DEF src_hard_reset, Call, At, chipVars, lineVars, workVars, PortTypes, CallTypes
<1>21. CASE src_recovered
  BY <1>21 DEF src_recovered, Call, At, chipVars, lineVars, workVars, PortTypes, CallTypes
<1>22. CASE RecoverTime
  BY <1>22 DEF RecoverTime, chipVars, lineVars, callVars, workVars, PortTypes, CallTypes
<1>23. CASE UNCHANGED vars
  BY <1>23 DEF vars, chipVars, lineVars, callVars, portVars, workVars, PortTypes, CallTypes
<1> QED
  BY <1>1, <1>2, <1>3, <1>4, <1>5, <1>6, <1>7, <1>8, <1>9, <1>10, <1>11, <1>12, <1>13, <1>14,
      <1>15, <1>16, <1>17, <1>18, <1>19, <1>20, <1>21, <1>22, <1>23 DEF Next, fault_handler,
      Switching, Requested

\* Nor the work: what is submitted while it runs waits for it to end.
LEMMA WorkStep ==
  ASSUME WorkTypes, [Next]_vars
  PROVE  WorkTypes'
<1> USE PathAssumption
<1>1. CASE Vbus
  BY <1>1 DEF Vbus, provided, chipVars, callVars, portVars, workVars, WorkTypes
<1>2. CASE Supply
  BY <1>2 DEF Supply, chipVars, callVars, portVars, workVars, WorkTypes
<1>3. CASE Fault
  <2>1. /\ fell' = fell + 1 /\ fell < MaxFaults /\ faults' = faults /\ errors' = errors
        /\ flagged' = flagged
    BY <1>3 DEF Fault
  <2>2. CASE fw = "idle"
    <3>1. fw' = "lock" /\ again' = again /\ ~again
      BY <1>3, <2>2 DEF Fault, WorkTypes
    <3>2. again' \in BOOLEAN
      BY <3>1 DEF WorkTypes
    <3> QED
      BY <2>1, <2>2, <3>1, <3>2 DEF WorkTypes
  <2>3. CASE fw # "idle"
    <3>1. fw' = fw /\ again' = TRUE
      BY <1>3, <2>3 DEF Fault
    <3>2. again' \in BOOLEAN
      BY <3>1
    <3> QED
      BY <2>1, <2>3, <3>1, <3>2 DEF WorkTypes
  <2> QED
    BY <2>2, <2>3
<1>4. CASE WorkLock
  BY <1>4 DEF WorkLock, chipVars, lineVars, callVars, portVars, WorkTypes
<1>5. CASE WorkRead
  BY <1>5 DEF WorkRead, i2c_fails, chipVars, lineVars, callVars, portVars, WorkTypes
<1>6. CASE WorkClear
  BY <1>6 DEF WorkClear, ctrl_write, i2c_fails, chipVars, lineVars, callVars, portVars, WorkTypes
<1>7. CASE WorkUnlock
  BY <1>7 DEF WorkUnlock, chipVars, lineVars, callVars, portVars, WorkTypes
<1>8. CASE WorkReport
  <2>1. /\ faults' \in {faults, faults + 1} /\ again' = FALSE /\ flagged' = flagged
        /\ fell' = fell /\ errors' = errors /\ fw = "report"
    BY <1>8 DEF WorkReport
  <2>2. fw' \in {"lock", "idle"} /\ (fw' # "idle" => again)
    BY <1>8 DEF WorkReport
  <2>3. again' \in BOOLEAN /\ ~again'
    BY <2>1
  <2>4. faults' \in Nat /\ faults' <= fell /\ (again => faults' < fell)
    <3>1. faults \in Nat /\ fell \in Nat /\ faults < fell
      BY <2>1 DEF WorkTypes
    <3>2. again => faults + 1 < fell
      BY DEF WorkTypes
    <3>3. faults' \in Nat /\ faults' <= fell /\ faults' <= faults + 1
      BY <2>1, <3>1
    <3>4. faults + 1 < fell => faults' < fell
      BY <3>1, <3>3
    <3> QED
      BY <3>2, <3>3, <3>4
  <2>5. fw' # "idle" => faults' < fell'
    BY <2>1, <2>2, <2>4
  <2>6. /\ flagged' \in {"none", "fault", "error"} /\ fell' \in 0..MaxFaults
        /\ errors' \in 0..MaxErrors /\ faults' \in Nat /\ faults' <= fell'
    BY <2>1, <2>4 DEF WorkTypes
  <2> QED
    BY <2>2, <2>3, <2>5, <2>6 DEF WorkTypes
<1>9. CASE supply_ok
  BY <1>9 DEF supply_ok, At, work_first, chipVars, lineVars, portVars, workVars, WorkTypes
<1>10. CASE SourceLock
  BY <1>10 DEF SourceLock, At, work_first, chipVars, lineVars, portVars, workVars, WorkTypes
<1>11. CASE OpenPaths
  BY <1>11 DEF OpenPaths, ctrl_write, i2c_fails, At, work_first, chipVars, lineVars, portVars,
      workVars, WorkTypes
<1>12. CASE CloseProvider
  BY <1>12 DEF CloseProvider, ctrl_write, i2c_fails, At, work_first, chipVars, lineVars,
      portVars, workVars, WorkTypes
<1>13. CASE VbusOn
  BY <1>13 DEF VbusOn, At, work_first, chipVars, lineVars, portVars, workVars, WorkTypes
<1>14. CASE SourceOff
  BY <1>14 DEF SourceOff, ctrl_write, i2c_fails, At, work_first, chipVars, lineVars, portVars,
      workVars, WorkTypes
<1>15. CASE Discharged
  BY <1>15 DEF Discharged, At, work_first, chipVars, lineVars, portVars, workVars, WorkTypes
<1>16. CASE tcpp03_idle
  <2>1. errors' = errors \/ (errors < MaxErrors /\ errors' = errors + 1)
    BY <1>16 DEF tcpp03_idle, ctrl_write, i2c_fails
  <2>2. UNCHANGED <<workVars, fell>>
    BY <1>16 DEF tcpp03_idle
  <2> QED
    BY <2>1, <2>2 DEF workVars, WorkTypes
<1>17. CASE Enable
  BY <1>17 DEF Enable, Call, At, chipVars, lineVars, workVars, WorkTypes
<1>18. CASE Disable
  BY <1>18 DEF Disable, Call, At, chipVars, lineVars, workVars, WorkTypes
<1>19. CASE RecoverUnattached
  BY <1>19 DEF RecoverUnattached, At, work_first, chipVars, lineVars, callVars, workVars,
      WorkTypes
<1>20. CASE src_hard_reset
  BY <1>20 DEF src_hard_reset, Call, At, chipVars, lineVars, workVars, WorkTypes
<1>21. CASE src_recovered
  BY <1>21 DEF src_recovered, Call, At, chipVars, lineVars, workVars, WorkTypes
<1>22. CASE RecoverTime
  BY <1>22 DEF RecoverTime, chipVars, lineVars, callVars, workVars, WorkTypes
<1>23. CASE UNCHANGED vars
  BY <1>23 DEF vars, chipVars, lineVars, callVars, portVars, workVars, WorkTypes
<1> QED
  BY <1>1, <1>2, <1>3, <1>4, <1>5, <1>6, <1>7, <1>8, <1>9, <1>10, <1>11, <1>12, <1>13, <1>14,
      <1>15, <1>16, <1>17, <1>18, <1>19, <1>20, <1>21, <1>22, <1>23 DEF Next, fault_handler,
      Switching, Requested

\* The types hold of every behaviour.
LEMMA TypesHold == Spec => []Types
<1>1. Init => Types
  <2>1. Init => ChipTypes
    <3>1. Init => /\ ctrl = "idle" /\ latched = FALSE /\ vbus = 0 /\ cn3 \in BOOLEAN
                  /\ lock = "none"
      BY DEF Init
    <3>2. Init => latched \in BOOLEAN
      BY <3>1
    <3> QED
      BY <3>1, <3>2 DEF ChipTypes, Holders
  <2>2. Init => CallTypes
    BY DEF Init, CallTypes
  <2>3. Init => PortTypes
    BY DEF Init, PortTypes
  <2>4. Init => WorkTypes
    <3>1. Init => /\ fw = "idle" /\ again = FALSE /\ flagged = "none" /\ faults = 0
                  /\ fell = 0 /\ errors = 0
      BY DEF Init
    <3>2. Init => again \in BOOLEAN /\ ~again
      BY <3>1
    <3> QED
      BY <3>1, <3>2, PathAssumption DEF WorkTypes
  <2> QED
    BY <2>1, <2>2, <2>3, <2>4 DEF Types
<1>2. Types /\ [Next]_vars => Types'
  BY ChipStep, CallStep, PortStep, WorkStep DEF Types
<1> QED
  BY <1>1, <1>2, PTL DEF Spec

\* Every variable of the provider path keeps a value of its type, and no more faults are
\* counted than fell: a fault flag read twice, by the work and by its resubmission, would.
THEOREM TypeCorrect == Spec => []TypeOK
<1>1. Types => TypeOK
  BY PathAssumption DEF Types, ChipTypes, CallTypes, PortTypes, WorkTypes, TypeOK
<1> QED
  BY <1>1, TypesHold, PTL

----------------------------------------------------------------------------
(* The mutex, and what is written under it.                                *)

\* The stack's thread holds the mutex for its two writes and the work for all of a run that
\* reads the flags; between the two writes both paths are open.
UnderMutex ==
    /\ at \in {"open", "gate"} <=> lock = "stack"
    /\ fw \in {"read", "open", "idle_write", "unlock"} <=> lock = "work"
    /\ at = "gate" => ctrl = "open"

\* No step writes the control byte between the two writes of tcpp03_source.
LEMMA MutexStep ==
  ASSUME UnderMutex, ChipTypes, CallTypes, [Next]_vars
  PROVE  UnderMutex'
<1> USE PathAssumption
<1>1. CASE Vbus
  BY <1>1 DEF Vbus, provided, chipVars, callVars, portVars, workVars, UnderMutex, ChipTypes,
      CallTypes, Holders
<1>2. CASE Supply
  BY <1>2 DEF Supply, chipVars, callVars, portVars, workVars, UnderMutex, ChipTypes, CallTypes,
      Holders
<1>3. CASE Fault
  BY <1>3 DEF Fault, lineVars, callVars, portVars, UnderMutex, ChipTypes, CallTypes, Holders
<1>4. CASE WorkLock
  BY <1>4 DEF WorkLock, chipVars, lineVars, callVars, portVars, UnderMutex, ChipTypes, CallTypes,
      Holders
<1>5. CASE WorkRead
  BY <1>5 DEF WorkRead, i2c_fails, chipVars, lineVars, callVars, portVars, UnderMutex, ChipTypes,
      CallTypes, Holders
<1>6. CASE WorkClear
  BY <1>6 DEF WorkClear, ctrl_write, i2c_fails, chipVars, lineVars, callVars, portVars,
      UnderMutex, ChipTypes, CallTypes, Holders
<1>7. CASE WorkUnlock
  BY <1>7 DEF WorkUnlock, chipVars, lineVars, callVars, portVars, UnderMutex, ChipTypes,
      CallTypes, Holders
<1>8. CASE WorkReport
  BY <1>8 DEF WorkReport, usbc_recovery, chipVars, lineVars, callVars, UnderMutex, ChipTypes,
      CallTypes, Holders
<1>9. CASE supply_ok
  BY <1>9 DEF supply_ok, Return, At, usbc_recovery, work_first, chipVars, lineVars, portVars,
      workVars, UnderMutex, ChipTypes, CallTypes, Holders
<1>10. CASE SourceLock
  BY <1>10 DEF SourceLock, At, work_first, chipVars, lineVars, portVars, workVars, UnderMutex,
      ChipTypes, CallTypes, Holders
<1>11. CASE OpenPaths
  BY <1>11 DEF OpenPaths, ctrl_write, i2c_fails, At, work_first, chipVars, lineVars, portVars,
      workVars, UnderMutex, ChipTypes, CallTypes, Holders
<1>12. CASE CloseProvider
  BY <1>12 DEF CloseProvider, ctrl_write, i2c_fails, At, work_first, chipVars, lineVars,
      portVars, workVars, UnderMutex, ChipTypes, CallTypes, Holders
<1>13. CASE VbusOn
  BY <1>13 DEF VbusOn, Return, At, usbc_recovery, work_first, chipVars, lineVars, portVars,
      workVars, UnderMutex, ChipTypes, CallTypes, Holders
<1>14. CASE SourceOff
  BY <1>14 DEF SourceOff, ctrl_write, i2c_fails, At, work_first, chipVars, lineVars, portVars,
      workVars, UnderMutex, ChipTypes, CallTypes, Holders
<1>15. CASE Discharged
  BY <1>15 DEF Discharged, At, work_first, chipVars, lineVars, portVars, workVars, UnderMutex,
      ChipTypes, CallTypes, Holders
<1>16. CASE tcpp03_idle
  BY <1>16 DEF tcpp03_idle, ctrl_write, i2c_fails, Return, At, usbc_recovery, work_first,
      chipVars, lineVars, workVars, UnderMutex, ChipTypes, CallTypes, Holders
<1>17. CASE Enable
  BY <1>17 DEF Enable, Call, At, chipVars, lineVars, workVars, UnderMutex, ChipTypes, CallTypes,
      Holders
<1>18. CASE Disable
  BY <1>18 DEF Disable, Call, At, chipVars, lineVars, workVars, UnderMutex, ChipTypes, CallTypes,
      Holders
<1>19. CASE RecoverUnattached
  BY <1>19 DEF RecoverUnattached, At, work_first, chipVars, lineVars, callVars, workVars,
      UnderMutex, ChipTypes, CallTypes, Holders
<1>20. CASE src_hard_reset
  BY <1>20 DEF src_hard_reset, Call, At, chipVars, lineVars, workVars, UnderMutex, ChipTypes,
      CallTypes, Holders
<1>21. CASE src_recovered
  BY <1>21 DEF src_recovered, Call, At, chipVars, lineVars, workVars, UnderMutex, ChipTypes,
      CallTypes, Holders
<1>22. CASE RecoverTime
  BY <1>22 DEF RecoverTime, chipVars, lineVars, callVars, workVars, UnderMutex, ChipTypes,
      CallTypes, Holders
<1>23. CASE UNCHANGED vars
  BY <1>23 DEF vars, chipVars, lineVars, callVars, portVars, workVars, UnderMutex, ChipTypes,
    CallTypes, Holders
<1> QED
  BY <1>1, <1>2, <1>3, <1>4, <1>5, <1>6, <1>7, <1>8, <1>9, <1>10, <1>11, <1>12, <1>13, <1>14,
      <1>15, <1>16, <1>17, <1>18, <1>19, <1>20, <1>21, <1>22, <1>23 DEF Next, fault_handler,
      Switching, Requested

LEMMA MutexHolds == Spec => []UnderMutex
<1>1. Init => UnderMutex
  BY DEF Init, UnderMutex
<1>2. Types /\ UnderMutex /\ [Next]_vars => UnderMutex'
  BY MutexStep DEF Types
<1> QED
  BY <1>1, <1>2, TypesHold, PTL DEF Spec

\* The provider path closes in CloseProvider alone, and there both paths are open.
LEMMA GateStep ==
  ASSUME UnderMutex, ChipTypes, [Next]_vars
  PROVE  ctrl' = "source" => ctrl = "open" \/ UNCHANGED ctrl
<1> USE PathAssumption
<1>1. CASE Vbus
  BY <1>1 DEF Vbus, provided, chipVars, callVars, portVars, workVars, UnderMutex, ChipTypes
<1>2. CASE Supply
  BY <1>2 DEF Supply, chipVars, callVars, portVars, workVars, UnderMutex, ChipTypes
<1>3. CASE Fault
  BY <1>3 DEF Fault, lineVars, callVars, portVars, UnderMutex, ChipTypes
<1>4. CASE WorkLock
  BY <1>4 DEF WorkLock, chipVars, lineVars, callVars, portVars, UnderMutex, ChipTypes
<1>5. CASE WorkRead
  BY <1>5 DEF WorkRead, i2c_fails, chipVars, lineVars, callVars, portVars, UnderMutex, ChipTypes
<1>6. CASE WorkClear
  BY <1>6 DEF WorkClear, ctrl_write, i2c_fails, chipVars, lineVars, callVars, portVars,
      UnderMutex, ChipTypes
<1>7. CASE WorkUnlock
  BY <1>7 DEF WorkUnlock, chipVars, lineVars, callVars, portVars, UnderMutex, ChipTypes
<1>8. CASE WorkReport
  BY <1>8 DEF WorkReport, usbc_recovery, chipVars, lineVars, callVars, UnderMutex, ChipTypes
<1>9. CASE supply_ok
  BY <1>9 DEF supply_ok, Return, At, usbc_recovery, work_first, chipVars, lineVars, portVars,
      workVars, UnderMutex, ChipTypes
<1>10. CASE SourceLock
  BY <1>10 DEF SourceLock, At, work_first, chipVars, lineVars, portVars, workVars, UnderMutex,
      ChipTypes
<1>11. CASE OpenPaths
  BY <1>11 DEF OpenPaths, ctrl_write, i2c_fails, At, work_first, chipVars, lineVars, portVars,
      workVars, UnderMutex, ChipTypes
<1>12. CASE CloseProvider
  BY <1>12 DEF CloseProvider, ctrl_write, i2c_fails, At, work_first, chipVars, lineVars,
      portVars, workVars, UnderMutex, ChipTypes
<1>13. CASE VbusOn
  BY <1>13 DEF VbusOn, Return, At, usbc_recovery, work_first, chipVars, lineVars, portVars,
      workVars, UnderMutex, ChipTypes
<1>14. CASE SourceOff
  BY <1>14 DEF SourceOff, ctrl_write, i2c_fails, At, work_first, chipVars, lineVars, portVars,
      workVars, UnderMutex, ChipTypes
<1>15. CASE Discharged
  BY <1>15 DEF Discharged, At, work_first, chipVars, lineVars, portVars, workVars, UnderMutex,
      ChipTypes
<1>16. CASE tcpp03_idle
  BY <1>16 DEF tcpp03_idle, ctrl_write, i2c_fails, Return, At, usbc_recovery, work_first,
      chipVars, lineVars, workVars, UnderMutex, ChipTypes
<1>17. CASE Enable
  BY <1>17 DEF Enable, Call, At, chipVars, lineVars, workVars, UnderMutex, ChipTypes
<1>18. CASE Disable
  BY <1>18 DEF Disable, Call, At, chipVars, lineVars, workVars, UnderMutex, ChipTypes
<1>19. CASE RecoverUnattached
  BY <1>19 DEF RecoverUnattached, At, work_first, chipVars, lineVars, callVars, workVars,
      UnderMutex, ChipTypes
<1>20. CASE src_hard_reset
  BY <1>20 DEF src_hard_reset, Call, At, chipVars, lineVars, workVars, UnderMutex, ChipTypes
<1>21. CASE src_recovered
  BY <1>21 DEF src_recovered, Call, At, chipVars, lineVars, workVars, UnderMutex, ChipTypes
<1>22. CASE RecoverTime
  BY <1>22 DEF RecoverTime, chipVars, lineVars, callVars, workVars, UnderMutex, ChipTypes
<1>23. CASE UNCHANGED vars
  BY <1>23 DEF vars, chipVars, lineVars, callVars, portVars, workVars, UnderMutex, ChipTypes
<1> QED
  BY <1>1, <1>2, <1>3, <1>4, <1>5, <1>6, <1>7, <1>8, <1>9, <1>10, <1>11, <1>12, <1>13, <1>14,
      <1>15, <1>16, <1>17, <1>18, <1>19, <1>20, <1>21, <1>22, <1>23 DEF Next, fault_handler,
      Switching, Requested

\* The provider path closes only onto two open paths, whatever the fault work writes and
\* whichever transfer fails: tcpp03_source keeps the mutex over GATE_SWAP_MS.
THEOREM GatesNeverMeet == Spec => GateSwap
<1>1. Types /\ UnderMutex /\ [Next]_vars
        => [ctrl' = "source" => ctrl = "open" \/ UNCHANGED ctrl]_vars
  BY GateStep DEF Types
<1> QED
  BY <1>1, TypesHold, MutexHolds, PTL DEF Spec, GateSwap

----------------------------------------------------------------------------
(* VBUS after source_off.                                                  *)

\* What makes VBUS stay off: the steps that turn on belong to a call that turns on, the
\* provider path is open from the first write of source_off on, and source_off returns 0
\* only after it saw VBUS discharged under an open path.
SwitchedOff ==
    /\ dark => at = "idle" /\ vbus = 0 /\ ctrl # "source"
    /\ at \in {"supply", "lock", "open", "gate", "poll_on"} => doing \in {"enable", "recover"}
    /\ at = "poll_off" => ctrl # "source"
    /\ at = "idle_write" /\ ok => vbus = 0 /\ ctrl # "source"

\* No step raises VBUS or closes the provider path after that, but one of a new call.
LEMMA OffStep ==
  ASSUME SwitchedOff, ChipTypes, CallTypes, [Next]_vars
  PROVE  SwitchedOff'
<1> USE PathAssumption
<1>1. CASE Vbus
  BY <1>1 DEF Vbus, provided, chipVars, callVars, portVars, workVars, SwitchedOff, ChipTypes,
      CallTypes
<1>2. CASE Supply
  BY <1>2 DEF Supply, chipVars, callVars, portVars, workVars, SwitchedOff, ChipTypes, CallTypes
<1>3. CASE Fault
  BY <1>3 DEF Fault, lineVars, callVars, portVars, SwitchedOff, ChipTypes, CallTypes
<1>4. CASE WorkLock
  BY <1>4 DEF WorkLock, chipVars, lineVars, callVars, portVars, SwitchedOff, ChipTypes, CallTypes
<1>5. CASE WorkRead
  BY <1>5 DEF WorkRead, i2c_fails, chipVars, lineVars, callVars, portVars, SwitchedOff,
      ChipTypes, CallTypes
<1>6. CASE WorkClear
  BY <1>6 DEF WorkClear, ctrl_write, i2c_fails, chipVars, lineVars, callVars, portVars,
      SwitchedOff, ChipTypes, CallTypes
<1>7. CASE WorkUnlock
  BY <1>7 DEF WorkUnlock, chipVars, lineVars, callVars, portVars, SwitchedOff, ChipTypes,
      CallTypes
<1>8. CASE WorkReport
  BY <1>8 DEF WorkReport, usbc_recovery, chipVars, lineVars, callVars, SwitchedOff, ChipTypes,
      CallTypes
<1>9. CASE supply_ok
  BY <1>9 DEF supply_ok, Return, At, usbc_recovery, work_first, chipVars, lineVars, portVars,
      workVars, SwitchedOff, ChipTypes, CallTypes
<1>10. CASE SourceLock
  BY <1>10 DEF SourceLock, At, work_first, chipVars, lineVars, portVars, workVars, SwitchedOff,
      ChipTypes, CallTypes
<1>11. CASE OpenPaths
  BY <1>11 DEF OpenPaths, ctrl_write, i2c_fails, At, work_first, chipVars, lineVars, portVars,
      workVars, SwitchedOff, ChipTypes, CallTypes
<1>12. CASE CloseProvider
  BY <1>12 DEF CloseProvider, ctrl_write, i2c_fails, At, work_first, chipVars, lineVars,
      portVars, workVars, SwitchedOff, ChipTypes, CallTypes
<1>13. CASE VbusOn
  BY <1>13 DEF VbusOn, Return, At, usbc_recovery, work_first, chipVars, lineVars, portVars,
      workVars, SwitchedOff, ChipTypes, CallTypes
<1>14. CASE SourceOff
  BY <1>14 DEF SourceOff, ctrl_write, i2c_fails, At, work_first, chipVars, lineVars, portVars,
      workVars, SwitchedOff, ChipTypes, CallTypes
<1>15. CASE Discharged
  BY <1>15 DEF Discharged, At, work_first, chipVars, lineVars, portVars, workVars, SwitchedOff,
      ChipTypes, CallTypes
<1>16. CASE tcpp03_idle
  BY <1>16 DEF tcpp03_idle, ctrl_write, i2c_fails, Return, At, usbc_recovery, work_first,
      chipVars, lineVars, workVars, SwitchedOff, ChipTypes, CallTypes
<1>17. CASE Enable
  BY <1>17 DEF Enable, Call, At, chipVars, lineVars, workVars, SwitchedOff, ChipTypes, CallTypes
<1>18. CASE Disable
  BY <1>18 DEF Disable, Call, At, chipVars, lineVars, workVars, SwitchedOff, ChipTypes, CallTypes
<1>19. CASE RecoverUnattached
  BY <1>19 DEF RecoverUnattached, At, work_first, chipVars, lineVars, callVars, workVars,
      SwitchedOff, ChipTypes, CallTypes
<1>20. CASE src_hard_reset
  BY <1>20 DEF src_hard_reset, Call, At, chipVars, lineVars, workVars, SwitchedOff, ChipTypes,
      CallTypes
<1>21. CASE src_recovered
  BY <1>21 DEF src_recovered, Call, At, chipVars, lineVars, workVars, SwitchedOff, ChipTypes,
      CallTypes
<1>22. CASE RecoverTime
  BY <1>22 DEF RecoverTime, chipVars, lineVars, callVars, workVars, SwitchedOff, ChipTypes,
      CallTypes
<1>23. CASE UNCHANGED vars
  BY <1>23 DEF vars, chipVars, lineVars, callVars, portVars, workVars, SwitchedOff, ChipTypes,
    CallTypes
<1> QED
  BY <1>1, <1>2, <1>3, <1>4, <1>5, <1>6, <1>7, <1>8, <1>9, <1>10, <1>11, <1>12, <1>13, <1>14,
      <1>15, <1>16, <1>17, <1>18, <1>19, <1>20, <1>21, <1>22, <1>23 DEF Next, fault_handler,
      Switching, Requested

\* Once source_off has returned 0, VBUS is and stays at vSafe0V until the stack calls again,
\* for any number of faults whose work writes the control byte meanwhile.
THEOREM StaysDischarged == Spec => []VbusStaysOff
<1>1. Init => SwitchedOff
  BY DEF Init, SwitchedOff
<1>2. Types /\ SwitchedOff /\ [Next]_vars => SwitchedOff'
  BY OffStep DEF Types
<1>3. SwitchedOff => VbusStaysOff
  BY DEF SwitchedOff, VbusStaysOff
<1> QED
  BY <1>1, <1>2, <1>3, TypesHold, PTL DEF Spec
----------------------------------------------------------------------------
(* What is owed to a port that sources.                                    *)

Asked == recovery \/ lost

\* A fault under a path the stack's thread has closed, or is closing, is still to be found by
\* the work or has been reported: a fault that fell while the work had already read the
\* flags submits it again, and flags that could not be read count as a fault.
FaultHeld ==
    /\ latched /\ (at \in {"gate", "poll_on"} \/ (at = "idle" /\ tc = "source"))
         => fw # "idle" \/ Asked
    /\ fw \in {"open", "idle_write"} => flagged = "fault"
    /\ latched /\ fw \in {"unlock", "report"} /\ flagged = "none" => again
    /\ at \in {"off", "poll_off", "idle_write"} /\ doing \in {"enable", "recover"} => undoing

\* The work only ever ends with the fault cleared, reported, or due to be read anew.
LEMMA WorkKeepsFault ==
  ASSUME FaultHeld, UnderMutex, Types, fault_handler
  PROVE  FaultHeld'
<1> USE DEF Types, ChipTypes, CallTypes, PortTypes, WorkTypes
<1>1. CASE WorkLock
  BY <1>1 DEF WorkLock, chipVars, lineVars, callVars, portVars, FaultHeld, Asked
<1>2. CASE WorkRead
  BY <1>2 DEF WorkRead, i2c_fails, chipVars, lineVars, callVars, portVars, FaultHeld, Asked
<1>3. CASE WorkClear
  BY <1>3 DEF WorkClear, ctrl_write, i2c_fails, lineVars, callVars, portVars, chipVars, FaultHeld,
      Asked, UnderMutex
<1>4. CASE WorkUnlock
  BY <1>4 DEF WorkUnlock, chipVars, lineVars, callVars, portVars, FaultHeld, Asked
<1>5. CASE WorkReport
  BY <1>5 DEF WorkReport, usbc_recovery, chipVars, lineVars, callVars, FaultHeld, Asked
<1> QED
  BY <1>1, <1>2, <1>3, <1>4, <1>5 DEF fault_handler

\* Turning the source on clears what was latched before its first write.
LEMMA SwitchKeepsFault ==
  ASSUME FaultHeld, UnderMutex, SwitchedOff, Types, Switching
  PROVE  FaultHeld'
<1> USE DEF Types, ChipTypes, CallTypes, PortTypes, WorkTypes, At, work_first, chipVars, lineVars,
            portVars, workVars, FaultHeld, Asked, UnderMutex
<1>1. CASE supply_ok
  BY <1>1 DEF supply_ok, Return, usbc_recovery, SwitchedOff
<1>2. CASE SourceLock
  BY <1>2 DEF SourceLock
<1>3. CASE OpenPaths
  BY <1>3 DEF OpenPaths, ctrl_write, i2c_fails
<1>4. CASE CloseProvider
  BY <1>4 DEF CloseProvider, ctrl_write, i2c_fails
<1>5. CASE VbusOn
  BY <1>5 DEF VbusOn, Return, usbc_recovery, SwitchedOff
<1>6. CASE SourceOff
  BY <1>6 DEF SourceOff, ctrl_write, i2c_fails
<1>7. CASE Discharged
  BY <1>7 DEF Discharged
<1>8. CASE tcpp03_idle
  BY <1>8 DEF tcpp03_idle, ctrl_write, i2c_fails, Return, usbc_recovery
<1> QED
  BY <1>1, <1>2, <1>3, <1>4, <1>5, <1>6, <1>7, <1>8 DEF Switching

LEMMA OthersKeepFault ==
  ASSUME FaultHeld, UnderMutex, Types,
         Vbus \/ Supply \/ Fault \/ Requested \/ RecoverTime \/ UNCHANGED vars
  PROVE  FaultHeld'
<1> USE DEF Types, ChipTypes, CallTypes, PortTypes, WorkTypes, At, work_first, chipVars, lineVars,
            callVars, portVars, workVars, FaultHeld, Asked
<1>1. CASE Vbus \/ Supply
  BY <1>1 DEF Vbus, Supply
<1>2. CASE Fault
  BY <1>2 DEF Fault
<1>3. CASE Enable \/ Disable
  BY <1>3 DEF Enable, Disable, Call
<1>4. CASE RecoverUnattached
  BY <1>4 DEF RecoverUnattached
<1>5. CASE src_hard_reset \/ src_recovered
  BY <1>5 DEF src_hard_reset, src_recovered, Call
<1>6. CASE RecoverTime
  BY <1>6 DEF RecoverTime
<1>7. CASE UNCHANGED vars
  BY <1>7 DEF vars
<1> QED
  BY <1>1, <1>2, <1>3, <1>4, <1>5, <1>6, <1>7 DEF Requested

LEMMA OffHolds == Spec => []SwitchedOff
<1>1. Init => SwitchedOff
  BY DEF Init, SwitchedOff
<1>2. Types /\ SwitchedOff /\ [Next]_vars => SwitchedOff'
  BY OffStep DEF Types
<1> QED
  BY <1>1, <1>2, TypesHold, PTL DEF Spec

\* A fault that has opened the path under a sourcing port is never forgotten, whichever I2C
\* transfer fails and whenever it fell: the safety half of a fault ending its attach.
THEOREM FaultsAreOwed == Spec => []FaultIsOwed
<1>1. Init => FaultHeld
  BY DEF Init, FaultHeld
<1>2. Types /\ UnderMutex /\ SwitchedOff /\ FaultHeld /\ [Next]_vars => FaultHeld'
  BY WorkKeepsFault, SwitchKeepsFault, OthersKeepFault DEF Next
<1>3. FaultHeld => FaultIsOwed
  BY DEF FaultHeld, FaultIsOwed, Asked
<1> QED
  BY <1>1, <1>2, <1>3, TypesHold, MutexHolds, OffHolds, PTL DEF Spec

\* A port in a Hard Reset has its stack waiting to turn VBUS on again, or has asked for
\* ErrorRecovery; a call under way is one of the Hard Reset's own or ends the attach.
ResetHeld ==
    /\ tc = "hardreset" /\ at = "idle" => hr = "recover" \/ Asked
    /\ tc = "hardreset" /\ at # "idle" => doing \in {"disable", "recover"}
    /\ doing = "recover" => tc = "hardreset"

LEMMA ResetHeldStep ==
  ASSUME ResetHeld, Types, [Next]_vars
  PROVE  ResetHeld'
<1> USE DEF Types, ChipTypes, CallTypes, PortTypes, WorkTypes, ResetHeld, Asked
<1>1. CASE Vbus \/ Supply \/ Fault \/ UNCHANGED vars
  BY <1>1 DEF Vbus, Supply, Fault, vars, callVars, portVars
<1>2. CASE fault_handler
  BY <1>2 DEF fault_handler, WorkLock, WorkRead, WorkClear, WorkUnlock, WorkReport, usbc_recovery,
      callVars, portVars
<1>3. CASE supply_ok
  BY <1>3 DEF supply_ok, At, Return, usbc_recovery, portVars
<1>4. CASE SourceLock
  BY <1>4 DEF SourceLock, At, portVars
<1>5. CASE OpenPaths
  BY <1>5 DEF OpenPaths, At, portVars
<1>6. CASE CloseProvider
  BY <1>6 DEF CloseProvider, At, portVars
<1>7. CASE VbusOn
  BY <1>7 DEF VbusOn, At, Return, usbc_recovery, portVars
<1>8. CASE SourceOff \/ Discharged
  BY <1>8 DEF SourceOff, Discharged, At, portVars
<1>9. CASE tcpp03_idle
  BY <1>9 DEF tcpp03_idle, At, Return, usbc_recovery, portVars
<1>10. CASE Enable
  BY <1>10 DEF Enable, Call, At
<1>11. CASE Disable
  BY <1>11 DEF Disable, Call, At
<1>12. CASE RecoverUnattached
  BY <1>12 DEF RecoverUnattached, At, callVars
<1>13. CASE src_hard_reset \/ src_recovered
  BY <1>13 DEF src_hard_reset, src_recovered, Call, At
<1>14. CASE RecoverTime
  BY <1>14 DEF RecoverTime, callVars
<1> QED
  BY <1>1, <1>2, <1>3, <1>4, <1>5, <1>6, <1>7, <1>8, <1>9, <1>10, <1>11, <1>12, <1>13, <1>14
      DEF Next, Switching, Requested

\* No Hard Reset is left without an end on its way, whether VBUS does not go off or does not
\* come back and whichever transfer fails: the safety half of a Hard Reset ending.
THEOREM ResetsAreOwed == Spec => []ResetIsOwed
<1>1. Init => ResetHeld
  BY DEF Init, ResetHeld
<1>2. Types /\ ResetHeld /\ [Next]_vars => ResetHeld'
  BY ResetHeldStep
<1>3. ResetHeld => ResetIsOwed
  BY DEF ResetHeld, ResetIsOwed, Asked
<1> QED
  BY <1>1, <1>2, <1>3, TypesHold, PTL DEF Spec

\* No fault and no Hard Reset is left with nothing under way to end it: the safety half of
\* TroubleEnds.
THEOREM TroublesAreOwed == Spec => []TroubleIsOwed
<1>1. FaultIsOwed /\ ResetIsOwed => TroubleIsOwed
  BY DEF TroubleIsOwed
<1> QED
  BY <1>1, FaultsAreOwed, ResetsAreOwed, PTL
=============================================================================
