---------------------------- MODULE CaptureLink ----------------------------
(***************************************************************************)
(* What Core may rely on when it reads the capture taps of a study off the *)
(* link: a tap's records arrive only between its StreamOpen and its        *)
(* StreamClose, a tap is opened at most once per study, and StudyDone      *)
(* comes only when no tap is open any more.  StreamTaps implements this    *)
(* with three threads.                                                     *)
(***************************************************************************)
EXTENDS Naturals

CONSTANT TapIds       (* the ids a study's taps may have                   *)

VARIABLES running,    (* between the StudyStart and its StudyDone           *)
          tap,        (* tap id -> "none" | "open" | "closed"               *)
          records     (* tap id -> records carried since its StreamOpen     *)

vars == <<running, tap, records>>

TypeOK ==
  /\ running \in BOOLEAN
  /\ tap \in [TapIds -> {"none", "open", "closed"}]
  /\ records \in [TapIds -> Nat]

Init ==
  /\ running = FALSE
  /\ tap = [i \in TapIds |-> "none"]
  /\ records = [i \in TapIds |-> 0]

Begin ==
  /\ ~running
  /\ running' = TRUE
  /\ tap' = [i \in TapIds |-> "none"]
  /\ records' = [i \in TapIds |-> 0]

Open(i) ==
  /\ running
  /\ tap[i] = "none"
  /\ tap' = [tap EXCEPT ![i] = "open"]
  /\ UNCHANGED <<running, records>>

(* One captured event may land in the files of several taps at once.        *)
Record(S) ==
  /\ running
  /\ \A i \in S : tap[i] = "open"
  /\ records' = [i \in TapIds |-> IF i \in S THEN records[i] + 1 ELSE records[i]]
  /\ UNCHANGED <<running, tap>>

Close(i) ==
  /\ tap[i] = "open"
  /\ tap' = [tap EXCEPT ![i] = "closed"]
  /\ UNCHANGED <<running, records>>

Finish ==
  /\ running
  /\ \A i \in TapIds : tap[i] # "open"
  /\ running' = FALSE
  /\ UNCHANGED <<tap, records>>

Next ==
  \/ Begin
  \/ \E i \in TapIds : Open(i) \/ Close(i)
  \/ \E S \in SUBSET TapIds : Record(S)
  \/ Finish

Spec == Init /\ [][Next]_vars
=============================================================================
