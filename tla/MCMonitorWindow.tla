---------------------------- MODULE MCMonitorWindow ----------------------------
(* A DUT of three characteristics, two slots, and studies for TLC.            *)
EXTENDS MonitorWindow

S(k, t) == [kind |-> k, targets |-> t]
Connect == S("connect", {})

MCDut == <<TRUE, FALSE, TRUE, TRUE>>

(* A window around a step; a capture of one characteristic; a window re-armed
   and left open over a discovery and a reconnection.                         *)
TidyStudies ==
  { << Connect, S("start", {}), S("other", {}), S("stop", {}) >>,
    << Connect, S("all", {3}), S("start", {3}) >>,
    << Connect, S("start", {1}), S("start", {}), S("discover", {}), Connect >> }

(* A target that cannot notify, one that is missing, and steps after it.      *)
MissingTargetStudies ==
  { << Connect, S("all", {2}), S("start", {5}), S("other", {}), S("all", {}) >>,
    << Connect, S("all", {1, 5}), S("start", {3}), S("stop", {}) >> }

(* A capture inside a window; a window over bonding, a reconnection and the
   end of the bond.                                                           *)
OverlapStudy == << Connect, S("start", {}), S("all", {3}), S("stop", {}) >>
BondStudy ==
  << Connect, S("bond", {}), S("start", {3}), Connect, S("start", {1}), S("unbond", {}) >>

MCStudies == TidyStudies \cup MissingTargetStudies \cup {OverlapStudy, BondStudy}
MCOverlapStudies == {OverlapStudy}
=============================================================================
