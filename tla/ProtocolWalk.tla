---------------------------- MODULE ProtocolWalk ----------------------------
(***************************************************************************)
(* What a protocol declaration promises its author of one RunProtocol      *)
(* step: the machine walks the declared graph from its entry state, one    *)
(* notification or one expiry per move; a state's write goes out once for  *)
(* each time the state is entered or retried and before the machine        *)
(* listens; a timeout leads on only when its retries are used up; a frame  *)
(* that leads nowhere changes nothing; and the report names the state the  *)
(* walk ended in and why.  Notifications may be lost on the way.           *)
(* RunProtocol implements this.                                            *)
(***************************************************************************)
EXTENDS Naturals

CONSTANT Graphs   (* declared graphs: entry; pass, fail: the states that end
                     the walk; writes, acked: the states with a write, and
                     with an acknowledged one; gotos, expires: where frames
                     and an expiry lead; retry                             *)

VARIABLES graph,
          phase,    (* "idle" | "setup" | "walking" | "over"                *)
          at,       (* the state the machine is in                          *)
          asked,    (* how often it has been entered again on a timeout     *)
          mail,     (* its write: "none" | "owed" | "asked" (not answered)  *)
          inbox,    (* notifications on their way to the machine            *)
          report    (* [kind, protocol, state]                              *)

vars == <<graph, phase, at, asked, mail, inbox, report>>

Report(k, p, s) == [kind |-> k, protocol |-> p, state |-> s]

Listening == phase = "walking" /\ mail = "none" /\ at \notin graph.pass \cup graph.fail

Init ==
  /\ graph \in Graphs
  /\ phase = "idle" /\ at = graph.entry /\ asked = 0 /\ mail = "none" /\ inbox = 0
  /\ report = Report("none", "none", 0)

(* A step that finds no connection is refused at once.                       *)
Begin(g) ==
  /\ phase = "idle"
  /\ graph' = g /\ at' = g.entry /\ asked' = 0
  /\ \/ phase' = "setup" /\ report' = Report("none", "none", 0)
     \/ phase' = "idle" /\ report' = Report("fail", "none", 0)
  /\ UNCHANGED <<mail, inbox>>

SetupFails ==
  /\ phase = "setup"
  /\ \E k \in {"fail", "timed_out", "disconnected"} : report' = Report(k, "none", 0)
  /\ \/ phase' = "over" /\ UNCHANGED inbox
     \/ phase' = "idle" /\ inbox' = 0
  /\ UNCHANGED <<graph, at, asked, mail>>

Arrive ==
  /\ phase # "idle"
  /\ inbox' = inbox + 1
  /\ UNCHANGED <<graph, phase, at, asked, mail, report>>

Enter(s, n) ==
  /\ at' = s /\ asked' = n
  /\ mail' = IF s \in graph.writes THEN "owed" ELSE "none"

Start ==
  /\ phase = "setup" /\ phase' = "walking"
  /\ Enter(at, 0)
  /\ UNCHANGED <<graph, inbox, report>>

Send ==
  /\ phase = "walking" /\ mail = "owed"
  /\ mail' = IF at \in graph.acked THEN "asked" ELSE "none"
  /\ UNCHANGED <<graph, phase, at, asked, inbox, report>>

Answered ==
  /\ phase = "walking" /\ mail = "asked" /\ mail' = "none"
  /\ UNCHANGED <<graph, phase, at, asked, inbox, report>>

Ignore ==
  /\ Listening /\ inbox > 0 /\ inbox' = inbox - 1
  /\ UNCHANGED <<graph, phase, at, asked, mail, report>>

FollowFrame ==
  /\ Listening /\ inbox > 0 /\ inbox' = inbox - 1
  /\ \E s \in graph.gotos[at] : Enter(s, 0)
  /\ UNCHANGED <<graph, phase, report>>

AskAgain ==
  /\ Listening /\ graph.expires[at] # {} /\ asked < graph.retry[at]
  /\ Enter(at, asked + 1)
  /\ UNCHANGED <<graph, phase, inbox, report>>

GiveUp ==
  /\ Listening /\ ~(asked < graph.retry[at])
  /\ \E s \in graph.expires[at] : Enter(s, 0)
  /\ UNCHANGED <<graph, phase, inbox, report>>

(* The verdict of the state reached, the end of the step's own time, or a
   write that failed.                                                        *)
Conclude ==
  /\ phase = "walking" /\ phase' = "over"
  /\ \/ mail = "none" /\ at \in graph.pass /\ report' = Report("pass", "pass", at)
     \/ mail = "none" /\ at \in graph.fail /\ report' = Report("fail", "fail", at)
     \/ Listening /\ report' = Report("timed_out", "timed_out", at)
     \/ /\ mail # "none"
        /\ \E k \in {"fail", "timed_out", "disconnected"} : report' = Report(k, "fail", at)
  /\ mail' = "none"
  /\ UNCHANGED <<graph, at, asked, inbox>>

Leave ==
  /\ phase = "over" /\ phase' = "idle"
  /\ inbox' = 0
  /\ UNCHANGED <<graph, at, asked, mail, report>>

Next ==
  \/ \E g \in Graphs : Begin(g)
  \/ SetupFails \/ Arrive \/ Start \/ Send \/ Answered \/ Ignore \/ FollowFrame
  \/ AskAgain \/ GiveUp \/ Conclude \/ Leave

Spec == Init /\ [][Next]_vars
=============================================================================
