---------------------------- MODULE MCRunProtocol ----------------------------
(* Two protocols on one or two characteristics for TLC.                       *)
EXTENDS RunProtocol

MCSession == 0..2
MCPayload == {"chunk", "other"}
MCSources == {0, 1}

Keep  == [s \in MCSession |-> [p \in MCPayload |-> s]]
Count == [s \in MCSession |-> [p \in MCPayload |-> IF s < 2 THEN s + 1 ELSE s]]

AtLeast(n) == {s \in MCSession : s >= n} \X MCPayload

NoWrite   == [with_response |-> FALSE, resolves |-> TRUE]
NoTimeout == [after_ms |-> 1, retry |-> 0, goto_state |-> 1]

Active(has_write, write, arms, has_timeout, timeout) ==
  [kind |-> "active", terminal |-> "fail", has_on_enter |-> has_write, on_enter |-> write,
   on_event |-> arms, has_on_timeout |-> has_timeout, on_timeout |-> timeout]

Terminal(t) ==
  [kind |-> "terminal", terminal |-> t, has_on_enter |-> FALSE, on_enter |-> NoWrite,
   on_event |-> <<>>, has_on_timeout |-> FALSE, on_timeout |-> NoTimeout]

(* A request that is retried once, then a pump that counts two chunks under a
   watchdog without acknowledging them.                                       *)
Pump ==
  [states |->
     << Active(TRUE, [with_response |-> TRUE, resolves |-> TRUE],
               << [frame |-> 1, remember |-> Keep, when |-> <<>>, otherwise |-> {2}] >>,
               TRUE, [after_ms |-> 1, retry |-> 1, goto_state |-> 4]),
        Active(FALSE, NoWrite,
               << [frame |-> 1, remember |-> Count,
                   when |-> << [holds |-> AtLeast(2), goto_state |-> 3] >>, otherwise |-> {}] >>,
               TRUE, [after_ms |-> 2, retry |-> 0, goto_state |-> 4]),
        Terminal("pass"), Terminal("fail") >>,
   frames |-> << [source |-> 0, matches |-> {"chunk"}] >>,
   session_initial |-> 0]

(* Two characteristics; the acknowledgement re-enters the state, the second
   frame leads to a write whose operand does not resolve.                     *)
Acked ==
  [states |->
     << Active(TRUE, [with_response |-> FALSE, resolves |-> TRUE],
               << [frame |-> 1, remember |-> Count,
                   when |-> << [holds |-> AtLeast(2), goto_state |-> 3] >>, otherwise |-> {1}],
                  [frame |-> 2, remember |-> Keep, when |-> <<>>, otherwise |-> {2}] >>,
               FALSE, NoTimeout),
        Active(TRUE, [with_response |-> TRUE, resolves |-> FALSE], <<>>, FALSE, NoTimeout),
        Terminal("pass") >>,
   frames |-> << [source |-> 0, matches |-> {"chunk"}],
                 [source |-> 1, matches |-> MCPayload] >>,
   session_initial |-> 0]

MCJobs == { [def |-> Pump, entry_state |-> 1, timeout_ms |-> 5],
            [def |-> Acked, entry_state |-> 1, timeout_ms |-> 2] }
=============================================================================
